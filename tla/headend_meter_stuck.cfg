SPECIFICATION FairSpec
CONSTANTS
    Meters = {m1}
    MaxSockets = 2
    MaxTries = 2
    MaxEndpoints = 1
    Faults <- NoFaults
    OtherWork = FALSE
PROPERTIES
    MeterServesAgain
CHECK_DEADLOCK FALSE
