SPECIFICATION Spec
CONSTANTS
    Meters = {m1}
    MaxSockets = 1
    MaxTries = 2
    MaxEndpoints = 1
    Faults <- NoFaults
    OtherWork = FALSE
INVARIANTS
    OkMeansAsked
CHECK_DEADLOCK FALSE
