SPECIFICATION FairSpec
CONSTANTS
    Meters = {m1}
    MaxSockets = 2
    MaxTries = 2
    MaxEndpoints = 2
    Faults <- AllFaults
    OtherWork = FALSE
INVARIANTS
    TypeOK
    CleanupBeforeRemoval
    CommandNotLost
PROPERTIES
    ImplementsRelay
    StoppedIsSilent
    SessionEnds
    MeterIsFreed
    AskedIsPerformed
CHECK_DEADLOCK FALSE
