SPECIFICATION SessionSpec
CONSTANTS
    Meters = {}
    MaxSockets = 2
    MaxEndpoints = 2
    Faults <- BrokenConnections
    OtherWork = TRUE
    MaxEngines = 1
    MaxRequests = 0
    Requests = {}
    LineRequests = {}
INVARIANTS
    SessionTypeOK
    OneRemoval
    OnlyFirstIsServed
PROPERTIES
    LoopEndsOnlyWithCause
    ReleasedIsRemoved
    OpenIsAnswered
CHECK_DEADLOCK FALSE
