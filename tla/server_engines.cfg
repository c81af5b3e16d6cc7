SPECIFICATION SessionSpec
CONSTANTS
    Meters = {}
    MaxSockets = 1
    MaxEndpoints = 1
    Faults <- NoFault
    OtherWork = TRUE
    MaxEngines = 2
    MaxRequests = 3
    Requests <- MenuRequests
    LineRequests <- OddRequests
INVARIANTS
    ReadsLatestSet
    NothingBehindTheArray
CHECK_DEADLOCK FALSE
