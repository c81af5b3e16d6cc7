SPECIFICATION FairSpec
CONSTANTS
    m1 = m1
    m2 = m2
    Meters = {m1, m2}
    MaxSockets = 4
    Faults <- NoFaults
    Names <- MCNames
    Url <- MCUrl
    Requests <- SchemaRequests
    MaxRequests = 2
INVARIANTS
    TypeOK
    OkMeansRelayed
    FailedMeterUntouched
    OnlyAskedFor
    OkCoversControls
PROPERTIES
    EveryRequestAnswered
CHECK_DEADLOCK FALSE
