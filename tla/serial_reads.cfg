SPECIFICATION FairSpec
CONSTANTS
    Timings = {TRUE, FALSE}
    MaxReads = 3
    MaxWrites = 1
INVARIANTS
    TypeOK
    ReportedInOrder
    TimeoutsHaveExpiries
    BytesInStep
    ReleaseCleansUp
PROPERTIES
    TimedReadEnds
    ReleasedIsRemoved
CHECK_DEADLOCK FALSE
