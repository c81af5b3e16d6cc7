SPECIFICATION Spec
CONSTANTS
    Wrap = 8
    Gap = 3
    Durations = {0, 2, 5, 7}
    MaxLate = 11
INVARIANTS
    TypeOK
    ReportedInTime
PROPERTIES
    EarlyOnlyAcrossWrap
CHECK_DEADLOCK FALSE
