SPECIFICATION Spec
CONSTANTS
    Period = 5
    HeadStart = 1
    Lateness = 0
    Horizon = 26
INVARIANTS
    Turns
PROPERTIES
    Alternates
CHECK_DEADLOCK FALSE
