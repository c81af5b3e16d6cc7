SPECIFICATION Spec
CONSTANTS
    Timings = {TRUE, FALSE}
    MaxReads = 3
    MaxWrites = 1
PROPERTIES
    DataCancelsTimeout
CHECK_DEADLOCK FALSE
