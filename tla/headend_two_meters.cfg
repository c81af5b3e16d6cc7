SPECIFICATION Spec
CONSTANTS
    Meters = {m1, m2}
    MaxSockets = 3
    MaxTries = 2
    MaxEndpoints = 1
    Faults <- NoFaults
    OtherWork = FALSE
SYMMETRY MeterSymmetry
INVARIANTS
    PerformedInOrder
    ReleasedOnce
    FailedNotPerformed
CHECK_DEADLOCK FALSE
