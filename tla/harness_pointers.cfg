SPECIFICATION Spec
CONSTANT
    MaxCreated = 4
INVARIANTS
    TypeOK
    PointersLive
PROPERTIES
    ConfirmReleasesOwnOrLater
CHECK_DEADLOCK FALSE
