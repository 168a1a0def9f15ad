SPECIFICATION Spec
CONSTANTS
    INPUT_CAP = 2
    EVENT_CAP = 1
    MaxBytes = 2
    MaxStream = 2
    MaxInFlight = 2
    TIMEOUT = TRUE
    wide = wide
    narrow = narrow
    InitSize = wide
    Sizes <- MCSizes
INVARIANTS
    TypeOK
    IInv
    FlushBeforeClose
    WritesInOrder
    NoOutputLost
    ClosedMeansReleased
    ResizeConverges
PROPERTIES
    LifecycleSpec
CHECK_DEADLOCK FALSE
