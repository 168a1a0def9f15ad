SPECIFICATION TuiLiveSpec
CONSTANTS
    INPUT_CAP = 1
    EVENT_CAP = 1
    MaxBytes = 3
    MaxStream = 1
    MaxInFlight = 1
    TIMEOUT = TRUE
    Kinds = {"bytes", "quit"}
    MaxKeys = 3
    InitSize <- MCWide
    Sizes <- MCOneSize
PROPERTIES
    QuitExits
CHECK_DEADLOCK FALSE
