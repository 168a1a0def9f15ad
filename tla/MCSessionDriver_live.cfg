SPECIFICATION LiveSpec
CONSTANTS
    INPUT_CAP = 2
    EVENT_CAP = 3
    MaxBytes = 1
    MaxStream = 1
    MaxInFlight = 1
    TIMEOUT = FALSE
    wide = wide
    narrow = narrow
    InitSize = wide
    Sizes = {wide}
PROPERTIES
    DropEndsDriver
    DisconnectEndsDriver
    WaitReturns
    DoomLasts
CHECK_DEADLOCK FALSE
