SPECIFICATION TuiSpec
CONSTANTS
    INPUT_CAP = 1
    EVENT_CAP = 1
    MaxBytes = 2
    MaxStream = 2
    MaxInFlight = 2
    TIMEOUT = TRUE
    Kinds = {"bytes", "quit", "toggle", "local", "end", "resize"}
    MaxKeys = 2
    InitSize <- MCWide
    Sizes <- MCSizes
INVARIANTS
    TuiTypeOK
    EverythingShown
    OutcomeShown
    FinalQueued
    GridsAgree
    TerminalRestored
CHECK_DEADLOCK FALSE
