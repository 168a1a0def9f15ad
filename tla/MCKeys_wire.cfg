SPECIFICATION Spec
CONSTANTS
    KeyEvents <- MCKeyEvents
    MouseEvents <- MCMouseEvents
    Pastes <- MCPastes
    Modes <- MCModes
    MaxEvents = 2
INVARIANTS
    Understood
    Lockstep
CHECK_DEADLOCK FALSE
