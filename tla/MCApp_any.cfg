SPECIFICATION Spec
CONSTANTS
    h1 = h1
    Host = h1
    Hosts = {h1}
    Cwds = {}
    NoCwd = NoCwd
    Chars <- OneChar
    Lower <- OneLower
    Blank = " "
    Wide = {}
    Tables <- NoTable
    Commands <- OneCommands
    UserKeys <- AnyKeys
    TypeAhead = TRUE
    Markers = {TRUE, FALSE}
    Bottom = 0
    MaxRows = 2
    MaxTime = 1
    MaxLine = 2
    MaxUp = 1
    MaxDown = 1
INVARIANTS
    AppTypeOK
    SuggestionExtends
    TagTruthful
CHECK_DEADLOCK FALSE
