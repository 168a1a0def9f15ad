SPECIFICATION Spec
CONSTANTS
    h1 = h1
    Host = h1
    Hosts = {h1}
    Cwds = {}
    NoCwd = NoCwd
    Chars <- MCChars
    Lower <- MCLower
    Blank = " "
    Wide = {}
    Tables <- NoTable
    Commands <- MCCommands
    UserKeys <- PlainKeys
    TypeAhead = FALSE
    Markers = {TRUE}
    Bottom = 1
    MaxRows = 2
    MaxTime = 0
    MaxLine = 2
    MaxUp = 1
    MaxDown = 2
PROPERTIES
    NothingAcceptedInFullScreen
CHECK_DEADLOCK FALSE
