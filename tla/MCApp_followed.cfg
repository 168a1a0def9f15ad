SPECIFICATION Spec
CONSTANTS
    h1 = h1
    Host = h1
    Hosts = {h1}
    Cwds = {home}
    home = home
    NoCwd = NoCwd
    Chars <- MCChars
    Lower <- MCLower
    Blank = " "
    Wide <- MCWide
    Tables <- MCTables
    Commands <- MCCommands
    UserKeys <- FollowedKeys
    TypeAhead = FALSE
    Markers = {TRUE}
    Bottom = 1
    MaxRows = 2
    MaxTime = 0
    MaxLine = 2
    MaxUp = 2
    MaxDown = 2
INVARIANTS
    GhostTruthful
    ExecutedAsEntered
CHECK_DEADLOCK FALSE
