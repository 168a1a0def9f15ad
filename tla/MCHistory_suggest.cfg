SPECIFICATION HistorySpec
CONSTANTS
    h1 = h1
    h2 = h2
    home = home
    Hosts = {h1, h2}
    Cwds = {home}
    NoCwd = NoCwd
    Chars <- MCChars
    Lower <- MCLower
    Commands <- MCCommands
    MaxRows = 2
    MaxTime = 1
INVARIANTS
    HistoryTypeOK
    LiteralPrefix
    BestRanked
CHECK_DEADLOCK FALSE
