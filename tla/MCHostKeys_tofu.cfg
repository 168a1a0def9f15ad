SPECIFICATION Spec
CONSTANTS
    c1 = c1
    c2 = c2
    c3 = c3
    ed1 = ed1
    ed2 = ed2
    rsa = rsa
    Clients <- MCClients
    Keys <- MCKeys
    Algorithm <- MCAlgorithm
SYMMETRY ClientSymmetry
INVARIANTS
    TypeOK
    OnlyTrusted
    RecordsConsistent
    SubsequentMatch
    NoFalseAlarm
CHECK_DEADLOCK FALSE
