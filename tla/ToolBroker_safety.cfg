SPECIFICATION Spec
CONSTANTS
    Sockets = {s1, s2}
    Calls = {c1, c2}
    None = None
    MaxPending = 2
    MaxRetired = 1
    HaMaxPending = 2
    HaMaxCalls = 2
    MaxPings = 0
SYMMETRY Symmetry
INVARIANTS
    TypeOK
    TablesAreCurrent
    OneAuthority
    ToldTheTruth
    HonestAuthorityIsKept
PROPERTIES
    RemoteSpec
CHECK_DEADLOCK FALSE
