SPECIFICATION FairSpec
CONSTANTS
    Sockets = {s1}
    Calls = {c1, c2}
    None = None
    MaxPending = 1
    MaxRetired = 1
    HaMaxPending = 1
    HaMaxCalls = 2
    MaxPings = 1
PROPERTIES
    CallsSettle
    LiveCallsNeverOverrun
CHECK_DEADLOCK FALSE
