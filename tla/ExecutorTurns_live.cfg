SPECIFICATION SpeakingSpec
CONSTANTS
    t1 = t1
    t2 = t2
    Turns = {t1, t2, t3}
    Reqs = {r1}
    UserTurns = {u1}
    None = None
    Continuation = FALSE
    MaxEarly = 2
    MaxRequests = 3
    MaxParts = 1
PROPERTIES
    WaitsEnd
CHECK_DEADLOCK FALSE
