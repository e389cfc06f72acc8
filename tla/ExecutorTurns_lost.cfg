SPECIFICATION Spec
CONSTANTS
    Turns = {t1, t2}
    Reqs = {r1}
    UserTurns = {u1}
    None = None
    Continuation = TRUE
    MaxEarly = 2
    MaxRequests = 2
    MaxParts = 1
INVARIANTS
    NoAnswerLost
CHECK_DEADLOCK FALSE
