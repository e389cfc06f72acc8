SPECIFICATION Spec
CONSTANTS
    Turns = {t1, t2}
    Reqs = {r1}
    UserTurns = {}
    None = None
    Continuation = TRUE
    MaxEarly = 2
    MaxRequests = 3
    MaxParts = 1
SYMMETRY Symmetry
INVARIANTS
    TypeOK
    InterruptedRunNoTool
    NewestRequestKept
    NoRequestForgotten
    AnswersFitRequests
CHECK_DEADLOCK FALSE
