SPECIFICATION Spec
CONSTANTS
    s1 = s1
    s2 = s2
    s3 = s3
    a = a
    b = b
    th1 = th1
    th2 = th2
    t1 = t1
    t2 = t2
    t3 = t3
    plain = plain
    home = home
    None = None
    Sockets <- Three
    Convs <- TwoConvs
    Threads <- TwoThreads
    Turns <- OneTurn
    Tools <- OneTool
    MaxConversations = 2
SYMMETRY SymmetryOfThree
INVARIANTS NotDeletedInUse
CHECK_DEADLOCK FALSE
