SPECIFICATION Spec
CONSTANTS
    s1 = s1
    s2 = s2
    s3 = s3
    a = a
    b = b
    th1 = th1
    th2 = th2
    t1 = t1
    t2 = t2
    t3 = t3
    plain = plain
    home = home
    None = None
    Sockets <- Two
    Convs <- TwoConvs
    Threads <- TwoThreads
    Turns <- ThreeTurns
    Tools <- TwoTools
    MaxConversations = 2
SYMMETRY SymmetryOfTwo
INVARIANTS TypeOK DeletedOnce NobodyIsStuck NobodyKeepsAThreadBusy
PROPERTIES NoTurnOnDeletedThread
CHECK_DEADLOCK FALSE
