SPECIFICATION FairSpec
CONSTANTS
    MaxChunks = 5
    MaxAttempts = 2
    Quiet = 2
    LiveQuiet = 1
    MaxStall = 1
    MinTail = 2
    MaxLag = 1
INVARIANTS TypeOK TextIsWhole
PROPERTIES RequestEnds
CHECK_DEADLOCK FALSE
