SPECIFICATION FairSpec
CONSTANTS
    r1 = r1
    r2 = r2
    r3 = r3
    None = None
    Turns <- TwoTurns
    MaxGeneration = 2
    MaxFrames = 1
INVARIANTS TypeOK HeardIsCurrent BoundToItsTurn
PROPERTIES BargeInStops
CHECK_DEADLOCK FALSE
