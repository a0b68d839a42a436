CONSTANTS
    Subs = {s1, s2}
    Offerless = {s2}
    StartStates <- MCStart
    Kinds <- MCShapes
    MaxRetries = 1
    MaxFires = 2
    MaxMoves = 1
SPECIFICATION FairSpec
CHECK_DEADLOCK FALSE
INVARIANTS TypeOK QuietWhilePaused WgBalanced CancelledStaysOut Check10Clean DrainedOnReturn
PROPERTY PausesAndRunEnd
