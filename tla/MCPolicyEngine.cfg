SPECIFICATION PolicySpec
CONSTANTS
    w1 = w1
    w2 = w2
    Worker = {w1, w2}
    Budget = 1
    MaxRounds = 1
    MaxTokens = 1
    MaxDay = 1
    a1 = a1
    a2 = a2
    Actor = {a1, a2}
    Limit = 1
    Window = 2
    Stale = 4
    GcThreshold = 1
    MaxNow = 5
    MaxCount = 2
SYMMETRY PolicySymmetry
INVARIANTS
    PolicyTypeOK
    RateBounded
    SpentBounded
    NothingCarriedOver
CHECK_DEADLOCK FALSE
