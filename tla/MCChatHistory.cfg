SPECIFICATION Spec
CONSTANTS
    Size <- MCSize
    Threshold = 4
    PromptMax = 2
    KeepLast = 2
    TruncMax = 2
    MaxTurn = 3
    MaxClear = 1
    MaxClock = 1
INVARIANTS
    TypeOK
    ClearWins
    SummaryFirst
PROPERTIES
    FallbackForgetsNothing
    EndKept
CHECK_DEADLOCK FALSE
