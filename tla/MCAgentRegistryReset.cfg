SPECIFICATION Spec
CONSTANTS
    MaxGen = 1
    MaxMessage = 1
    None = None
INVARIANTS
    ResetSafeForAsyncUsers
CHECK_DEADLOCK FALSE
