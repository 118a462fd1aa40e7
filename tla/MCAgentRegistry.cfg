SPECIFICATION Spec
CONSTANTS
    MaxGen = 2
    MaxMessage = 1
    None = None
INVARIANTS
    TypeOK
    DestroyedOnlyUnused
    OneSession
    HandlersHaveObjects
PROPERTIES
    RegistryReturns
CHECK_DEADLOCK FALSE
