SPECIFICATION Spec
CONSTANTS
    MaxCall = 3
    PipeCap = 1
    MaxNoise = 1
    MaxMessage = 2
    MaxBatch = 2
    MaxSwitch = 1
    SafetyLimit = 2
INVARIANTS
    TypeOK
    OwnAnswer
    SwitchedOffIsOff
PROPERTIES
    ImplementsSerialCalls
    TurnEnds
CHECK_DEADLOCK FALSE
