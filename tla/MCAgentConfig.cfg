SPECIFICATION Spec
CONSTANTS
    a1 = a1
    a2 = a2
    Agent = {a1, a2}
    MaxBoot = 3
    MaxFault = 1
INVARIANTS
    TypeOK
    AckedIsSaved
PROPERTIES
    ShutdownEnds
CHECK_DEADLOCK FALSE
