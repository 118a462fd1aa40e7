SPECIFICATION Spec
CONSTANTS
    a1 = a1
    a2 = a2
    Agent = {a1, a2}
    MaxBoot = 2
    MaxFault = 1
INVARIANTS
    SecretsPreserved
CHECK_DEADLOCK FALSE
