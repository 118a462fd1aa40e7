SPECIFICATION Spec
CONSTANTS
    b1 = b1
    b2 = b2
    g1 = g1
    q1 = q1
    q2 = q2
    Browser = {b1, b2}
    Identity = {g1, q1, q2}
    GithubIds = {g1}
    n1 = n1
    Nonce = {n1}
    MaxUser = 2
    MaxRestart = 1
SYMMETRY Symmetry
INVARIANTS
    TypeOK
    EveryoneCanLogIn
PROPERTIES
    IdentityStays
CHECK_DEADLOCK FALSE
