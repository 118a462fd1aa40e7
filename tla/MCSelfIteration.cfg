SPECIFICATION IterationSpec
CONSTANTS
    e1 = e1
    e2 = e2
    Engine = {e1, e2}
    c1 = c1
    c2 = c2
    Convo = {c1, c2}
    soul = soul
    code = code
    File = {soul, code}
    Editable = {soul}
    MaxRow = 3
    MinSamples = 1
    MaxEdit = 2
    MaxRun = 2
    MaxFault = 1
SYMMETRY EngineSymmetry
INVARIANTS
    IterationTypeOK
    SamplesAreExchanges
    EditsKept
CHECK_DEADLOCK FALSE
