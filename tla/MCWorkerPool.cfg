SPECIFICATION Spec
CONSTANTS
    g = g
    c = c
    m1 = m1
    m2 = m2
    m3 = m3
    Convo = {g, c}
    Global = g
    Message = {m1, m2, m3}
    KeyOf <- MCKeyOf
    Caller = {io1, io2}
    Slot = {s1, s2, s3}
    NoKey = NoKey
    NoSlot = NoSlot
    None = None
INVARIANTS
    TypeOK
    Accounted
    OneAtATime
    SlotPointerValid
    NoLostWakeup
PROPERTIES
    ImplementsSerialDelivery
CHECK_DEADLOCK FALSE
