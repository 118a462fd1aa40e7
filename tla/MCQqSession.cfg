SPECIFICATION Spec
CONSTANTS
    MaxFault = 2
    MaxRefresh = 1
    MaxEvent = 2
INVARIANTS
    TypeOK
    EventsOnce
    ResumeOnlyLive
    RefreshAlive
PROPERTIES
    Reconnects
    EventsArrive
CHECK_DEADLOCK FALSE
