\* Four requests for two slots; timers that fire, handlers that may not return.
SPECIFICATION FairSpec
CONSTANTS
    r1 = r1
    r2 = r2
    r3 = r3
    r4 = r4
    Requests = {r1, r2, r3, r4}
    N = 2
    Wait = 2
    SessionTTL = 2
    MaxClock = 3
INVARIANTS
    SlotsAccountedFor
    NoIdleSlot
    LongSessionsAreAccepted
PROPERTIES
    WaitEnds
CHECK_DEADLOCK FALSE
