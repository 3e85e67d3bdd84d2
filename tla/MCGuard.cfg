CONSTANTS
    c1 = c1
    c2 = c2
    Conn <- Conns
    MaxSlots = 1
SPECIFICATION FairSpec
INVARIANTS
    SlotsExact
    DeadlineFollowsGuard
    NoHandlerAfterServe
PROPERTIES
    SlotReturned
    ServeReturns
