CONSTANTS
    c1 = c1
    c2 = c2
    c3 = c3
    CPU = {c1, c2, c3}
    Src <- Ports
    None = None
    Memory = Memory
    ReqLayer = ReqLayer
    Configs <- System
    MaxRoutes = 4
SPECIFICATION FairSpec
INVARIANTS TypeOK NoAssertFails RetriesMatch ResponsesAreAwaited IMCTakesEffect
PROPERTIES ImplementsQuiescence CPUsProgress DrainEnds
CHECK_DEADLOCK FALSE
