CONSTANTS
    c1 = c1
    c2 = c2
    c3 = c3
    CPU = {c1, c2, c3}
    Src <- Ports
    None = None
    Memory = Memory
    ReqLayer = ReqLayer
    Configs <- SlowMemoryOnly
    MaxRoutes = 8
SPECIFICATION Spec
INVARIANTS NoAssertFails
CHECK_DEADLOCK FALSE
