CONSTANTS
    c1 = c1
    c2 = c2
    c3 = c3
    CPU = {c1, c2, c3}
    Src <- Ports
    None = None
    Memory = Memory
    ReqLayer = ReqLayer
    Configs <- ThreadsOnly
    MaxRoutes = 8
SPECIFICATION FairSpec
PROPERTIES DrainCompletes
CHECK_DEADLOCK FALSE
