CONSTANTS
    WordSize = 2
    IntSize = 4
    NumWords = 2
    Ctx = {c1, c2}
    Pkt = {p1}
    Cmds = {"Write", "LoadLocked", "StoreCond"}
    Delays = {1}
    Durations = {0}
    ImcOps = {"MULIMC"}
SPECIFICATION Spec
INVARIANTS ReservationsAreFresh
CHECK_DEADLOCK FALSE
