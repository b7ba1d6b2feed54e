CONSTANTS
    WordSize = 2
    IntSize = 4
    NumWords = 2
    Ctx = {c1}
    Pkt = {p1, p2, p3}
    Cmds = {"Write", "WritebackDirty"}
    Delays = {1, 3}
    Durations = {1}
    ImcOps = {"ADDMOD"}
SPECIFICATION FairSpec
INVARIANTS RetryIsOwed DeliveryArmedOnce DrainWillBeSignalled
PROPERTIES EveryRequestAnswered EveryRefusalRetried
CHECK_DEADLOCK FALSE
