CONSTANTS
    WordSize = 2
    IntSize = 4
    NumWords = 2
    Ctx = {c1}
    Pkt = {p1, p2, p3}
    Cmds = {"Swap"}
    Delays = {0, 2}
    Durations = {0}
    ImcOps = {"CMPIMC"}
SPECIFICATION Spec
SYMMETRY Symmetry
INVARIANTS TypeOK NeverEarly OvertakingIsJustified
PROPERTIES ImplementsOrderedMemory
CHECK_DEADLOCK FALSE
