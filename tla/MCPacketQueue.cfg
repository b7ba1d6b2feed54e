CONSTANTS
    Pkt = {p1, p2, p3, p4}
    PktAddr = {a1, a2}
    Delays = {0, 2}
    MaxLength = 2
    None = None
SPECIFICATION FairSpec
INVARIANTS TypeOK SendIsArmed SentOnTime OvertakingIsJustified
PROPERTIES RefusedGoesFirst DrainIsSignalled EveryPacketSent
CHECK_DEADLOCK FALSE
