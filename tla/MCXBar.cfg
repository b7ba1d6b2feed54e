CONSTANTS
    Src = {s1, s2, s3, s4}
    None = None
SPECIFICATION FairSpec
INVARIANTS TypeOK WaitersAreKnown NoLostWakeup
PROPERTIES SignalMeansQuiet ServedInOrder EveryWaiterServed
