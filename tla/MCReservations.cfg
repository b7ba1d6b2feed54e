CONSTANTS
    WordSize = 2
    NumWords = 3
    Ctx = {c1, c2, c3}
    Cmds = {"Read", "Write", "WritebackDirty", "LoadLocked", "StoreCond"}
SPECIFICATION MemSpec
INVARIANTS MemTypeOK ReservationsAreFresh
PROPERTIES LocksLostOnlyToStores
