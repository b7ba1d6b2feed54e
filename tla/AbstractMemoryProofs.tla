------------------------ MODULE AbstractMemoryProofs ------------------------
(***************************************************************************)
(* The reservations of AbstractMemory, for every number of words and of    *)
(* contexts and for every word size: as long as all stores go through      *)
(* writeOK, a reservation is never stale and never lost without reason.    *)
(***************************************************************************)
EXTENDS AbstractMemory, TLAPS

\* The two words a store-conditional may report exist in every word size.
LEMMA WordFacts ==
    /\ 0 \in Word
    /\ 1 \in Word
BY WordSizeAssumption DEF Word

\* access() leaves words in the memory and records of contexts in the
\* reservation list, whatever the command.
LEMMA AccessPreservesType ==
    ASSUME MemTypeOK,
           NEW cmd \in AllCmds, NEW c \in Ctx, NEW a \in Addr, NEW v \in Word,
           Access(cmd, c, a, v)
    PROVE  MemTypeOK'
<1>1. LockMask(a) \in Granules
  BY DEF Granules
<1>2. CASE AccessLoad(cmd, c, a)
  BY <1>1, <1>2 DEF AccessLoad, MemTypeOK, TrackLoadLocked
<1>3. CASE AccessStore(cmd, c, a, v)
  BY <1>1, <1>3 DEF AccessStore, MemTypeOK, EraseLocks, Holders, memVars
<1>4. CASE AccessSwap(cmd, c, a, v)
  BY <1>1, <1>4 DEF AccessSwap, MemTypeOK, Holders
<1> QED
  BY <1>2, <1>3, <1>4 DEF Access

\* What access() puts into a response is a word.
LEMMA AccessDataType ==
    ASSUME MemTypeOK, NEW cmd \in AllCmds, NEW c \in Ctx, NEW a \in Addr
    PROVE  AccessData(cmd, c, a) \in Word
<1>1. mem[a] \in Word
  BY DEF MemTypeOK
<1> QED
  BY <1>1, WordFacts DEF AccessData

-----------------------------------------------------------------------------
(* The reservations.                                                       *)

\* trackLoadLocked keeps one record per context.  Without this a context with
\* two records could lose one to a store and be left with a stale other.
OnePerContext ==
    \A r, s \in lockedAddrList : r[1] = s[1] => r = s

MemInv == MemTypeOK /\ OnePerContext /\ ReservationsAreFresh

\* A memory without reservations has no stale one.
LEMMA MemInitInv == MemInit => MemInv
BY WordFacts DEF MemInit, MemInv, MemTypeOK, OnePerContext, ReservationsAreFresh

\* A load-locked makes its context's one record fresh, and touches no other
\* context's.
LEMMA LoadKeepsInv ==
    ASSUME MemInv, NEW cmd \in AllCmds, NEW c \in Ctx, NEW a \in Addr,
           AccessLoad(cmd, c, a)
    PROVE  OnePerContext' /\ ReservationsAreFresh'
<1>1. CASE cmd # "LoadLocked"
  BY <1>1 DEF AccessLoad, MemInv, OnePerContext, ReservationsAreFresh
<1>2. CASE cmd = "LoadLocked"
  <2>1. /\ lockedAddrList' = {r \in lockedAddrList : r[1] # c} \cup {<<c, LockMask(a)>>}
        /\ dirtied' = dirtied \ {c}
    BY <1>2 DEF AccessLoad, TrackLoadLocked
  <2> QED
    BY <2>1 DEF MemInv, OnePerContext, ReservationsAreFresh
<1> QED
  BY <1>1, <1>2

\* A store that is allowed erases the records it makes stale; one that is not
\* allowed changes nothing.
LEMMA StoreKeepsInv ==
    ASSUME MemInv, NEW cmd \in AllCmds, NEW c \in Ctx, NEW a \in Addr,
           NEW v \in Word, AccessStore(cmd, c, a, v)
    PROVE  OnePerContext' /\ ReservationsAreFresh'
<1>1. CASE ~WriteOK(cmd, c, a)
  BY <1>1 DEF AccessStore, memVars, MemInv, OnePerContext, ReservationsAreFresh
<1>2. CASE WriteOK(cmd, c, a)
  <2>1. /\ lockedAddrList' = {r \in lockedAddrList : r[2] # LockMask(a)}
        /\ dirtied' = dirtied \cup {d \in Ctx : <<d, LockMask(a)>> \in lockedAddrList}
    BY <1>2 DEF AccessStore, EraseLocks, Holders
  <2> QED
    BY <2>1 DEF MemInv, MemTypeOK, OnePerContext, ReservationsAreFresh
<1> QED
  BY <1>1, <1>2

\* Every access keeps the invariant.
LEMMA MemNextInv == MemInv /\ [MemNext]_memVars => MemInv'
<1> SUFFICES ASSUME MemInv, [MemNext]_memVars
             PROVE  MemInv'
  OBVIOUS
<1>1. CASE UNCHANGED memVars
  BY <1>1 DEF memVars, MemInv, MemTypeOK, OnePerContext, ReservationsAreFresh
<1>2. ASSUME NEW cmd \in Cmds, NEW c \in Ctx, NEW a \in Addr, NEW v \in Word,
             AccessLoad(cmd, c, a) \/ AccessStore(cmd, c, a, v)
      PROVE  MemInv'
  <2>1. cmd \in AllCmds
    BY CmdsAssumption
  <2>2. MemTypeOK'
    BY <1>2, <2>1, AccessPreservesType DEF Access, MemInv
  <2>3. OnePerContext' /\ ReservationsAreFresh'
    BY <1>2, <2>1, LoadKeepsInv, StoreKeepsInv
  <2> QED
    BY <2>2, <2>3 DEF MemInv
<1> QED
  BY <1>1, <1>2 DEF MemNext

\* The inductive invariant of the reservations.
THEOREM MemInvariance == MemSpec => []MemInv
BY MemInitInv, MemNextInv, PTL DEF MemSpec

\* The memory holds words, and the reservation list contexts and granules.
THEOREM MemTypeCorrect == MemSpec => []MemTypeOK
<1>1. MemInv => MemTypeOK
  BY DEF MemInv
<1> QED
  BY <1>1, MemInvariance, PTL

\* A store-conditional that checkLockedAddrList lets through is atomic with
\* its load-locked: no store came between them, from whatever context.
THEOREM NoStaleReservation == MemSpec => []ReservationsAreFresh
<1>1. MemInv => ReservationsAreFresh
  BY DEF MemInv
<1> QED
  BY <1>1, MemInvariance, PTL

\* A record disappears only for its own context's next load-locked, or for a
\* store to its granule: a failed store-conditional erases none.
THEOREM ReservationsAreKept == MemSpec => LocksLostOnlyToStores
<1>1. ASSUME MemTypeOK, [MemNext]_memVars
      PROVE  [\A r \in lockedAddrList \ lockedAddrList' :
                r[1] \in dirtied' \/ \E g \in Granules : <<r[1], g>> \in lockedAddrList']_memVars
  <2> DEFINE Kept == \A r \in lockedAddrList \ lockedAddrList' :
                        r[1] \in dirtied' \/ \E g \in Granules : <<r[1], g>> \in lockedAddrList'
  <2>1. CASE UNCHANGED memVars
    BY <2>1
  <2>2. ASSUME NEW cmd \in Cmds, NEW c \in Ctx, NEW a \in Addr,
               AccessLoad(cmd, c, a)
        PROVE  Kept
    <3>1. LockMask(a) \in Granules
      BY DEF Granules
    <3> QED
      BY <2>2, <3>1 DEF AccessLoad, TrackLoadLocked
  <2>3. ASSUME NEW cmd \in Cmds, NEW c \in Ctx, NEW a \in Addr, NEW v \in Word,
               AccessStore(cmd, c, a, v)
        PROVE  Kept
    <3>1. CASE ~WriteOK(cmd, c, a)
      BY <2>3, <3>1 DEF AccessStore, memVars
    <3>2. CASE WriteOK(cmd, c, a)
      <4>1. /\ lockedAddrList' = {r \in lockedAddrList : r[2] # LockMask(a)}
            /\ dirtied' = dirtied \cup {d \in Ctx : <<d, LockMask(a)>> \in lockedAddrList}
        BY <2>3, <3>2 DEF AccessStore, EraseLocks, Holders
      <4> QED
        BY <1>1, <4>1 DEF MemTypeOK
    <3> QED
      BY <3>1, <3>2
  <2> QED
    BY <1>1, <2>1, <2>2, <2>3 DEF MemNext
<1> QED
  BY <1>1, MemTypeCorrect, PTL DEF MemSpec, LocksLostOnlyToStores
=============================================================================
