--------------------------- MODULE AbstractMemory ---------------------------
(***************************************************************************)
(* gem5's AbstractMemory, the base class of the PIM controller: the        *)
(* backing store and the load-locked reservations, and what access() and   *)
(* functionalAccess() do to them.  Addresses are numbers of 64-bit words;  *)
(* an access is one aligned word.  The memory is writeable and has a       *)
(* backing store (the defaults `writeable = True`, `null = False`).        *)
(***************************************************************************)
EXTENDS Words

CONSTANTS
    NumWords,  \* words in the address range of the memory
    Ctx,       \* hardware contexts (ContextID)
    Cmds       \* the commands the memory is sent

AllCmds == {"Read", "Write", "WritebackDirty", "Swap", "LoadLocked", "StoreCond"}

ASSUME NumWordsAssumption == NumWords \in Nat \ {0}
ASSUME CmdsAssumption == Cmds \subseteq AllCmds

VARIABLES
    mem,             \* the words behind pmemAddr
    lockedAddrList,  \* set of <<context, locked address>>
    dirtied          \* history: contexts whose locked address a program
                     \* stored to since their last load-locked

memVars == <<mem, lockedAddrList, dirtied>>

Addr == 0 .. (NumWords - 1)

\* LockedAddr::mask: reservations have a granularity of 16 bytes, two words.
LockMask(a) == a \div 2

Granules == {LockMask(a) : a \in Addr}

-----------------------------------------------------------------------------
\* Commands whose flags contain NeedsResponse; HasData after makeResponse().
NeedsResponse(cmd) == cmd # "WritebackDirty"

ResponseHasData(cmd) == cmd \in {"Read", "Swap", "LoadLocked"}

\* Faulty variant: the record holds the address itself, unmasked.
TrackLoadLocked_Unmasked(c, a) ==
    {r \in lockedAddrList : r[1] # c} \cup {<<c, a>>}

\* trackLoadLocked: one record per context.
TrackLoadLocked(c, a) ==
    {r \in lockedAddrList : r[1] # c} \cup {<<c, LockMask(a)>>}

\* writeOK and the first half of checkLockedAddrList.
WriteOK(cmd, c, a) ==
    cmd = "StoreCond" => <<c, LockMask(a)>> \in lockedAddrList

\* Faulty variant: the store's address is compared unmasked.
EraseLocks_Unmasked(a) == {r \in lockedAddrList : r[2] # a}

\* The second half of checkLockedAddrList: a store that is allowed erases
\* the records of every context on its locked address.
EraseLocks(a) == {r \in lockedAddrList : r[2] # LockMask(a)}

\* History: the contexts that hold a reservation a store to `a` hits.
Holders(a) == {c \in Ctx : <<c, LockMask(a)>> \in lockedAddrList}

\* access(): a load, with the reservation when it is a load-locked.
AccessLoad(cmd, c, a) ==
    /\ cmd \in {"Read", "LoadLocked"}
    /\ IF cmd = "LoadLocked"
       THEN /\ lockedAddrList' = TrackLoadLocked(c, a)
            /\ dirtied' = dirtied \ {c}
       ELSE UNCHANGED <<lockedAddrList, dirtied>>
    /\ UNCHANGED mem

\* Faulty variant: a failing store-conditional erases the records too.
AccessStore_FailErases(cmd, c, a, v) ==
    /\ cmd \in {"Write", "WritebackDirty", "StoreCond"}
    /\ lockedAddrList' = EraseLocks(a)
    /\ IF WriteOK(cmd, c, a)
       THEN mem' = [mem EXCEPT ![a] = v] /\ dirtied' = dirtied \cup Holders(a)
       ELSE UNCHANGED <<mem, dirtied>>

\* access(): a store, suppressed when it is a failing store-conditional.
AccessStore(cmd, c, a, v) ==
    /\ cmd \in {"Write", "WritebackDirty", "StoreCond"}
    /\ IF WriteOK(cmd, c, a)
       THEN /\ mem' = [mem EXCEPT ![a] = v]
            /\ lockedAddrList' = EraseLocks(a)
            /\ dirtied' = dirtied \cup Holders(a)
       ELSE UNCHANGED memVars

\* access(): a SwapReq.  The new word is what the atomic operation computes
\* (or the old word, when a conditional swap fails): any word.
AccessSwap(cmd, c, a, v) ==
    /\ cmd = "Swap"
    /\ mem' = [mem EXCEPT ![a] = v]
    /\ dirtied' = dirtied \cup Holders(a)
    /\ UNCHANGED lockedAddrList

Access(cmd, c, a, v) ==
    \/ AccessLoad(cmd, c, a)
    \/ AccessStore(cmd, c, a, v)
    \/ AccessSwap(cmd, c, a, v)

\* What the response to an access carries: the word loaded or swapped out,
\* or whether the store-conditional was allowed (the request's extraData).
AccessData(cmd, c, a) ==
    CASE ResponseHasData(cmd) -> mem[a]
      [] cmd = "StoreCond" -> IF WriteOK(cmd, c, a) THEN 1 ELSE 0
      [] OTHER -> 0

\* functionalAccess() of a write: the word only, reservations stay.  It is not
\* a store of the program (loaders and debuggers write so), and the history
\* leaves it out.
FunctionalStore(a, v) ==
    /\ mem' = [mem EXCEPT ![a] = v]
    /\ UNCHANGED <<lockedAddrList, dirtied>>

-----------------------------------------------------------------------------
MemInit ==
    /\ mem = [a \in Addr |-> 0]
    /\ lockedAddrList = {}
    /\ dirtied = {}

\* Programs whose stores all go through writeOK: no swaps, no IMC operations
\* (PIMCtrl has them all).
MemNext ==
    \E cmd \in Cmds, c \in Ctx, a \in Addr, v \in Word :
        AccessLoad(cmd, c, a) \/ AccessStore(cmd, c, a, v)

MemSpec == MemInit /\ [][MemNext]_memVars

-----------------------------------------------------------------------------
MemTypeOK ==
    /\ mem \in [Addr -> Word]
    /\ lockedAddrList \subseteq Ctx \X Granules
    /\ dirtied \subseteq Ctx

(***************************************************************************)
(* writeOK "must be called on *all* stores since even non-conditional      *)
(* stores must clear any matching lock addresses": a context never holds a *)
(* reservation on an address that was stored to since its load-locked, so  *)
(* a store-conditional that succeeds is atomic with its load-locked.       *)
(***************************************************************************)
ReservationsAreFresh ==
    \A r \in lockedAddrList : r[1] \notin dirtied

(***************************************************************************)
(* "Failed store-conditionals do not blow unrelated reservations": a       *)
(* record goes away only when its context's next load-locked replaces it   *)
(* or when a store was made to its locked address.                         *)
(***************************************************************************)
LocksLostOnlyToStores ==
    [][\A r \in lockedAddrList \ lockedAddrList' :
          r[1] \in dirtied' \/ \E g \in Granules : <<r[1], g>> \in lockedAddrList']_memVars
=============================================================================
