------------------------- MODULE PacketQueueProofs --------------------------
(***************************************************************************)
(* The safety properties of a port's packet queue, for all packets,        *)
(* addresses and delays and every size limit.  The inductive invariant     *)
(* IInv of PacketQueue is proved in three parts: TypeOK; SendInv, which    *)
(* relates the event, the retry and the head of the list; and LineInv,     *)
(* which relates the order of the line (the packet being sent and the      *)
(* list) to the order in which the packets were queued.                    *)
(***************************************************************************)
EXTENDS PacketQueue, SequenceLemmas, TLAPS

\* The tick of a packet in the list is a number of ticks, or past.
LEMMA ListFacts ==
    ASSUME TypeOK
    PROVE  /\ Len(transmitList) \in Nat
           /\ DOMAIN transmitList = 1 .. Len(transmitList)
           /\ \A k \in 1 .. Len(transmitList) :
                 /\ transmitList[k] \in DeferredPacket
                 /\ transmitList[k].pkt \in Pkt
                 /\ transmitList[k].tick \in Nat \cup {Past}
           /\ transmitList # <<>> => /\ Len(transmitList) >= 1
                                     /\ Head(transmitList) = transmitList[1]
                                     /\ Head(transmitList) \in DeferredPacket
                                     /\ Head(transmitList).tick \in Nat \cup {Past}
                                     /\ Head(transmitList) # None
<1>1. transmitList \in Seq(DeferredPacket)
  BY DEF TypeOK
<1>2. \A k \in 1 .. Len(transmitList) : transmitList[k] \in DeferredPacket
  BY <1>1
<1>3. \A d \in DeferredPacket : d.pkt \in Pkt /\ d.tick \in Nat \cup {Past} /\ d # None
  BY NoneAssumption DEF DeferredPacket
<1> QED
  BY <1>1, <1>2, <1>3

\* schedSendTiming() of a list that is not too long is one insertion, behind
\* the position at which its search stops; the event is looked at when the
\* packet goes to the front.
LEMMA SchedInserts ==
    ASSUME TypeOK, NEW p \in Pkt, NEW a \in PktAddr, NEW when \in Nat,
           SchedSendTiming(p, a, when), ~(Len(transmitList) > MaxLength)
    PROVE  \E k \in 0 .. Len(transmitList) :
              /\ InsertsBehind(k, a, when)
              /\ IsInsertion(transmitList', transmitList, k,
                             Deferred(p, a, when), DeferredPacket)
              /\ k = 0 => SchedSendEvent(when)
              /\ k # 0 => UNCHANGED sendEvent
<1> DEFINE e == Deferred(p, a, when)
<1>1. PICK k \in 0 .. Len(transmitList) :
          /\ InsertsBehind(k, a, when)
          /\ transmitList' = InsertAt(transmitList, k + 1, e)
          /\ IF k = 0 THEN SchedSendEvent(when) ELSE UNCHANGED sendEvent
  BY DEF SchedSendTiming
<1>2. e \in DeferredPacket
  BY DEF Deferred, DeferredPacket
<1>3. transmitList \in Seq(DeferredPacket)
  BY DEF TypeOK
<1> HIDE DEF e
<1>4. IsInsertion(transmitList', transmitList, k, e, DeferredPacket)
  BY <1>1, <1>2, <1>3, InsertAtLemma, Zenon
<1> QED
  BY <1>1, <1>4, Zenon DEF e

\* Time changes the remaining ticks of the packets and nothing else.
LEMMA TickList ==
    ASSUME TypeOK, Tick
    PROVE  /\ transmitList' \in Seq(DeferredPacket)
           /\ Len(transmitList') = Len(transmitList)
           /\ DOMAIN transmitList' = DOMAIN transmitList
           /\ \A k \in DOMAIN transmitList :
                 /\ transmitList'[k].pkt = transmitList[k].pkt
                 /\ transmitList'[k].addr = transmitList[k].addr
                 /\ transmitList'[k].tick = Age(transmitList[k].tick)
<1>1. transmitList \in Seq(DeferredPacket)
  BY DEF TypeOK
<1>2. \A k \in DOMAIN transmitList : transmitList[k] \in DeferredPacket
  BY <1>1
<1>3. transmitList' = [k \in DOMAIN transmitList |->
                          [transmitList[k] EXCEPT !.tick = Age(@)]]
  BY DEF Tick
<1>4. transmitList' \in [DOMAIN transmitList -> DeferredPacket]
  BY <1>2, <1>3 DEF DeferredPacket, Age, Past
<1>5. /\ transmitList' \in Seq(DeferredPacket)
      /\ Len(transmitList') = Len(transmitList)
      /\ DOMAIN transmitList' = DOMAIN transmitList
  BY <1>1, <1>4, MapLemma
<1>6. \A k \in DOMAIN transmitList :
         /\ transmitList'[k].pkt = transmitList[k].pkt
         /\ transmitList'[k].addr = transmitList[k].addr
         /\ transmitList'[k].tick = Age(transmitList[k].tick)
  BY <1>2, <1>3 DEF DeferredPacket
<1> QED
  BY <1>5, <1>6

\* The head leaves the list: what sendDeferredPacket() has before the call.
LEMMA SendList ==
    ASSUME TypeOK, SendDeferredPacket
    PROVE  /\ sending' \in DeferredPacket /\ sending' # None
           /\ sending' = transmitList[1]
           /\ transmitList' \in Seq(DeferredPacket)
           /\ Len(transmitList') = Len(transmitList) - 1
           /\ \A k \in 1 .. Len(transmitList) - 1 : transmitList'[k] = transmitList[k + 1]
<1>1. transmitList \in Seq(DeferredPacket) /\ transmitList # <<>>
  BY DEF TypeOK, SendDeferredPacket
<1>2. sending' = Head(transmitList) /\ transmitList' = Tail(transmitList)
  BY DEF SendDeferredPacket
<1>3. /\ transmitList' \in Seq(DeferredPacket)
      /\ Len(transmitList') = Len(transmitList) - 1
      /\ \A k \in 1 .. Len(transmitList) - 1 : transmitList'[k] = transmitList[k + 1]
  BY <1>1, <1>2, HeadTailProperties
<1> QED
  BY <1>1, <1>2, <1>3, ListFacts

\* A refused packet goes back to the front, and the rest moves up.
LEMMA RefusedList ==
    ASSUME TypeOK, SendRefused
    PROVE  /\ sending \in DeferredPacket
           /\ transmitList' \in Seq(DeferredPacket)
           /\ transmitList' # <<>>
           /\ Len(transmitList') = Len(transmitList) + 1
           /\ transmitList'[1] = sending
           /\ \A k \in 1 .. Len(transmitList) : transmitList'[k + 1] = transmitList[k]
<1>1. /\ transmitList \in Seq(DeferredPacket) /\ sending \in DeferredPacket
      /\ transmitList' = <<sending>> \o transmitList
  BY DEF TypeOK, SendRefused
<1> QED
  BY <1>1

-----------------------------------------------------------------------------
\* The constructed queue is well typed.
LEMMA InitType == Init => TypeOK
<1> SUFFICES ASSUME Init PROVE TypeOK
  OBVIOUS
<1>1. transmitList \in Seq(DeferredPacket)
  BY DEF Init
<1>2. /\ forceOrder \in BOOLEAN /\ waitingOnRetry \in BOOLEAN
      /\ entered \in BOOLEAN /\ panicked \in BOOLEAN
  BY Zenon DEF Init
<1> QED
  BY <1>1, <1>2, Zenon DEF Init, TypeOK

\* What schedSendEvent() may leave as the event.
LEMMA SchedSendEventType ==
    ASSUME TypeOK, NEW when \in Nat \cup {Past}, SchedSendEvent(when)
    PROVE  sendEvent' \in Nat \cup {Off}
BY DEF TypeOK, SchedSendEvent

\* The packets held are packets.
LEMMA HeldType ==
    ASSUME TypeOK
    PROVE  Held \subseteq Pkt
<1>1. sending # None => sending.pkt \in Pkt
  BY DEF TypeOK, DeferredPacket
<1> QED
  BY <1>1, ListFacts DEF Held, Listed

\* Every operation of the queue keeps the types.
LEMMA NextType == TypeOK /\ [Next]_vars => TypeOK'
<1> SUFFICES ASSUME TypeOK, [Next]_vars
             PROVE  TypeOK'
  OBVIOUS
<1> USE DEF TypeOK
<1>1. CASE UNCHANGED vars
  BY <1>1 DEF vars
<1>2. ASSUME NEW p \in Pkt, NEW a \in PktAddr, NEW when \in Delays,
             SchedSendTiming(p, a, when)
      PROVE  TypeOK'
  <2>1. when \in Nat
    BY SendDelaysAssumption
  <2>2. CASE Len(transmitList) > MaxLength
    BY <1>2, <2>2 DEF SchedSendTiming
  <2>3. CASE ~(Len(transmitList) > MaxLength)
    <3>1. transmitList' \in Seq(DeferredPacket) /\ sendEvent' \in Nat \cup {Off}
      <4>1. PICK k \in 0 .. Len(transmitList) :
                /\ IsInsertion(transmitList', transmitList, k,
                               Deferred(p, a, when), DeferredPacket)
                /\ k = 0 => SchedSendEvent(when)
                /\ k # 0 => UNCHANGED sendEvent
        BY <1>2, <2>1, <2>3, SchedInserts
      <4>2. sendEvent' \in Nat \cup {Off}
        BY <2>1, <4>1, SchedSendEventType
      <4> QED
        BY <4>1, <4>2 DEF IsInsertion
    <3>2. before' \subseteq Pkt \X Pkt
      BY <1>2, <2>3, HeldType DEF SchedSendTiming
    <3> QED
      BY <1>2, <2>3, <3>1, <3>2 DEF SchedSendTiming
  <2> QED
    BY <2>2, <2>3
<1>3. CASE ProcessSendEvent
  BY <1>3, SendList DEF ProcessSendEvent
<1>4. CASE Retry
  BY <1>4, SendList DEF Retry
<1>5. CASE SendTaken
  <2>1. sendEvent' \in Nat \cup {Off}
    BY <1>5, ListFacts, SchedSendEventType DEF SendTaken
  <2> QED
    BY <1>5, <2>1 DEF SendTaken
<1>6. CASE SendRefused
  BY <1>6, RefusedList DEF SendRefused
<1>7. CASE Drain
  BY <1>7 DEF Drain
<1>8. CASE DrainResume
  BY <1>8 DEF DrainResume
<1>9. CASE Tick
  <2>1. sendEvent' \in Nat \cup {Off}
    BY <1>9 DEF Tick, DecTick, Off
  <2> QED
    BY <1>9, <2>1, TickList DEF Tick
<1> QED
  BY <1>1, <1>2, <1>3, <1>4, <1>5, <1>6, <1>7, <1>8, <1>9 DEF Next

-----------------------------------------------------------------------------
\* The part of IInv about the event, the retry and the head of the list.
SendInv == SendIsArmed /\ SentOnTime /\ CallInv /\ DrainIsOwed

\* The line is empty when neither the list nor the call has a packet.
LEMMA LineEmpty ==
    ASSUME TypeOK
    PROVE  Line = <<>> <=> (sending = None /\ transmitList = <<>>)
BY DEF TypeOK, Line

\* An empty queue has nothing to send.
LEMMA InitSend == Init => SendInv
<1> SUFFICES ASSUME Init PROVE SendInv
  OBVIOUS
<1> QED
  BY Zenon DEF Init, SendInv, SendIsArmed, SentOnTime, CallInv, DrainIsOwed

\* What SendInv says, with the cases of `sending` taken apart.
LEMMA SendFacts ==
    ASSUME TypeOK, SendInv
    PROVE  /\ sendEvent # Off => transmitList # <<>> /\ ~waitingOnRetry /\ EventOnTime
           /\ waitingOnRetry => /\ sending = None /\ transmitList # <<>>
                                /\ Head(transmitList).tick <= 0
           /\ sending # None => sending.tick <= 0
           /\ (sending # None /\ sendEvent # Off) => entered
           /\ (sending = None /\ transmitList # <<>>) => sendEvent # Off \/ waitingOnRetry
           /\ drainState = "Draining" => sending # None \/ transmitList # <<>>
BY LineEmpty, Zenon DEF SendInv, SendIsArmed, SentOnTime, CallInv, DrainIsOwed, EventOnTime

\* The converse, the form in which every step proves SendInv.
LEMMA SendFactsSuffice ==
    ASSUME TypeOK',
           (sendEvent # Off => transmitList # <<>> /\ ~waitingOnRetry /\ EventOnTime)',
           (waitingOnRetry => /\ sending = None /\ transmitList # <<>>
                              /\ Head(transmitList).tick <= 0)',
           (sending # None => sending.tick <= 0)',
           ((sending # None /\ sendEvent # Off) => entered)',
           ((sending = None /\ transmitList # <<>>) => sendEvent # Off \/ waitingOnRetry)',
           (drainState = "Draining" => sending # None \/ transmitList # <<>>)'
    PROVE  SendInv'
<1>1. Line' = <<>> => (sending' = None /\ transmitList' = <<>>)
  BY DEF TypeOK, Line
<1> QED
  BY <1>1, Zenon DEF SendInv, SendIsArmed, SentOnTime, CallInv, DrainIsOwed, EventOnTime

\* A packet that goes behind another leaves the head alone; one that goes to
\* the front is due before the old head, so nobody waits for a retry, and
\* schedSendEvent() moves the event to it.
LEMMA SchedKeepsSend ==
    ASSUME TypeOK, TypeOK', SendInv,
           NEW p \in Pkt, NEW a \in PktAddr, NEW when \in Nat,
           SchedSendTiming(p, a, when)
    PROVE  SendInv'
<1>1. CASE Len(transmitList) > MaxLength
  <2>1. /\ UNCHANGED <<transmitList, sendEvent, waitingOnRetry, drainState, sending>>
        /\ entered' = (sending # None)
    BY <1>1 DEF SchedSendTiming
  <2> QED
    BY <2>1, Zenon DEF SendInv, SendIsArmed, SentOnTime, CallInv, DrainIsOwed, Line,
        EventOnTime
<1>2. CASE ~(Len(transmitList) > MaxLength)
  <2> DEFINE e == Deferred(p, a, when)
  <2>1. PICK k \in 0 .. Len(transmitList) :
            /\ InsertsBehind(k, a, when)
            /\ IsInsertion(transmitList', transmitList, k, e, DeferredPacket)
            /\ k = 0 => SchedSendEvent(when)
            /\ k # 0 => UNCHANGED sendEvent
    BY <1>2, SchedInserts
  <2>2. e.tick = when
    BY DEF Deferred
  <2> HIDE DEF e
  <2>3. /\ UNCHANGED <<waitingOnRetry, drainState, sending>>
        /\ entered' = (sending # None)
    BY DEF SchedSendTiming
  <2>4. transmitList' # <<>> /\ Head(transmitList') = transmitList'[1]
    BY <2>1, ListFacts DEF IsInsertion
  <2>5. CASE k # 0
    <3>1. transmitList # <<>> /\ Head(transmitList') = Head(transmitList)
      BY <2>1, <2>4, <2>5, ListFacts DEF IsInsertion
    <3>2. sendEvent' = sendEvent
      BY <2>1, <2>5
    <3> QED
      BY <2>3, <2>4, <3>1, <3>2, SendFacts, SendFactsSuffice, Zenon DEF EventOnTime
  <2>6. CASE k = 0
    <3>1. Head(transmitList') = e
      BY <2>1, <2>4, <2>6, ListFacts DEF IsInsertion
    <3>2. transmitList # <<>> => Head(transmitList).tick > when
      BY <2>1, <2>6, ListFacts DEF InsertsBehind, StopsAt, Past
    <3>3. ~waitingOnRetry
      BY <3>2, SendFacts, ListFacts DEF Past
    <3>4. SchedSendEvent(when)
      BY <2>1, <2>6
    <3>5. sendEvent # Off => sendEvent = Head(transmitList).tick
      BY <3>2, SendFacts, ListFacts DEF EventOnTime, Past
    <3>6. sendEvent' # Off /\ (sendEvent' = when \/ (when = 0 /\ sendEvent' = 1))
      BY <3>2, <3>3, <3>4, <3>5, SendFacts, ListFacts DEF SchedSendEvent, Off, Past
    <3>7. EventOnTime'
      BY <2>2, <3>1, <3>6 DEF EventOnTime
    <3> QED
      BY <2>3, <2>4, <3>3, <3>6, <3>7, SendFacts, SendFactsSuffice, Zenon
  <2> QED
    BY <2>5, <2>6
<1> QED
  BY <1>1, <1>2

\* Sending the head from the event or from a retry: the packet is due, and
\* neither trigger is left.
LEMMA SendKeepsSend ==
    ASSUME TypeOK, TypeOK', SendInv, ProcessSendEvent \/ Retry
    PROVE  SendInv'
<1>1. SendDeferredPacket /\ drainState' = drainState
  BY DEF ProcessSendEvent, Retry
<1>2. sending' # None /\ sending' = Head(transmitList) /\ transmitList # <<>>
  BY <1>1, SendList DEF SendDeferredPacket
<1>3. sendEvent' = Off /\ ~waitingOnRetry'
  <2>1. CASE ProcessSendEvent
    <3>1. sendEvent # Off
      BY <2>1 DEF ProcessSendEvent, Off
    <3> QED
      BY <2>1, <3>1, SendFacts, Zenon DEF ProcessSendEvent
  <2>2. CASE Retry
    BY <2>2, SendFacts, Zenon DEF Retry
  <2> QED
    BY <2>1, <2>2
<1>4. Head(transmitList).tick <= 0
  <2>1. CASE ProcessSendEvent
    <3>1. sendEvent = 0 /\ sendEvent # Off
      BY <2>1 DEF ProcessSendEvent, Off
    <3> QED
      BY <3>1, SendFacts, ListFacts DEF EventOnTime
  <2>2. CASE Retry
    BY <2>2, SendFacts DEF Retry
  <2> QED
    BY <2>1, <2>2
<1> QED
  BY <1>1, <1>2, <1>3, <1>4, SendFactsSuffice, Zenon

\* The packet was taken: the event is there for the next one, as it was if
\* the peer queued a packet in the call; without a next one a drain ends.
LEMMA TakenKeepsSend ==
    ASSUME TypeOK, TypeOK', SendInv, SendTaken
    PROVE  SendInv'
<1>1. sending # None /\ sending' = None /\ UNCHANGED <<transmitList, waitingOnRetry>>
  BY DEF SendTaken
<1>2. ~waitingOnRetry
  BY <1>1, SendFacts, Zenon
<1>3. CASE transmitList # <<>>
  <2>1. SchedSendEvent(Head(transmitList).tick) /\ drainState' = drainState
    BY <1>3 DEF SendTaken
  <2>2. Head(transmitList).tick \in Nat \cup {Past}
    BY <1>3, ListFacts
  <2>3. sendEvent' # Off /\ EventOnTime'
    <3>1. sendEvent \in Nat \cup {Off} /\ (sendEvent # Off => EventOnTime)
      BY SendFacts DEF TypeOK
    <3> QED
      BY <1>1, <1>2, <2>1, <2>2, <3>1 DEF SchedSendEvent, EventOnTime, Off, Past
  <2> QED
    BY <1>1, <1>2, <1>3, <2>1, <2>3, SendFactsSuffice, Zenon
<1>4. CASE transmitList = <<>>
  <2>1. sendEvent = Off
    BY <1>4, SendFacts, Zenon
  <2>2. sendEvent' = Off /\ drainState' # "Draining"
    BY <1>4, <2>1, Zenon DEF SendTaken
  <2> QED
    BY <1>1, <1>2, <1>4, <2>2, SendFactsSuffice, Zenon
<1> QED
  BY <1>3, <1>4

\* The packet was refused: it is at the front again, due, and the retry that
\* the peer owes is the only trigger, because nothing was queued in the call.
LEMMA RefusedKeepsSend ==
    ASSUME TypeOK, TypeOK', SendInv, SendRefused
    PROVE  SendInv'
<1>1. /\ sending # None /\ ~entered /\ sending' = None /\ waitingOnRetry'
      /\ UNCHANGED <<sendEvent, drainState>>
  BY DEF SendRefused
<1>2. sendEvent = Off /\ sending.tick <= 0
  BY <1>1, SendFacts, Zenon
<1>3. transmitList' # <<>> /\ Head(transmitList') = sending
  BY RefusedList
<1> QED
  BY <1>1, <1>2, <1>3, SendFactsSuffice, Zenon

\* Time brings the event and the head's tick down together, and the event
\* that was a tick late meets its packet.
LEMMA TickKeepsSend ==
    ASSUME TypeOK, TypeOK', SendInv, Tick
    PROVE  SendInv'
<1>1. /\ sending = None /\ sendEvent # 0
      /\ UNCHANGED <<waitingOnRetry, drainState, sending>>
      /\ sendEvent' = DecTick(sendEvent)
  BY DEF Tick, AtTopLevel
<1>2. (transmitList' = <<>>) <=> (transmitList = <<>>)
  BY TickList, ListFacts
<1>3. transmitList # <<>> =>
         Head(transmitList').tick = Age(Head(transmitList).tick)
  <2> SUFFICES ASSUME transmitList # <<>>
               PROVE  Head(transmitList').tick = Age(Head(transmitList).tick)
    OBVIOUS
  <2>1. 1 \in DOMAIN transmitList
    BY ListFacts
  <2>2. Head(transmitList') = transmitList'[1]
    BY <1>2, TickList
  <2> QED
    BY <2>1, <2>2, TickList, ListFacts
<1>4. sendEvent' = Off <=> sendEvent = Off
  BY <1>1 DEF TypeOK, DecTick, Off
<1>5. sendEvent # Off => EventOnTime'
  <2> SUFFICES ASSUME sendEvent # Off
               PROVE  EventOnTime'
    OBVIOUS
  <2>1. /\ Head(transmitList).tick \in Nat \cup {Past} /\ EventOnTime
        /\ Head(transmitList').tick = Age(Head(transmitList).tick)
    BY <1>3, SendFacts, ListFacts
  <2>2. sendEvent \in Nat
    BY DEF TypeOK
  <2> QED
    BY <1>1, <2>1, <2>2 DEF EventOnTime, DecTick, Age, Past
<1>6. waitingOnRetry => Head(transmitList').tick <= 0
  BY <1>3, SendFacts, ListFacts DEF Age, Past
<1> QED
  BY <1>1, <1>2, <1>4, <1>5, <1>6, SendFacts, SendFactsSuffice, Zenon

\* Every operation of the queue keeps SendInv.
LEMMA NextSend == TypeOK /\ TypeOK' /\ SendInv /\ [Next]_vars => SendInv'
<1> SUFFICES ASSUME TypeOK, TypeOK', SendInv, [Next]_vars
             PROVE  SendInv'
  OBVIOUS
<1>1. CASE UNCHANGED vars
  BY <1>1, Zenon DEF vars, SendInv, SendIsArmed, SentOnTime, CallInv, DrainIsOwed, Line,
        EventOnTime
<1>2. ASSUME NEW p \in Pkt, NEW a \in PktAddr, NEW when \in Delays,
             SchedSendTiming(p, a, when)
      PROVE  SendInv'
  BY <1>2, SendDelaysAssumption, SchedKeepsSend
<1>3. CASE Drain
  <2>1. UNCHANGED <<transmitList, sendEvent, waitingOnRetry, sending, entered>>
    BY <1>3 DEF Drain
  <2>2. drainState' = "Draining" => transmitList # <<>>
    BY <1>3 DEF Drain
  <2> QED
    BY <2>1, <2>2, SendFacts, SendFactsSuffice, Zenon DEF EventOnTime
<1>4. CASE DrainResume
  <2>1. UNCHANGED <<transmitList, sendEvent, waitingOnRetry, sending, entered>>
    BY <1>4 DEF DrainResume
  <2>2. drainState' # "Draining"
    BY <1>4 DEF DrainResume
  <2> QED
    BY <2>1, <2>2, SendFacts, SendFactsSuffice, Zenon DEF EventOnTime
<1> QED
  BY <1>1, <1>2, <1>3, <1>4, SendKeepsSend, TakenKeepsSend, RefusedKeepsSend,
     TickKeepsSend DEF Next

-----------------------------------------------------------------------------
(* The order of the line, for any sequence of deferred packets.            *)

PktsOf(L) == {L[k].pkt : k \in DOMAIN L}

\* L has distinct packets, b speaks of them only, and where one is ahead of
\* another that b has before it, it is due no later (and, with fo, goes to
\* another address).
OrderOK(L, b, fo) ==
    /\ \A i, j \in DOMAIN L : L[i].pkt = L[j].pkt => i = j
    /\ b \subseteq PktsOf(L) \X PktsOf(L)
    /\ \A i, j \in DOMAIN L :
          (i < j /\ <<L[j].pkt, L[i].pkt>> \in b) =>
              /\ L[i].tick <= L[j].tick
              /\ fo => L[i].addr # L[j].addr

\* An insertion that goes past packets only if they are due later, and have
\* another address if fo, keeps the order justified.
LEMMA OrderInsert ==
    ASSUME NEW L \in Seq(DeferredPacket), NEW b, NEW fo, OrderOK(L, b, fo),
           NEW m \in 0 .. Len(L), NEW e \in DeferredPacket, e.pkt \notin PktsOf(L),
           \A j \in DOMAIN L : j > m => /\ ~(L[j].tick <= e.tick)
                                        /\ ~(fo /\ L[j].addr = e.addr),
           NEW M, IsInsertion(M, L, m, e, DeferredPacket)
    PROVE  OrderOK(M, b \cup {<<q, e.pkt>> : q \in PktsOf(L)}, fo)
<1> DEFINE n == Len(L)
           c == b \cup {<<q, e.pkt>> : q \in PktsOf(L)}
           old(i) == IF i <= m THEN i ELSE i - 1
<1>1. n \in Nat /\ m \in Nat /\ m <= n /\ DOMAIN L = 1 .. n
  OBVIOUS
<1>2. DOMAIN M = 1 .. (n + 1) /\ M[m + 1] = e
  BY <1>1 DEF IsInsertion
<1>3. ASSUME NEW i \in 1 .. (n + 1), i # m + 1
      PROVE  /\ old(i) \in 1 .. n
             /\ M[i] = L[old(i)]
             /\ M[i].pkt \in PktsOf(L)
  <2>1. old(i) \in 1 .. n
    BY <1>1, <1>3
  <2>2. M[i] = L[old(i)]
    BY <1>1, <1>3 DEF IsInsertion
  <2> QED
    BY <1>1, <2>1, <2>2 DEF PktsOf
<1>4. \A k \in 1 .. n : L[k].tick \in Int
  <2>1. \A k \in 1 .. n : L[k] \in DeferredPacket
    OBVIOUS
  <2> QED
    BY <2>1 DEF DeferredPacket, Past
<1>5. e.tick \in Int
  BY DEF DeferredPacket, Past
<1>6. PktsOf(L) \subseteq PktsOf(M) /\ e.pkt \in PktsOf(M)
  <2>1. e.pkt \in PktsOf(M)
    BY <1>1, <1>2 DEF PktsOf
  <2>2. ASSUME NEW x \in 1 .. n
        PROVE  L[x].pkt \in PktsOf(M)
    <3> DEFINE i == IF x <= m THEN x ELSE x + 1
    <3>1. i \in 1 .. (n + 1) /\ i # m + 1 /\ old(i) = x
      BY <1>1
    <3>2. M[i] = L[x]
      BY <3>1, <1>3
    <3> QED
      BY <3>1, <3>2, <1>2 DEF PktsOf
  <2> QED
    BY <1>1, <2>1, <2>2 DEF PktsOf
<1> HIDE DEF n
<1>7. \A i, j \in 1 .. (n + 1) : M[i].pkt = M[j].pkt => i = j
  <2> SUFFICES ASSUME NEW i \in 1 .. (n + 1), NEW j \in 1 .. (n + 1),
                      M[i].pkt = M[j].pkt
               PROVE  i = j
    OBVIOUS
  <2>1. CASE i # m + 1 /\ j # m + 1
    <3>1. old(i) = old(j)
      BY <2>1, <1>1, <1>3 DEF OrderOK
    <3> QED
      BY <2>1, <3>1, <1>1
  <2>2. CASE i = m + 1 \/ j = m + 1
    BY <2>2, <1>2, <1>3
  <2> QED
    BY <2>1, <2>2
<1>8. c \subseteq PktsOf(M) \X PktsOf(M)
  BY <1>6 DEF OrderOK
<1>9. ASSUME NEW i \in 1 .. (n + 1), NEW j \in 1 .. (n + 1), i < j,
             <<M[j].pkt, M[i].pkt>> \in c
      PROVE  /\ M[i].tick <= M[j].tick
             /\ fo => M[i].addr # M[j].addr
  <2>1. CASE j = m + 1
    <3>1. M[j].pkt = e.pkt /\ M[i].pkt \in PktsOf(L)
      BY <2>1, <1>1, <1>2, <1>3, <1>9
    <3> QED
      BY <3>1, <1>9 DEF OrderOK
  <2>2. CASE i = m + 1
    <3>1. j - 1 \in 1 .. n /\ j - 1 > m /\ old(j) = j - 1 /\ j # m + 1
      BY <2>2, <1>1, <1>9
    <3>2. M[j] = L[j - 1]
      BY <3>1, <1>3
    <3>3. ~(L[j - 1].tick <= e.tick) /\ ~(fo /\ L[j - 1].addr = e.addr)
      BY <3>1, <1>1
    <3> QED
      BY <2>2, <3>1, <3>2, <3>3, <1>2, <1>4, <1>5
  <2>3. CASE i # m + 1 /\ j # m + 1
    <3>1. old(i) < old(j)
      BY <2>3, <1>1, <1>9
    <3>2. /\ M[i] = L[old(i)] /\ M[j] = L[old(j)]
          /\ old(i) \in 1 .. n /\ old(j) \in 1 .. n
          /\ M[i].pkt \in PktsOf(L)
      BY <2>3, <1>3
    <3>3. <<L[old(j)].pkt, L[old(i)].pkt>> \in b
      BY <3>2, <1>9
    <3> HIDE DEF old
    <3> QED
      BY <3>1, <3>2, <3>3, <1>1 DEF OrderOK
  <2> QED
    BY <2>1, <2>2, <2>3
<1> HIDE DEF c
<1> QED
  BY <1>2, <1>7, <1>8, <1>9 DEF OrderOK, c

\* The first packet leaves.
LEMMA OrderTail ==
    ASSUME NEW L \in Seq(DeferredPacket), NEW b, NEW fo, OrderOK(L, b, fo),
           NEW M \in Seq(DeferredPacket), L # <<>>, Len(M) = Len(L) - 1,
           \A k \in 1 .. Len(M) : M[k] = L[k + 1]
    PROVE  OrderOK(M, {pq \in b : L[1].pkt \notin {pq[1], pq[2]}}, fo)
<1> DEFINE n == Len(M)
           c == {pq \in b : L[1].pkt \notin {pq[1], pq[2]}}
<1>1. n \in Nat /\ DOMAIN L = 1 .. (n + 1) /\ DOMAIN M = 1 .. n
  OBVIOUS
<1> HIDE DEF n
<1>2. \A i, j \in DOMAIN M : M[i].pkt = M[j].pkt => i = j
  <2> SUFFICES ASSUME NEW i \in 1 .. n, NEW j \in 1 .. n, M[i].pkt = M[j].pkt
               PROVE  i = j
    BY <1>1
  <2>1. i + 1 \in DOMAIN L /\ j + 1 \in DOMAIN L
    BY <1>1
  <2>2. L[i + 1].pkt = L[j + 1].pkt
    BY DEF n
  <2>3. i + 1 = j + 1
    BY <2>1, <2>2 DEF OrderOK
  <2> QED
    BY <2>3
<1>3. c \subseteq PktsOf(M) \X PktsOf(M)
  <2>1. ASSUME NEW x \in PktsOf(L), x # L[1].pkt
        PROVE  x \in PktsOf(M)
    <3>1. PICK k \in 1 .. (n + 1) : x = L[k].pkt
      BY <1>1 DEF PktsOf
    <3>2. k - 1 \in 1 .. n /\ (k - 1) + 1 = k
      BY <2>1, <3>1, <1>1
    <3>3. M[k - 1] = L[k]
      BY <3>2 DEF n
    <3> QED
      BY <3>1, <3>2, <3>3, <1>1 DEF PktsOf
  <2> QED
    BY <2>1 DEF OrderOK
<1>4. ASSUME NEW i \in 1 .. n, NEW j \in 1 .. n, i < j,
             <<M[j].pkt, M[i].pkt>> \in c
      PROVE  /\ M[i].tick <= M[j].tick
             /\ fo => M[i].addr # M[j].addr
  <2>1. /\ i + 1 \in DOMAIN L /\ j + 1 \in DOMAIN L /\ i + 1 < j + 1
        /\ M[i] = L[i + 1] /\ M[j] = L[j + 1]
    BY <1>1, <1>4 DEF n
  <2>2. <<L[j + 1].pkt, L[i + 1].pkt>> \in b
    BY <1>4, <2>1
  <2> QED
    BY <2>1, <2>2 DEF OrderOK
<1> HIDE DEF c
<1> QED
  BY <1>1, <1>2, <1>3, <1>4 DEF OrderOK, c

\* The ticks change together.
LEMMA OrderMap ==
    ASSUME NEW L \in Seq(DeferredPacket), NEW b, NEW fo, OrderOK(L, b, fo),
           NEW M, DOMAIN M = DOMAIN L,
           \A k \in DOMAIN L : /\ M[k].pkt = L[k].pkt
                               /\ M[k].addr = L[k].addr
                               /\ M[k].tick = Age(L[k].tick)
    PROVE  OrderOK(M, b, fo)
<1>1. \A k \in DOMAIN L : L[k].tick \in Nat \cup {Past}
  <2>1. \A k \in DOMAIN L : L[k] \in DeferredPacket
    OBVIOUS
  <2> QED
    BY <2>1 DEF DeferredPacket
<1>2. \A i, j \in DOMAIN L : L[i].tick <= L[j].tick => M[i].tick <= M[j].tick
  BY <1>1 DEF Age, Past
<1>3. PktsOf(M) = PktsOf(L)
  BY DEF PktsOf
<1> QED
  BY <1>2, <1>3 DEF OrderOK

-----------------------------------------------------------------------------
(* The line of the queue.                                                  *)

\* L is the list l, behind the packet s in the call if there is one.
IsLine(L, s, l) ==
    /\ L \in Seq(DeferredPacket)
    /\ s = None => L = l /\ PktsOf(L) = PktsOf(l)
    /\ s # None => /\ Len(L) = Len(l) + 1 /\ L[1] = s
                   /\ \A k \in 1 .. Len(l) : L[k + 1] = l[k]
                   /\ PktsOf(L) = PktsOf(l) \cup {s.pkt}

\* The expression Line is defined by has these properties.
LEMMA LineOfLemma ==
    ASSUME NEW s \in DeferredPacket \cup {None}, NEW l \in Seq(DeferredPacket)
    PROVE  IsLine((IF s = None THEN <<>> ELSE <<s>>) \o l, s, l)
<1> DEFINE L == (IF s = None THEN <<>> ELSE <<s>>) \o l
<1>1. CASE s = None
  BY <1>1 DEF IsLine
<1>2. CASE s # None
  <2>1. L = <<s>> \o l /\ s \in DeferredPacket
    BY <1>2
  <2> HIDE DEF L
  <2>2. /\ L \in Seq(DeferredPacket) /\ Len(L) = Len(l) + 1 /\ L[1] = s
        /\ \A k \in 1 .. Len(l) : L[k + 1] = l[k]
    BY <2>1
  <2>3. Len(l) \in Nat /\ DOMAIN l = 1 .. Len(l) /\ DOMAIN L = 1 .. (Len(l) + 1)
    BY <2>2
  <2>4. ASSUME NEW k \in DOMAIN L
        PROVE  L[k].pkt \in PktsOf(l) \cup {s.pkt}
    <3>1. CASE k = 1
      BY <3>1, <2>2
    <3>2. CASE k # 1
      <4>1. k - 1 \in DOMAIN l /\ L[(k - 1) + 1] = l[k - 1] /\ (k - 1) + 1 = k
        BY <3>2, <2>2, <2>3
      <4> QED
        BY <4>1 DEF PktsOf
    <3> QED
      BY <3>1, <3>2
  <2>5. ASSUME NEW k \in DOMAIN l
        PROVE  l[k].pkt \in PktsOf(L)
    <3>1. k + 1 \in DOMAIN L /\ L[k + 1] = l[k]
      BY <2>2, <2>3
    <3> QED
      BY <3>1 DEF PktsOf
  <2>6. s.pkt \in PktsOf(L)
    BY <2>2, <2>3 DEF PktsOf
  <2>7. PktsOf(L) = PktsOf(l) \cup {s.pkt}
    <3>1. PktsOf(L) \subseteq PktsOf(l) \cup {s.pkt}
      <4> SUFFICES ASSUME NEW x \in PktsOf(L) PROVE x \in PktsOf(l) \cup {s.pkt}
        OBVIOUS
      <4>1. PICK k \in DOMAIN L : x = L[k].pkt
        BY Zenon DEF PktsOf
      <4> QED
        BY <4>1, <2>4
    <3>2. PktsOf(l) \subseteq PktsOf(L)
      <4> SUFFICES ASSUME NEW x \in PktsOf(l) PROVE x \in PktsOf(L)
        OBVIOUS
      <4>1. PICK k \in DOMAIN l : x = l[k].pkt
        BY Zenon DEF PktsOf
      <4> QED
        BY <4>1, <2>5
    <3> QED
      BY <3>1, <3>2, <2>6
  <2> QED
    BY <1>2, <2>2, <2>7, Zenon DEF IsLine, L
<1> QED
  BY <1>1, <1>2

\* The part of IInv about the order of the line.
LineInv == PacketsDistinct /\ HistoryInv /\ OvertakingIsJustified

\* What is known of the queue's line, and LineInv in terms of OrderOK.
LEMMA LineFacts ==
    ASSUME TypeOK
    PROVE  /\ Line \in Seq(DeferredPacket)
           /\ Held = PktsOf(Line)
           /\ sending = None => Line = transmitList
           /\ sending # None =>
                 /\ Len(Line) = Len(transmitList) + 1 /\ Line[1] = sending
                 /\ \A k \in 1 .. Len(transmitList) : Line[k + 1] = transmitList[k]
           /\ LineInv <=> OrderOK(Line, before, forceOrder)
<1>1. sending \in DeferredPacket \cup {None} /\ transmitList \in Seq(DeferredPacket)
  BY DEF TypeOK
<1>2. /\ Line \in Seq(DeferredPacket)
      /\ sending = None => Line = transmitList /\ PktsOf(Line) = PktsOf(transmitList)
      /\ sending # None =>
            /\ Len(Line) = Len(transmitList) + 1 /\ Line[1] = sending
            /\ \A k \in 1 .. Len(transmitList) : Line[k + 1] = transmitList[k]
            /\ PktsOf(Line) = PktsOf(transmitList) \cup {sending.pkt}
  <2>1. Line = (IF sending = None THEN <<>> ELSE <<sending>>) \o transmitList
    BY DEF Line
  <2> QED
    <3>1. IsLine(Line, sending, transmitList)
      BY <1>1, <2>1, LineOfLemma, Zenon
    <3> QED
      BY <3>1, Zenon DEF IsLine
<1>3. Held = PktsOf(Line)
  BY <1>2 DEF Held, Listed, PktsOf
<1>4. LineInv <=> OrderOK(Line, before, forceOrder)
  BY <1>3, Zenon DEF LineInv, PacketsDistinct, HistoryInv, OvertakingIsJustified, OrderOK
<1> QED
  BY <1>2, <1>3, <1>4

\* The same of the state after a step.
LEMMA LineFactsPrime ==
    ASSUME TypeOK'
    PROVE  /\ Line' \in Seq(DeferredPacket)
           /\ Held' = PktsOf(Line')
           /\ sending' = None => Line' = transmitList'
           /\ sending' # None =>
                 /\ Len(Line') = Len(transmitList') + 1 /\ Line'[1] = sending'
                 /\ \A k \in 1 .. Len(transmitList') : Line'[k + 1] = transmitList'[k]
           /\ LineInv' <=> OrderOK(Line', before', forceOrder')
<1>1. sending' \in DeferredPacket \cup {None} /\ transmitList' \in Seq(DeferredPacket)
  BY DEF TypeOK
<1>2. /\ Line' \in Seq(DeferredPacket)
      /\ sending' = None => Line' = transmitList' /\ PktsOf(Line') = PktsOf(transmitList')
      /\ sending' # None =>
            /\ Len(Line') = Len(transmitList') + 1 /\ Line'[1] = sending'
            /\ \A k \in 1 .. Len(transmitList') : Line'[k + 1] = transmitList'[k]
            /\ PktsOf(Line') = PktsOf(transmitList') \cup {sending'.pkt}
  <2>1. Line' = (IF sending' = None THEN <<>> ELSE <<sending'>>) \o transmitList'
    BY DEF Line
  <2> QED
    <3>1. IsLine(Line', sending', transmitList')
      BY <1>1, <2>1, LineOfLemma, Zenon
    <3> QED
      BY <3>1, Zenon DEF IsLine
<1>3. Held' = PktsOf(Line')
  BY <1>2 DEF Held, Listed, PktsOf
<1>4. LineInv' <=> OrderOK(Line', before', forceOrder')
  BY <1>3, Zenon DEF LineInv, PacketsDistinct, HistoryInv, OvertakingIsJustified, OrderOK
<1> QED
  BY <1>2, <1>3, <1>4

\* L is l with s in front.
IsCons(L, s, l, S) ==
    /\ L \in Seq(S) /\ Len(L) = Len(l) + 1 /\ L[1] = s
    /\ \A i \in 1 .. Len(l) : L[i + 1] = l[i]

\* Inserting behind position k of the list is inserting behind position k of
\* the line, or k + 1 when a packet is in the call.
LEMMA ConsInsertion ==
    ASSUME NEW S, NEW l \in Seq(S), NEW k \in 0 .. Len(l), NEW e \in S, NEW s \in S,
           NEW m, IsInsertion(m, l, k, e, S),
           NEW L, IsCons(L, s, l, S), NEW M, IsCons(M, s, m, S)
    PROVE  IsInsertion(M, L, k + 1, e, S)
<1>1. Len(l) \in Nat /\ k \in Nat /\ k <= Len(l)
  OBVIOUS
<1>2. Len(m) = Len(l) + 1 /\ Len(M) = Len(L) + 1 /\ Len(L) = Len(l) + 1
  BY <1>1 DEF IsInsertion, IsCons
<1>3. ASSUME NEW i \in 1 .. (Len(L) + 1)
      PROVE  M[i] = IF i <= k + 1 THEN L[i] ELSE IF i = (k + 1) + 1 THEN e ELSE L[i - 1]
  <2>1. CASE i = 1
    BY <2>1, <1>1 DEF IsCons
  <2>2. CASE i # 1
    <3> DEFINE h == i - 1
    <3>1. h \in 1 .. Len(m) /\ h \in 1 .. (Len(l) + 1) /\ h + 1 = i
      BY <2>2, <1>1, <1>2
    <3>2. M[i] = m[h]
      BY <3>1 DEF IsCons
    <3>3. m[h] = IF h <= k THEN l[h] ELSE IF h = k + 1 THEN e ELSE l[h - 1]
      BY <3>1 DEF IsInsertion
    <3>4. h <= k => L[i] = l[h]
      <4>1. h <= k => h \in 1 .. Len(l)
        BY <3>1, <1>1
      <4> QED
        BY <3>1, <4>1 DEF IsCons
    <3>5. h > k + 1 => L[i - 1] = l[h - 1]
      <4> SUFFICES ASSUME h > k + 1 PROVE L[i - 1] = l[h - 1]
        OBVIOUS
      <4>1. h - 1 \in 1 .. Len(l) /\ (h - 1) + 1 = i - 1
        BY <3>1, <1>1
      <4> QED
        BY <4>1 DEF IsCons
    <3>6. /\ h <= k <=> i <= k + 1
          /\ h = k + 1 <=> i = (k + 1) + 1
          /\ h <= k \/ h = k + 1 \/ h > k + 1
      BY <1>1, <3>1
    <3> HIDE DEF h
    <3> QED
      BY <3>2, <3>3, <3>4, <3>5, <3>6
  <2> QED
    BY <2>1, <2>2
<1> QED
  BY <1>2, <1>3 DEF IsInsertion, IsCons

\* schedSendTiming() keeps the order: the search went past every packet that
\* the new one overtakes.
LEMMA SchedKeepsLine ==
    ASSUME TypeOK, TypeOK', LineInv,
           NEW p \in Pkt, NEW a \in PktAddr, NEW when \in Nat,
           SchedSendTiming(p, a, when)
    PROVE  LineInv'
<1>1. CASE Len(transmitList) > MaxLength
  <2>1. UNCHANGED <<transmitList, sending, before, forceOrder>>
    BY <1>1 DEF SchedSendTiming
  <2>2. Line' = Line
    BY <2>1 DEF Line
  <2> QED
    BY <2>1, <2>2, LineFacts, LineFactsPrime, Zenon
<1>2. CASE ~(Len(transmitList) > MaxLength)
  <2> DEFINE e == Deferred(p, a, when)
             b == {<<q, e.pkt>> : q \in PktsOf(Line)}
  <2>1. PICK k \in 0 .. Len(transmitList) :
            /\ InsertsBehind(k, a, when)
            /\ IsInsertion(transmitList', transmitList, k, e, DeferredPacket)
    BY <1>2, SchedInserts
  <2>2. /\ e \in DeferredPacket /\ e.pkt = p /\ e.addr = a /\ e.tick = when
    BY DEF Deferred, DeferredPacket
  <2> HIDE DEF e
  <2>3. /\ UNCHANGED <<sending, forceOrder>> /\ p \notin Held
        /\ before' = before \cup {<<q, p>> : q \in Held}
    BY <1>2 DEF SchedSendTiming
  <2>4. e.pkt \notin PktsOf(Line) /\ before' = before \cup b
    BY <2>2, <2>3, LineFacts
  <2>5. \A j \in DOMAIN transmitList : j > k =>
           /\ ~(transmitList[j].tick <= e.tick)
           /\ ~(forceOrder /\ transmitList[j].addr = e.addr)
    BY <2>1, <2>2 DEF InsertsBehind, StopsAt
  <2>6. transmitList \in Seq(DeferredPacket) /\ Line \in Seq(DeferredPacket)
    BY LineFacts DEF TypeOK
  <2>7. OrderOK(Line, before, forceOrder)
    BY LineFacts
  <2> HIDE DEF b
  <2>8. CASE sending = None
    <3>1. Line = transmitList /\ Line' = transmitList'
      BY <2>3, <2>8, LineFacts, LineFactsPrime
    <3>2. /\ k \in 0 .. Len(Line)
          /\ IsInsertion(Line', Line, k, e, DeferredPacket)
          /\ \A j \in DOMAIN Line : j > k =>
                /\ ~(Line[j].tick <= e.tick)
                /\ ~(forceOrder /\ Line[j].addr = e.addr)
      BY <2>1, <2>5, <3>1
    <3>3. OrderOK(Line', before', forceOrder)
      BY <2>2, <2>4, <2>6, <2>7, <3>2, OrderInsert, Zenon DEF b
    <3> QED
      BY <2>3, <3>3, LineFactsPrime
  <2>9. CASE sending # None
    <3>1. IsCons(Line, sending, transmitList, DeferredPacket)
      BY <2>9, LineFacts DEF IsCons
    <3>2. IsCons(Line', sending, transmitList', DeferredPacket)
      BY <2>3, <2>9, LineFactsPrime DEF IsCons
    <3>3. sending \in DeferredPacket
      BY <2>9 DEF TypeOK
    <3>4. IsInsertion(Line', Line, k + 1, e, DeferredPacket)
      BY <2>1, <2>2, <2>6, <3>1, <3>2, <3>3, ConsInsertion, Zenon
    <3>5. k + 1 \in 0 .. Len(Line)
      BY <2>6, <3>1 DEF IsCons
    <3>6. ASSUME NEW j \in DOMAIN Line, j > k + 1
          PROVE  /\ ~(Line[j].tick <= e.tick)
                 /\ ~(forceOrder /\ Line[j].addr = e.addr)
      <4>1. /\ j - 1 \in 1 .. Len(transmitList) /\ j - 1 > k
            /\ (j - 1) + 1 = j /\ j - 1 \in DOMAIN transmitList
        BY <2>6, <3>1, <3>6 DEF IsCons
      <4>2. Line[j] = transmitList[j - 1]
        BY <3>1, <4>1 DEF IsCons
      <4> QED
        BY <2>5, <4>1, <4>2
    <3>7. OrderOK(Line', before', forceOrder)
      BY <2>2, <2>4, <2>6, <2>7, <3>4, <3>5, <3>6, OrderInsert, Zenon DEF b
    <3> QED
      BY <2>3, <3>7, LineFactsPrime
  <2> QED
    BY <2>8, <2>9
<1> QED
  BY <1>1, <1>2

\* A packet that is being sent is still the first of the line, and one that
\* comes back is the first again.
LEMMA CallKeepsLine ==
    ASSUME TypeOK, TypeOK', LineInv, ProcessSendEvent \/ Retry \/ SendRefused
    PROVE  LineInv'
<1>1. UNCHANGED <<before, forceOrder>>
  BY DEF ProcessSendEvent, Retry, SendRefused
<1>2. Line' = Line
  <2>1. CASE SendRefused
    <3>1. sending # None /\ sending' = None /\ transmitList' = <<sending>> \o transmitList
      BY <2>1 DEF SendRefused
    <3>2. Line' = transmitList' /\ Line = <<sending>> \o transmitList
      BY <3>1, LineFactsPrime, Zenon DEF Line
    <3> QED
      BY <3>1, <3>2
  <2>2. CASE ProcessSendEvent \/ Retry
    <3>1. sending = None /\ SendDeferredPacket
      BY <2>2 DEF ProcessSendEvent, Retry, AtTopLevel
    <3>2. /\ sending' # None /\ transmitList # <<>>
          /\ sending' = Head(transmitList) /\ transmitList' = Tail(transmitList)
      BY <3>1, SendList DEF SendDeferredPacket
    <3>3. Line = transmitList /\ Line' = <<Head(transmitList)>> \o Tail(transmitList)
      BY <3>1, <3>2, LineFacts, Zenon DEF Line
    <3> QED
      BY <3>2, <3>3 DEF TypeOK
  <2> QED
    BY <2>1, <2>2
<1> QED
  BY <1>1, <1>2, LineFacts, LineFactsPrime, Zenon

\* A packet that is taken leaves the line from the front.
LEMMA TakenKeepsLine ==
    ASSUME TypeOK, TypeOK', LineInv, SendTaken
    PROVE  LineInv'
<1>1. /\ sending # None /\ sending' = None
      /\ UNCHANGED <<transmitList, forceOrder>>
      /\ before' = {pq \in before : sending.pkt \notin {pq[1], pq[2]}}
  BY DEF SendTaken
<1>2. /\ Line \in Seq(DeferredPacket) /\ Line' \in Seq(DeferredPacket)
      /\ OrderOK(Line, before, forceOrder)
  BY LineFacts, LineFactsPrime
<1>3. Line' = transmitList /\ Line[1] = sending
  BY <1>1, LineFacts, LineFactsPrime
<1>4. /\ Line # <<>> /\ Len(Line') = Len(Line) - 1
      /\ \A k \in 1 .. Len(Line') : Line'[k] = Line[k + 1]
  BY <1>1, <1>2, <1>3, LineFacts
<1>5. OrderOK(Line', before', forceOrder)
  <2>1. before' = {pq \in before : Line[1].pkt \notin {pq[1], pq[2]}}
    BY <1>1, <1>3
  <2> QED
    BY <1>2, <1>4, <2>1, OrderTail, Zenon
<1> QED
  BY <1>1, <1>5, LineFactsPrime

\* Every operation of the queue keeps the order justified.
LEMMA NextLine == TypeOK /\ TypeOK' /\ LineInv /\ [Next]_vars => LineInv'
<1> SUFFICES ASSUME TypeOK, TypeOK', LineInv, [Next]_vars
             PROVE  LineInv'
  OBVIOUS
<1>1. ASSUME UNCHANGED <<transmitList, sending, before, forceOrder>>
      PROVE  LineInv'
  <2>1. Line' = Line
    BY <1>1 DEF Line
  <2> QED
    BY <1>1, <2>1, LineFacts, LineFactsPrime, Zenon
<1>2. CASE UNCHANGED vars \/ Drain \/ DrainResume
  BY <1>1, <1>2 DEF vars, Drain, DrainResume
<1>3. ASSUME NEW p \in Pkt, NEW a \in PktAddr, NEW when \in Delays,
             SchedSendTiming(p, a, when)
      PROVE  LineInv'
  BY <1>3, SendDelaysAssumption, SchedKeepsLine
<1>4. CASE Tick
  <2>1. /\ sending = None /\ sending' = None /\ before' = before
        /\ forceOrder' = forceOrder
    BY <1>4 DEF Tick, AtTopLevel
  <2>2. Line = transmitList /\ Line' = transmitList'
    BY <2>1, LineFacts, LineFactsPrime
  <2>3. /\ Line \in Seq(DeferredPacket) /\ OrderOK(Line, before, forceOrder)
    BY LineFacts
  <2>4. /\ DOMAIN Line' = DOMAIN Line
        /\ \A k \in DOMAIN Line : /\ Line'[k].pkt = Line[k].pkt
                                  /\ Line'[k].addr = Line[k].addr
                                  /\ Line'[k].tick = Age(Line[k].tick)
    BY <1>4, <2>2, TickList
  <2>5. OrderOK(Line', before, forceOrder)
    BY <2>3, <2>4, OrderMap, Zenon
  <2> QED
    BY <2>1, <2>5, LineFactsPrime
<1> QED
  BY <1>2, <1>3, <1>4, CallKeepsLine, TakenKeepsLine DEF Next

-----------------------------------------------------------------------------
\* The inductive invariant holds in every reachable state of the queue.
THEOREM QueueInvariance == Spec => []IInv
<1>1. IInv <=> TypeOK /\ SendInv /\ LineInv
  BY DEF IInv, SendInv, LineInv
<1>2. Init => LineInv
  <2> SUFFICES ASSUME Init PROVE LineInv
    OBVIOUS
  <2>1. TypeOK
    BY InitType
  <2>2. Line = <<>> /\ before = {}
    BY <2>1, LineFacts DEF Init
  <2>3. OrderOK(Line, before, forceOrder)
    BY <2>2 DEF OrderOK
  <2> QED
    BY <2>1, <2>3, LineFacts
<1>3. Init => IInv
  BY <1>1, <1>2, InitType, InitSend
<1>4. IInv /\ [Next]_vars => IInv'
  <2> SUFFICES ASSUME IInv, [Next]_vars
               PROVE  IInv'
    OBVIOUS
  <2>1. TypeOK'
    BY <1>1, NextType
  <2>2. SendInv'
    BY <1>1, <2>1, NextSend
  <2>3. LineInv'
    BY <1>1, <2>1, NextLine
  <2> QED
    BY <2>1, <2>2, <2>3 DEF IInv, SendInv, LineInv
<1> QED
  BY <1>3, <1>4, PTL DEF Spec

\* Every operation of the packet queue keeps the types of its state.
THEOREM QueueTypeCorrect == Spec => []TypeOK
<1>1. IInv => TypeOK
  BY DEF IInv
<1> QED
  BY <1>1, QueueInvariance, PTL

\* A list with packets has the send event or the retry to come, never both
\* and never neither, whenever the peer is not being called: the assertion
\* that schedSendTiming() could not keep inside such a call holds outside.
THEOREM AlwaysArmed == Spec => []SendIsArmed
<1>1. IInv => SendIsArmed
  BY DEF IInv
<1> QED
  BY <1>1, QueueInvariance, PTL

\* sendDeferredPacket() meets its assertion deferredPacketReady(), and the
\* event is at most the one tick late that schedSendEvent() adds.
THEOREM NeverSentEarlyNorLate == Spec => []SentOnTime
<1>1. IInv => SentOnTime
  BY DEF IInv
<1> QED
  BY <1>1, QueueInvariance, PTL

\* Packets overtake packets that are due later only, and with forceOrder none
\* of the same address, the packet that a peer refused included.
THEOREM SendOrder == Spec => []OvertakingIsJustified
<1>1. IInv => OvertakingIsJustified
  BY DEF IInv
<1> QED
  BY <1>1, QueueInvariance, PTL

\* Whatever is queued while a refused packet waits goes behind it.
THEOREM RefusedIsNext == Spec => RefusedGoesFirst
<1>1. ASSUME IInv, IInv', [Next]_vars
      PROVE  [(waitingOnRetry /\ transmitList' # transmitList) =>
                 Head(transmitList).pkt = IF sending' = None THEN Head(transmitList').pkt
                                                             ELSE sending'.pkt]_vars
  <2> SUFFICES ASSUME waitingOnRetry, transmitList' # transmitList
               PROVE  Head(transmitList).pkt =
                         IF sending' = None THEN Head(transmitList').pkt
                                            ELSE sending'.pkt
    OBVIOUS
  <2>1. TypeOK /\ SendInv
    BY <1>1 DEF IInv, SendInv
  <2>2. /\ sending = None /\ transmitList # <<>> /\ sendEvent = Off
        /\ Head(transmitList).tick <= 0
    BY <2>1, SendFacts, Zenon
  <2>3. ASSUME NEW p \in Pkt, NEW a \in PktAddr, NEW when \in Delays,
               SchedSendTiming(p, a, when)
        PROVE  sending' = None /\ Head(transmitList') = Head(transmitList)
    <3>1. when \in Nat /\ ~(Len(transmitList) > MaxLength)
      BY <2>3, SendDelaysAssumption DEF SchedSendTiming
    <3>2. PICK k \in 0 .. Len(transmitList) :
              /\ InsertsBehind(k, a, when)
              /\ IsInsertion(transmitList', transmitList, k,
                             Deferred(p, a, when), DeferredPacket)
      BY <2>1, <2>3, <3>1, SchedInserts
    <3>3. k # 0
      <4>1. StopsAt(1, a, when) /\ 1 \in DOMAIN transmitList
        BY <2>1, <2>2, <3>1, ListFacts DEF StopsAt, Past
      <4> QED
        BY <3>2, <4>1 DEF InsertsBehind
    <3>4. sending' = None
      BY <2>2, <2>3 DEF SchedSendTiming
    <3>5. transmitList' # <<>> /\ transmitList'[1] = transmitList[1]
      BY <2>1, <3>2, <3>3, ListFacts DEF IsInsertion
    <3>6. Head(transmitList') = transmitList'[1]
      BY <3>2, <3>5 DEF IsInsertion
    <3> QED
      BY <2>1, <2>2, <3>4, <3>5, <3>6, ListFacts
  <2>4. CASE Retry
    BY <2>1, <2>2, <2>4, SendList, ListFacts DEF Retry
  <2>5. CASE Tick
    <3>1. sending' = None /\ 1 \in DOMAIN transmitList
      BY <2>1, <2>2, <2>5, ListFacts DEF Tick
    <3>2. Head(transmitList') = transmitList'[1] /\ Head(transmitList) = transmitList[1]
      BY <2>1, <2>2, <2>5, TickList, ListFacts
    <3> QED
      BY <2>1, <2>5, <3>1, <3>2, TickList
  <2>6. ~ProcessSendEvent /\ ~SendTaken /\ ~SendRefused
    BY <2>2 DEF ProcessSendEvent, SendTaken, SendRefused, Off
  <2>7. CASE UNCHANGED vars \/ Drain \/ DrainResume
    BY <2>7 DEF vars, Drain, DrainResume
  <2> QED
    BY <1>1, <2>3, <2>4, <2>5, <2>6, <2>7 DEF Next
<1> QED
  BY <1>1, QueueInvariance, PTL DEF Spec, RefusedGoesFirst

\* A queue that reported Draining holds a packet until the step that signals
\* the drain manager, which leaves it empty and without an event.
THEOREM DrainSignalledOnce == Spec => DrainIsSignalled
<1>1. ASSUME IInv, IInv', [Next]_vars
      PROVE  [drainState = "Draining" =>
                 IF drainState' = "Draining" THEN Held' # {}
                                             ELSE Held' = {} /\ sendEvent' = Off]_vars
  <2> SUFFICES ASSUME drainState = "Draining", ~UNCHANGED vars
               PROVE  IF drainState' = "Draining" THEN Held' # {}
                                                  ELSE Held' = {} /\ sendEvent' = Off
    OBVIOUS
  <2>1. TypeOK /\ SendInv /\ TypeOK' /\ DrainIsOwed'
    BY <1>1 DEF IInv, SendInv
  <2>2. Line' # <<>> <=> Held' # {}
    <3>1. Held' = {Line'[k].pkt : k \in DOMAIN Line'} /\ Line' \in Seq(DeferredPacket)
      BY <2>1, LineFactsPrime DEF PktsOf
    <3> QED
      BY <3>1
  <2>3. CASE drainState' = "Draining"
    BY <2>1, <2>2, <2>3 DEF DrainIsOwed
  <2>4. CASE drainState' # "Draining"
    <3>1. SendTaken /\ transmitList = <<>>
      <4>1. ~\E p \in Pkt, a \in PktAddr, when \in Delays : SchedSendTiming(p, a, when)
        BY <2>4 DEF SchedSendTiming
      <4>2. ~ProcessSendEvent /\ ~Retry /\ ~SendRefused /\ ~Drain /\ ~DrainResume /\ ~Tick
        BY <2>4 DEF ProcessSendEvent, Retry, SendRefused, Drain, DrainResume, Tick
      <4>3. SendTaken
        BY <1>1, <4>1, <4>2 DEF Next
      <4> QED
        BY <2>4, <4>3 DEF SendTaken
    <3>2. sending' = None /\ transmitList' = <<>>
      BY <3>1 DEF SendTaken
    <3>3. Line' = <<>>
      BY <2>1, <3>2, LineFactsPrime
    <3>4. sendEvent' = Off
      <4>1. sendEvent = Off
        BY <2>1, <3>1, SendFacts, Zenon
      <4> QED
        BY <3>1, <4>1 DEF SendTaken
    <3> QED
      BY <2>2, <2>4, <3>3, <3>4
  <2> QED
    BY <2>3, <2>4
<1> QED
  BY <1>1, QueueInvariance, PTL DEF Spec, DrainIsSignalled
=============================================================================
