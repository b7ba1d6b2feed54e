--------------------------- MODULE PIMCtrlProofs ----------------------------
(***************************************************************************)
(* The safety properties of the PIM controller, for every number of words, *)
(* packets, contexts, delays and durations.  The inductive invariant IInv  *)
(* of PIMCtrl has three parts that are proved one after the other:         *)
(* TypeOK; CtrlInv, which relates the flags, the two events and the head   *)
(* of the queue; and QueueInv, which relates the order of the queue to the *)
(* order in which the requests were accepted.                              *)
(***************************************************************************)
EXTENDS PIMCtrl, AbstractMemoryProofs, SequenceLemmas, TLAPS

-----------------------------------------------------------------------------
\* A sequence is empty exactly when it has no first element.
LEMMA HasFirst ==
    ASSUME NEW S, NEW q \in Seq(S)
    PROVE  q # <<>> <=> 1 \in DOMAIN q
  OBVIOUS

\* The tick of the response at the head.
LEMMA HeadTick ==
    ASSUME TypeOK, packetQueue # <<>>
    PROVE  packetQueue[1].tick \in Nat \cup {Past}
<1>1. packetQueue \in Seq(DeferredPacket)
  BY DEF TypeOK
<1>2. packetQueue[1] \in DeferredPacket
  BY <1>1
<1> QED
  BY <1>2 DEF DeferredPacket

\* Queueing a response is one insertion, behind the position at which the
\* loop of recvTimingReq stops.
LEMMA EnqueueInserts ==
    ASSUME TypeOK,
           NEW p \in Pkt, NEW cmd \in AllCmds, NEW a \in Addr,
           NEW data \in Word, NEW when \in Nat,
           Enqueue(p, cmd, a, data, when)
    PROVE  \E k \in 0 .. Len(packetQueue) :
              /\ InsertsBehind(k, a, when)
              /\ IsInsertion(packetQueue', packetQueue, k,
                             Deferred(p, cmd, a, data, when), DeferredPacket)
<1> DEFINE e == Deferred(p, cmd, a, data, when)
<1>1. PICK k \in 0 .. Len(packetQueue) :
          /\ InsertsBehind(k, a, when)
          /\ packetQueue' = InsertAt(packetQueue, k + 1, e)
  BY DEF Enqueue
<1>2. e \in DeferredPacket
  BY DEF Deferred, DeferredPacket
<1>3. packetQueue \in Seq(DeferredPacket)
  BY DEF TypeOK
<1> HIDE DEF e
<1>4. IsInsertion(packetQueue', packetQueue, k, e, DeferredPacket)
  BY <1>1, <1>2, <1>3, InsertAtLemma, Zenon
<1> QED
  BY <1>1, <1>4, Zenon DEF e

\* What the insertion does to the ends of the queue: the head stays the
\* response it was (the loop never steps in front of begin()), a response
\* queued alone is due after its own latency, and the last response is not
\* due in the past: it is the new one, or one that the new one overtook.
LEMMA EnqueueLemma ==
    ASSUME TypeOK,
           NEW p \in Pkt, NEW cmd \in AllCmds, NEW a \in Addr,
           NEW data \in Word, NEW when \in Nat,
           Enqueue(p, cmd, a, data, when)
    PROVE  /\ packetQueue' \in Seq(DeferredPacket)
           /\ Len(packetQueue') = Len(packetQueue) + 1
           /\ packetQueue' # <<>>
           /\ packetQueue # <<>> => packetQueue'[1] = packetQueue[1]
           /\ packetQueue = <<>> => packetQueue'[1].tick = when
           /\ packetQueue'[Len(packetQueue')].tick \in Nat
<1> DEFINE e == Deferred(p, cmd, a, data, when)
<1>1. PICK k \in 0 .. Len(packetQueue) :
          /\ InsertsBehind(k, a, when)
          /\ IsInsertion(packetQueue', packetQueue, k, e, DeferredPacket)
  BY EnqueueInserts, Zenon
<1>2. e.tick = when
  BY DEF Deferred
<1>3. packetQueue \in Seq(DeferredPacket)
  BY DEF TypeOK
<1> HIDE DEF e
<1>4. /\ packetQueue' \in Seq(DeferredPacket)
      /\ Len(packetQueue') = Len(packetQueue) + 1
      /\ \A i \in 1 .. (Len(packetQueue) + 1) :
            packetQueue'[i] = IF i <= k THEN packetQueue[i]
                              ELSE IF i = k + 1 THEN e
                              ELSE packetQueue[i - 1]
  BY <1>1 DEF IsInsertion
<1>5. packetQueue' # <<>>
  <2>1. Len(packetQueue') # 0
    BY <1>3, <1>4
  <2> QED
    BY <2>1
<1>6. ASSUME packetQueue # <<>>
      PROVE  packetQueue'[1] = packetQueue[1]
  <2>1. k \in DOMAIN packetQueue
    BY <1>1, <1>6 DEF InsertsBehind
  <2> QED
    BY <2>1, <1>3, <1>4
<1>7. ASSUME packetQueue = <<>>
      PROVE  packetQueue'[1].tick = when
  <2>1. k = 0
    BY <1>1, <1>7 DEF InsertsBehind
  <2> QED
    BY <2>1, <1>2, <1>3, <1>4
<1>8. packetQueue'[Len(packetQueue')].tick \in Nat
  <2> DEFINE n == Len(packetQueue)
  <2>1. n \in Nat /\ k \in 0 .. n /\ DOMAIN packetQueue = 1 .. n
    BY <1>1, <1>3
  <2>2. CASE k = n
    <3>1. packetQueue'[n + 1] = e
      BY <1>4, <2>1, <2>2
    <3> QED
      BY <1>2, <1>4, <3>1
  <2>3. CASE k # n
    <3>1. n \in DOMAIN packetQueue /\ n > k /\ packetQueue # <<>>
      <4> HIDE DEF n
      <4>1. n \in 1 .. n /\ n > k /\ 1 \in 1 .. n
        BY <2>1, <2>3, SMT
      <4> QED
        BY <1>3, <4>1, <2>1, HasFirst
    <3>2. ~StopsAt(n, a, when)
      BY <1>1, <3>1 DEF InsertsBehind
    <3>3. packetQueue'[n + 1] = packetQueue[n]
      BY <1>1, <1>4, <2>1, <3>1
    <3>4. packetQueue[n] \in DeferredPacket
      BY <1>3, <3>1
    <3>5. when < packetQueue[n].tick /\ packetQueue[n].tick \in Nat \cup {Past}
      BY <3>2, <3>4 DEF StopsAt, DeferredPacket
    <3> QED
      BY <1>4, <3>3, <3>5 DEF Past
  <2> QED
    BY <2>2, <2>3
<1> QED
  BY <1>4, <1>5, <1>6, <1>7, <1>8

\* The bandwidth limit keeps the types of the flag and of the release event.
LEMMA OccupyType ==
    ASSUME TypeOK, NEW dur \in Durations, Occupy(dur)
    PROVE  /\ isBusy' \in BOOLEAN /\ reentered' \in BOOLEAN
           /\ releaseEvent' \in Nat \cup {Off}
<1>1. dur \in Nat
  BY DurationsAssumption
<1> QED
  BY <1>1 DEF TypeOK, Occupy

\* The queue that Tick and a functional write leave: same packets, same
\* places.
SameShape ==
    /\ packetQueue' \in Seq(DeferredPacket)
    /\ Len(packetQueue') = Len(packetQueue)
    /\ DOMAIN packetQueue' = DOMAIN packetQueue
    /\ \A k \in DOMAIN packetQueue : packetQueue'[k].pkt = packetQueue[k].pkt
    /\ \A k \in DOMAIN packetQueue : packetQueue'[k].addr = packetQueue[k].addr

\* Time changes the remaining ticks of the queued responses and nothing else.
LEMMA TickQueue ==
    ASSUME TypeOK, Tick
    PROVE  /\ SameShape
           /\ \A k \in DOMAIN packetQueue :
                 packetQueue'[k].tick = Age(packetQueue[k].tick)
<1>1. packetQueue \in Seq(DeferredPacket)
  BY DEF TypeOK
<1>2. \A k \in DOMAIN packetQueue : packetQueue[k] \in DeferredPacket
  BY <1>1
<1>3. packetQueue' = [k \in DOMAIN packetQueue |->
                         [packetQueue[k] EXCEPT !.tick = Age(@)]]
  BY DEF Tick
<1>4. packetQueue' \in [DOMAIN packetQueue -> DeferredPacket]
  BY <1>2, <1>3 DEF DeferredPacket, Age, Past
<1>5. /\ packetQueue' \in Seq(DeferredPacket)
      /\ Len(packetQueue') = Len(packetQueue)
      /\ DOMAIN packetQueue' = DOMAIN packetQueue
  BY <1>1, <1>4, MapLemma
<1>6. \A k \in DOMAIN packetQueue :
         /\ packetQueue'[k].pkt = packetQueue[k].pkt
         /\ packetQueue'[k].addr = packetQueue[k].addr
         /\ packetQueue'[k].tick = Age(packetQueue[k].tick)
  BY <1>2, <1>3 DEF DeferredPacket
<1> QED
  BY <1>5, <1>6 DEF SameShape

\* A functional write changes the data of queued responses and nothing else.
LEMMA FunctionalQueue ==
    ASSUME TypeOK, NEW a \in Addr, NEW v \in Word, RecvFunctionalWrite(a, v)
    PROVE  /\ SameShape
           /\ \A k \in DOMAIN packetQueue :
                 packetQueue'[k].tick = packetQueue[k].tick
<1>1. packetQueue \in Seq(DeferredPacket)
  BY DEF TypeOK
<1>2. \A k \in DOMAIN packetQueue : packetQueue[k] \in DeferredPacket
  BY <1>1
<1>3. packetQueue' = [k \in DOMAIN packetQueue |->
                         SatisfyFunctional(packetQueue[k], a, v)]
  BY DEF RecvFunctionalWrite
<1>4. packetQueue' \in [DOMAIN packetQueue -> DeferredPacket]
  BY <1>2, <1>3 DEF DeferredPacket, SatisfyFunctional
<1>5. /\ packetQueue' \in Seq(DeferredPacket)
      /\ Len(packetQueue') = Len(packetQueue)
      /\ DOMAIN packetQueue' = DOMAIN packetQueue
  BY <1>1, <1>4, MapLemma
<1>6. \A k \in DOMAIN packetQueue :
         /\ packetQueue'[k].pkt = packetQueue[k].pkt
         /\ packetQueue'[k].addr = packetQueue[k].addr
         /\ packetQueue'[k].tick = packetQueue[k].tick
  BY <1>2, <1>3 DEF DeferredPacket, SatisfyFunctional
<1> QED
  BY <1>5, <1>6 DEF SameShape

-----------------------------------------------------------------------------
\* The constructed controller is well typed.
LEMMA InitType == Init => TypeOK
<1> SUFFICES ASSUME Init PROVE TypeOK
  OBVIOUS
<1>1. MemTypeOK
  BY WordFacts DEF Init, MemInit, MemTypeOK
<1>2. packetQueue \in Seq(DeferredPacket)
  BY DEF Init
<1> QED
  BY <1>1, <1>2 DEF Init, TypeOK

\* Every handler and event keeps the types; popping needs NeverEarly, which
\* says that dequeue() never meets an empty queue.
LEMMA NextType ==
    ASSUME TypeOK, NeverEarly, [Next]_vars
    PROVE  TypeOK'
<1> USE DEF TypeOK
<1>1. CASE UNCHANGED vars
  BY <1>1 DEF vars, ctrlVars, memVars, MemTypeOK
<1>2. CASE RecvRefuse
  BY <1>2 DEF RecvRefuse, memVars, MemTypeOK
<1>3. ASSUME NEW op \in ImcOps, NEW a \in Addr, NEW b \in Addr, NEW c \in Addr,
             NEW d \in Addr, NEW dur \in Durations, RecvIMC(op, a, b, c, d, dur)
      PROVE  TypeOK'
  <2>1. MemTypeOK' /\ trapped' \in BOOLEAN
    BY <1>3 DEF RecvIMC, memVars, MemTypeOK, Holders
  <2>2. /\ isBusy' \in BOOLEAN /\ reentered' \in BOOLEAN
        /\ releaseEvent' \in Nat \cup {Off}
    BY <1>3, OccupyType DEF RecvIMC
  <2> QED
    BY <1>3, <2>1, <2>2 DEF RecvIMC
<1>4. ASSUME NEW p \in Pkt, NEW cmd \in Cmds, NEW c \in Ctx, NEW a \in Addr,
             NEW v \in Word, NEW when \in Delays, NEW dur \in Durations,
             RecvRequest(p, cmd, c, a, v, when, dur)
      PROVE  TypeOK'
  <2>1. cmd \in AllCmds /\ when \in Nat
    BY CmdsAssumption, DelaysAssumption
  <2>2. MemTypeOK'
    BY <1>4, <2>1, AccessPreservesType DEF RecvRequest
  <2>3. AccessData(cmd, c, a) \in Word
    BY <2>1, AccessDataType
  <2>4. Enqueue(p, cmd, a, AccessData(cmd, c, a), when)
    BY <1>4 DEF RecvRequest
  <2>5. /\ packetQueue' \in Seq(DeferredPacket)
        /\ packetQueue'[Len(packetQueue')].tick \in Nat
    BY <2>1, <2>3, <2>4, EnqueueLemma
  <2>6. dequeueEvent' \in Nat \cup {Off}
    BY <2>4, <2>5 DEF Enqueue
  <2>7. before' \subseteq Pkt \X Pkt
    <3>1. Queued \subseteq Pkt
      <4>1. \A k \in DOMAIN packetQueue : packetQueue[k] \in DeferredPacket
        OBVIOUS
      <4> QED
        BY <4>1 DEF Queued, DeferredPacket
    <3> QED
      BY <2>4, <3>1 DEF Enqueue
  <2>8. /\ isBusy' \in BOOLEAN /\ reentered' \in BOOLEAN
        /\ releaseEvent' \in Nat \cup {Off}
    BY <1>4, OccupyType DEF RecvRequest
  <2> QED
    BY <1>4, <2>2, <2>5, <2>6, <2>7, <2>8 DEF RecvRequest
<1>5. ASSUME NEW cmd \in Cmds, NEW c \in Ctx, NEW a \in Addr, NEW v \in Word,
             NEW dur \in Durations, RecvWriteback(cmd, c, a, v, dur)
      PROVE  TypeOK'
  <2>1. MemTypeOK'
    BY <1>5, CmdsAssumption, AccessPreservesType DEF RecvWriteback
  <2>2. /\ isBusy' \in BOOLEAN /\ reentered' \in BOOLEAN
        /\ releaseEvent' \in Nat \cup {Off}
    BY <1>5, OccupyType DEF RecvWriteback
  <2> QED
    BY <1>5, <2>1, <2>2 DEF RecvWriteback
<1>6. CASE Release
  BY <1>6 DEF Release, memVars, MemTypeOK
<1>7. CASE DequeueOnEvent
  BY <1>7 DEF DequeueOnEvent, memVars, MemTypeOK
<1>8. CASE RecvRespRetry
  BY <1>8 DEF RecvRespRetry, memVars, MemTypeOK
<1>9. CASE DequeueAccepted
  <2>1. packetQueue # <<>>
    BY <1>9 DEF DequeueAccepted, NeverEarly
  <2>2. packetQueue' \in Seq(DeferredPacket)
    BY <1>9, <2>1, HeadTailProperties DEF DequeueAccepted
  <2>3. dequeueEvent' \in Nat \cup {Off}
    <3>1. packetQueue' # <<>> => packetQueue'[1] \in DeferredPacket
      BY <2>2
    <3> QED
      BY <1>9, <3>1 DEF DequeueAccepted, DeferredPacket, NotPast, Past
  <2> QED
    BY <1>9, <2>2, <2>3 DEF DequeueAccepted, memVars, MemTypeOK
<1>10. CASE DequeueRefused
  BY <1>10 DEF DequeueRefused, memVars, MemTypeOK
<1>11. CASE Drain
  BY <1>11 DEF Drain, memVars, MemTypeOK
<1>12. CASE DrainResume
  BY <1>12 DEF DrainResume, memVars, MemTypeOK
<1>13. ASSUME NEW a \in Addr, NEW v \in Word, RecvFunctionalWrite(a, v)
       PROVE  TypeOK'
  <2>1. packetQueue' \in Seq(DeferredPacket)
    BY <1>13, FunctionalQueue DEF SameShape
  <2> QED
    BY <1>13, <2>1 DEF RecvFunctionalWrite, FunctionalStore, MemTypeOK
<1>14. CASE Tick
  <2>1. packetQueue' \in Seq(DeferredPacket)
    BY <1>14, TickQueue DEF SameShape
  <2> QED
    BY <1>14, <2>1 DEF Tick, Dec, Off, memVars, MemTypeOK
<1> QED
  BY <1>1, <1>2, <1>3, <1>4, <1>5, <1>6, <1>7, <1>8, <1>9, <1>10, <1>11,
     <1>12, <1>13, <1>14 DEF Next

-----------------------------------------------------------------------------
\* The part of IInv about flags, events and the head of the queue.
CtrlInv ==
    /\ RetryIsOwed /\ DeliveryArmedOnce /\ NeverEarly
    /\ HeadIsDue /\ CallInv /\ DrainWillBeSignalled

\* The flags, events and queue agree in the constructed controller.
LEMMA InitCtrl == Init => CtrlInv
BY DEF Init, CtrlInv, RetryIsOwed, DeliveryArmedOnce, NeverEarly, HeadIsDue,
       CallInv, DrainWillBeSignalled, Off

\* An accepted request occupies the controller.
LEMMA OccupyKeepsRetryIsOwed ==
    ASSUME TypeOK, RetryIsOwed, NEW dur \in Durations, Accepting, Occupy(dur),
           retryReq' = retryReq, refused' = refused
    PROVE  RetryIsOwed'
<1>1. dur \in Nat
  BY DurationsAssumption
<1>2. ~refused' /\ ~retryReq'
  BY DEF TypeOK, RetryIsOwed, Accepting
<1>3. CASE dur = 0
  BY <1>2, <1>3 DEF RetryIsOwed, Accepting, Occupy
<1>4. CASE dur # 0
  <2>1. isBusy' /\ releaseEvent' = dur
    BY <1>4 DEF Occupy
  <2> QED
    BY <1>1, <1>2, <2>1 DEF RetryIsOwed, Off
<1> QED
  BY <1>3, <1>4

\* An accepted request that queues no response disturbs no delivery.
LEMMA UnqueuedKeepsCtrl ==
    ASSUME TypeOK, CtrlInv, NEW dur \in Durations, Accepting, Occupy(dur),
           UNCHANGED <<retryReq, retryResp, dequeueEvent, packetQueue,
                       drainState, sending, refused, blocked>>
    PROVE  CtrlInv'
<1>1. RetryIsOwed'
  BY OccupyKeepsRetryIsOwed DEF CtrlInv
<1>2. CallInv'
  BY DEF CtrlInv, CallInv, Occupy
<1> QED
  BY <1>1, <1>2 DEF CtrlInv, DeliveryArmedOnce, NeverEarly, HeadIsDue,
                    DrainWillBeSignalled

\* Every handler and event keeps the agreement of flags, events and queue:
\* the part of the induction about lost retries, arming and draining.
LEMMA NextCtrl ==
    ASSUME TypeOK, CtrlInv, [Next]_vars
    PROVE  CtrlInv'
<1> USE DEF CtrlInv
<1>1. CASE UNCHANGED vars
  BY <1>1 DEF vars, ctrlVars, RetryIsOwed, DeliveryArmedOnce, NeverEarly,
              HeadIsDue, CallInv, DrainWillBeSignalled
<1>2. CASE RecvRefuse
  BY <1>2 DEF RecvRefuse, RetryIsOwed, DeliveryArmedOnce, NeverEarly,
              HeadIsDue, CallInv, DrainWillBeSignalled
<1>3. ASSUME NEW op \in ImcOps, NEW a \in Addr, NEW b \in Addr, NEW c \in Addr,
             NEW d \in Addr, NEW dur \in Durations, RecvIMC(op, a, b, c, d, dur)
      PROVE  CtrlInv'
  BY <1>3, UnqueuedKeepsCtrl DEF RecvIMC
<1>4. ASSUME NEW p \in Pkt, NEW cmd \in Cmds, NEW c \in Ctx, NEW a \in Addr,
             NEW v \in Word, NEW when \in Delays, NEW dur \in Durations,
             RecvRequest(p, cmd, c, a, v, when, dur)
      PROVE  CtrlInv'
  <2>1. cmd \in AllCmds /\ when \in Nat
    BY CmdsAssumption, DelaysAssumption
  <2>2. AccessData(cmd, c, a) \in Word
    BY <2>1, AccessDataType DEF TypeOK
  <2>3. Enqueue(p, cmd, a, AccessData(cmd, c, a), when)
    BY <1>4 DEF RecvRequest
  <2>4. /\ packetQueue' \in Seq(DeferredPacket)
        /\ Len(packetQueue') = Len(packetQueue) + 1
        /\ packetQueue' # <<>>
        /\ packetQueue # <<>> => packetQueue'[1] = packetQueue[1]
        /\ packetQueue = <<>> => packetQueue'[1].tick = when
        /\ packetQueue'[Len(packetQueue')].tick \in Nat
    BY <2>1, <2>2, <2>3, EnqueueLemma
  <2>5. RetryIsOwed'
    BY <1>4, OccupyKeepsRetryIsOwed DEF RecvRequest
  <2>6. /\ UNCHANGED <<retryResp, sending, blocked, drainState>>
        /\ reentered' = sending
    BY <1>4 DEF RecvRequest, Occupy
  <2>7. dequeueEvent' = IF ~retryResp /\ dequeueEvent = Off
                        THEN packetQueue'[Len(packetQueue')].tick
                        ELSE dequeueEvent
    BY <2>3 DEF Enqueue
  <2>8. Len(packetQueue) \in Nat /\ (packetQueue # <<>> => Len(packetQueue) > 0)
    BY DEF TypeOK
  <2>9. CASE sending
    <3>1. CallInv'
      BY <2>9, <2>4, <2>6, <2>8 DEF CallInv, NeverEarly
    <3> QED
      BY <2>9, <2>4, <2>5, <2>6, <3>1
         DEF DeliveryArmedOnce, NeverEarly, HeadIsDue, DrainWillBeSignalled
  <2>10. CASE ~sending /\ packetQueue = <<>>
    <3>1. ~retryResp /\ dequeueEvent = Off
      BY <2>10 DEF DeliveryArmedOnce
    <3>2. Len(packetQueue') = 1
      BY <2>10, <2>4
    <3>3. dequeueEvent' = packetQueue'[1].tick /\ dequeueEvent' # Off
      <4>1. dequeueEvent' = packetQueue'[1].tick
        BY <3>1, <3>2, <2>7
      <4> QED
        BY <4>1, <3>2, <2>4 DEF Off
    <3>4. NotPast(packetQueue'[1].tick) = packetQueue'[1].tick
      BY <2>1, <2>4, <2>10 DEF NotPast
    <3> QED
      BY <2>10, <2>1, <2>4, <2>5, <2>6, <3>1, <3>3, <3>4
         DEF DeliveryArmedOnce, NeverEarly, HeadIsDue, CallInv, DrainWillBeSignalled
  <2>11. CASE ~sending /\ packetQueue # <<>>
    <3>1. dequeueEvent' = dequeueEvent
      BY <2>7, <2>11 DEF DeliveryArmedOnce
    <3> QED
      BY <2>11, <2>4, <2>5, <2>6, <3>1
         DEF DeliveryArmedOnce, NeverEarly, HeadIsDue, CallInv, DrainWillBeSignalled
  <2> QED
    BY <2>9, <2>10, <2>11
<1>5. ASSUME NEW cmd \in Cmds, NEW c \in Ctx, NEW a \in Addr, NEW v \in Word,
             NEW dur \in Durations, RecvWriteback(cmd, c, a, v, dur)
      PROVE  CtrlInv'
  BY <1>5, UnqueuedKeepsCtrl DEF RecvWriteback
<1>6. CASE Release
  BY <1>6 DEF Release, RetryIsOwed, DeliveryArmedOnce, NeverEarly,
              HeadIsDue, CallInv, DrainWillBeSignalled, TypeOK
<1>7. CASE DequeueOnEvent
  <2>1. packetQueue # <<>> /\ packetQueue[1].tick <= 0
    <3>1. packetQueue # <<>> /\ NotPast(packetQueue[1].tick) = 0
      BY <1>7 DEF DequeueOnEvent, AtTopLevel, DeliveryArmedOnce, NeverEarly, Off
    <3>2. packetQueue[1].tick \in Nat \cup {Past}
      BY <3>1, HeadTick
    <3> QED
      BY <3>1, <3>2 DEF NotPast, Past
  <2> QED
    BY <1>7, <2>1 DEF DequeueOnEvent, AtTopLevel, RetryIsOwed, DeliveryArmedOnce,
              NeverEarly, HeadIsDue, CallInv, DrainWillBeSignalled, TypeOK, Off
<1>8. CASE RecvRespRetry
  BY <1>8 DEF RecvRespRetry, AtTopLevel, RetryIsOwed, DeliveryArmedOnce,
              NeverEarly, HeadIsDue, CallInv, DrainWillBeSignalled, TypeOK
<1>9. CASE DequeueAccepted
  <2>1. packetQueue # <<>>
    BY <1>9 DEF DequeueAccepted, NeverEarly
  <2>2. /\ packetQueue' \in Seq(DeferredPacket)
        /\ Len(packetQueue') = Len(packetQueue) - 1
    BY <1>9, <2>1, HeadTailProperties DEF DequeueAccepted, TypeOK
  <2>3. packetQueue' # <<>> => NotPast(packetQueue'[1].tick) \in Nat
    <3>1. packetQueue' # <<>> => packetQueue'[1] \in DeferredPacket
      BY <2>2
    <3> QED
      BY <3>1 DEF DeferredPacket, NotPast, Past
  <2>4. packetQueue' = <<>> => dequeueEvent' = Off
    <3> SUFFICES ASSUME packetQueue' = <<>> PROVE dequeueEvent' = Off
      OBVIOUS
    <3> DEFINE n == Len(packetQueue)
    <3>1. n - 1 = 0 /\ n \in Nat
      BY <2>2 DEF TypeOK
    <3>2. ~(n > 1)
      <4> HIDE DEF n
      <4> QED
        BY <3>1, SMT
    <3> QED
      BY <1>9, <3>2 DEF DequeueAccepted, CallInv
  <2>5. DeliveryArmedOnce' /\ NeverEarly' /\ HeadIsDue'
    BY <1>9, <2>3, <2>4
       DEF DequeueAccepted, DeliveryArmedOnce, NeverEarly, HeadIsDue, CallInv, Off
  <2> QED
    BY <1>9, <2>5 DEF DequeueAccepted, RetryIsOwed, CallInv, DrainWillBeSignalled
<1>10. CASE DequeueRefused
  BY <1>10 DEF DequeueRefused, RetryIsOwed, DeliveryArmedOnce, NeverEarly,
               HeadIsDue, CallInv, DrainWillBeSignalled, TypeOK
<1>11. CASE Drain
  BY <1>11 DEF Drain, RetryIsOwed, DeliveryArmedOnce, NeverEarly,
               HeadIsDue, CallInv, DrainWillBeSignalled
<1>12. CASE DrainResume
  BY <1>12 DEF DrainResume, RetryIsOwed, DeliveryArmedOnce, NeverEarly,
               HeadIsDue, CallInv, DrainWillBeSignalled
<1>13. ASSUME NEW a \in Addr, NEW v \in Word, RecvFunctionalWrite(a, v)
       PROVE  CtrlInv'
  <2>1. SameShape /\ \A k \in DOMAIN packetQueue :
                        packetQueue'[k].tick = packetQueue[k].tick
    BY <1>13, FunctionalQueue
  <2>2. (packetQueue' = <<>>) <=> (packetQueue = <<>>)
    BY <2>1 DEF SameShape, TypeOK
  <2>3. packetQueue # <<>> => packetQueue'[1].tick = packetQueue[1].tick
    BY <2>1 DEF TypeOK
  <2> QED
    BY <1>13, <2>1, <2>2, <2>3
       DEF RecvFunctionalWrite, SameShape, RetryIsOwed, DeliveryArmedOnce,
           NeverEarly, HeadIsDue, CallInv, DrainWillBeSignalled
<1>14. CASE Tick
  <2>1. SameShape /\ \A k \in DOMAIN packetQueue :
                        packetQueue'[k].tick = Age(packetQueue[k].tick)
    BY <1>14, TickQueue
  <2>2. (packetQueue' = <<>>) <=> (packetQueue = <<>>)
    BY <2>1 DEF SameShape, TypeOK
  <2>3. packetQueue # <<>> => /\ packetQueue'[1].tick = Age(packetQueue[1].tick)
                              /\ packetQueue[1].tick \in Nat \cup {Past}
    BY <2>1, HeadTick, HasFirst DEF TypeOK
  <2>4. /\ (releaseEvent' = Off) <=> (releaseEvent = Off)
        /\ (dequeueEvent' = Off) <=> (dequeueEvent = Off)
        /\ dequeueEvent' = Dec(dequeueEvent)
    BY <1>14 DEF Tick, TypeOK, Dec, Off
  <2> QED
    <3>1. /\ UNCHANGED <<isBusy, retryReq, retryResp, drainState, sending, reentered,
                          refused, blocked>>
          /\ ~sending /\ dequeueEvent # 0
      BY <1>14 DEF Tick, AtTopLevel
    <3>2. RetryIsOwed' /\ DeliveryArmedOnce' /\ CallInv' /\ DrainWillBeSignalled'
      BY <2>2, <2>4, <3>1 DEF RetryIsOwed, DeliveryArmedOnce, CallInv, DrainWillBeSignalled
    <3>3. HeadIsDue'
      <4>1. retryResp => packetQueue # <<>>
        BY <3>1 DEF DeliveryArmedOnce
      <4> QED
        BY <2>3, <3>1, <4>1 DEF HeadIsDue, Age, Past
    <3>4. NeverEarly'
      <4>1. dequeueEvent # Off => packetQueue # <<>> /\ dequeueEvent = NotPast(packetQueue[1].tick)
        BY <3>1 DEF DeliveryArmedOnce, NeverEarly
      <4> QED
        BY <2>3, <2>4, <3>1, <4>1 DEF NeverEarly, Dec, Age, Past, NotPast
    <3> QED
      BY <3>2, <3>3, <3>4
<1> QED
  BY <1>1, <1>2, <1>3, <1>4, <1>5, <1>6, <1>7, <1>8, <1>9, <1>10, <1>11,
     <1>12, <1>13, <1>14 DEF Next

-----------------------------------------------------------------------------
\* The part of IInv about the order of the queue.
QueueInv == PacketsDistinct /\ HistoryInv /\ OvertakingIsJustified

\* The history of the empty queue is empty.
LEMMA InitQueue == Init => QueueInv
BY DEF Init, QueueInv, PacketsDistinct, HistoryInv, OvertakingIsJustified, Queued

\* Insertion overtakes only responses with another address that are due no
\* earlier: the loop went past each of them.
LEMMA EnqueueKeepsQueueInv ==
    ASSUME TypeOK, QueueInv,
           NEW p \in Pkt, NEW cmd \in AllCmds, NEW a \in Addr,
           NEW data \in Word, NEW when \in Nat,
           Enqueue(p, cmd, a, data, when)
    PROVE  QueueInv'
<1> DEFINE e == Deferred(p, cmd, a, data, when)
           n == Len(packetQueue)
<1>1. PICK k \in 0 .. n :
          /\ InsertsBehind(k, a, when)
          /\ IsInsertion(packetQueue', packetQueue, k, e, DeferredPacket)
  BY EnqueueInserts, Zenon
<1>2. e.pkt = p /\ e.addr = a /\ e.tick = when
  BY DEF Deferred
<1>3. packetQueue \in Seq(DeferredPacket) /\ n \in Nat /\ k \in Nat /\ k <= n
  BY DEF TypeOK
<1>4. DOMAIN packetQueue = 1 .. n
  BY <1>3
<1>5. DOMAIN packetQueue' = 1 .. (n + 1)
  BY <1>1, <1>3 DEF IsInsertion
<1> HIDE DEF e, n
\* Where the responses of the new queue stood in the old one.
<1> DEFINE old(i) == IF i <= k THEN i ELSE i - 1
<1>6. packetQueue'[k + 1] = e
  BY <1>1, <1>3 DEF IsInsertion, n
<1>7. ASSUME NEW i \in 1 .. (n + 1), i # k + 1
      PROVE  /\ old(i) \in 1 .. n
             /\ packetQueue'[i] = packetQueue[old(i)]
             /\ packetQueue[old(i)].pkt \in Queued
  <2>1. old(i) \in 1 .. n
    BY <1>3, <1>7
  <2>2. packetQueue'[i] = packetQueue[old(i)]
    BY <1>1, <1>3, <1>7 DEF IsInsertion, n
  <2> QED
    BY <2>1, <2>2, <1>4 DEF Queued
<1>8. p \notin Queued /\ before' = before \cup {<<x, p>> : x \in Queued}
  BY DEF Enqueue
<1>9. \A x \in Queued' : x = p \/ x \in Queued
  BY <1>2, <1>5, <1>6, <1>7 DEF Queued
<1>10. p \in Queued'
  BY <1>2, <1>3, <1>5, <1>6 DEF Queued
<1>11. Queued \subseteq Queued'
  <2> SUFFICES ASSUME NEW m \in 1 .. n
               PROVE  packetQueue[m].pkt \in Queued'
    BY <1>4 DEF Queued
  <2> DEFINE i == IF m <= k THEN m ELSE m + 1
  <2>1. i \in 1 .. (n + 1) /\ i # k + 1 /\ old(i) = m
    BY <1>3
  <2>2. packetQueue'[i] = packetQueue[m]
    BY <2>1, <1>7
  <2> QED
    BY <2>1, <2>2, <1>5 DEF Queued
<1>12. PacketsDistinct'
  <2> SUFFICES ASSUME NEW i \in 1 .. (n + 1), NEW j \in 1 .. (n + 1),
                      packetQueue'[i].pkt = packetQueue'[j].pkt
               PROVE  i = j
    BY <1>5 DEF PacketsDistinct
  <2>1. CASE i # k + 1 /\ j # k + 1
    <3>1. old(i) = old(j)
      BY <2>1, <1>4, <1>7 DEF QueueInv, PacketsDistinct
    <3> QED
      BY <2>1, <3>1, <1>3
  <2>2. CASE i = k + 1 \/ j = k + 1
    BY <2>2, <1>2, <1>6, <1>7, <1>8
  <2> QED
    BY <2>1, <2>2
<1>13. HistoryInv'
  BY <1>8, <1>10, <1>11 DEF QueueInv, HistoryInv
<1>14. OvertakingIsJustified'
  <2> SUFFICES ASSUME NEW i \in 1 .. (n + 1), NEW j \in 1 .. (n + 1), i < j,
                      <<packetQueue'[j].pkt, packetQueue'[i].pkt>> \in before'
               PROVE  /\ packetQueue'[i].addr # packetQueue'[j].addr
                      /\ packetQueue'[i].tick <= packetQueue'[j].tick
    BY <1>5 DEF OvertakingIsJustified
  <2>1. CASE j = k + 1
    <3>1. packetQueue'[j].pkt = p /\ packetQueue'[i].pkt \in Queued
      BY <2>1, <1>2, <1>6, <1>7, <1>3
    <3> QED
      BY <3>1, <1>8 DEF QueueInv, HistoryInv
  <2>2. CASE i = k + 1
    <3>1. j - 1 \in 1 .. n /\ j - 1 > k /\ old(j) = j - 1 /\ j # k + 1
      BY <2>2, <1>3
    <3>2. packetQueue # <<>>
      BY <3>1, <1>3 DEF n
    <3>3. ~StopsAt(j - 1, a, when)
      BY <3>1, <3>2, <1>1, <1>4 DEF InsertsBehind
    <3>4. packetQueue'[j] = packetQueue[j - 1]
      BY <3>1, <1>7
    <3>5. packetQueue[j - 1].tick \in Int
      <4>1. packetQueue[j - 1] \in DeferredPacket
        BY <3>1, <1>3, <1>4
      <4> QED
        BY <4>1 DEF DeferredPacket, Past
    <3> QED
      BY <2>2, <3>3, <3>4, <3>5, <1>2, <1>6 DEF StopsAt
  <2>3. CASE i # k + 1 /\ j # k + 1
    <3>1. old(i) < old(j)
      BY <2>3, <1>3
    <3>2. /\ packetQueue'[i] = packetQueue[old(i)]
          /\ packetQueue'[j] = packetQueue[old(j)]
          /\ old(i) \in 1 .. n /\ old(j) \in 1 .. n
          /\ packetQueue'[i].pkt \in Queued
      BY <2>3, <1>7
    <3>3. <<packetQueue[old(j)].pkt, packetQueue[old(i)].pkt>> \in before
      BY <3>2, <1>8
    <3> HIDE DEF old
    <3> QED
      BY <3>1, <3>2, <3>3, <1>4 DEF QueueInv, OvertakingIsJustified
  <2> QED
    BY <2>1, <2>2, <2>3
<1> QED
  BY <1>12, <1>13, <1>14 DEF QueueInv

\* Ticks that all move together, and packets that keep their places.
LEMMA SameShapeKeepsQueueInv ==
    ASSUME TypeOK, QueueInv, SameShape, before' = before,
           \A i, j \in DOMAIN packetQueue :
              packetQueue[i].tick <= packetQueue[j].tick =>
                 packetQueue'[i].tick <= packetQueue'[j].tick
    PROVE  QueueInv'
<1>1. DOMAIN packetQueue' = DOMAIN packetQueue
  BY DEF SameShape
<1>2. \A k \in DOMAIN packetQueue : /\ packetQueue'[k].pkt = packetQueue[k].pkt
                                    /\ packetQueue'[k].addr = packetQueue[k].addr
  BY DEF SameShape
<1>3. Queued' = Queued
  BY <1>1, <1>2 DEF Queued
<1>4. PacketsDistinct'
  BY <1>1, <1>2 DEF QueueInv, PacketsDistinct
<1>5. HistoryInv'
  BY <1>3 DEF QueueInv, HistoryInv
<1>6. OvertakingIsJustified'
  BY <1>1, <1>2 DEF QueueInv, OvertakingIsJustified
<1> QED
  BY <1>4, <1>5, <1>6 DEF QueueInv

\* Delivering the head leaves the order of the others alone.
LEMMA PopKeepsQueueInv ==
    ASSUME TypeOK, NeverEarly, QueueInv, DequeueAccepted
    PROVE  QueueInv'
<1> DEFINE n == Len(packetQueue)
<1>1. packetQueue \in Seq(DeferredPacket) /\ packetQueue # <<>>
  BY DEF TypeOK, NeverEarly, DequeueAccepted
<1>2. /\ packetQueue' \in Seq(DeferredPacket)
      /\ Len(packetQueue') = n - 1
      /\ \A i \in 1 .. (n - 1) : packetQueue'[i] = packetQueue[i + 1]
  <2>1. packetQueue' = Tail(packetQueue)
    BY DEF DequeueAccepted
  <2> QED
    BY <1>1, <2>1, HeadTailProperties
<1>3. /\ n \in Nat /\ n > 0
      /\ DOMAIN packetQueue = 1 .. n
      /\ DOMAIN packetQueue' = 1 .. (n - 1)
  BY <1>1, <1>2
<1>4. before' = {pq \in before : packetQueue[1].pkt \notin {pq[1], pq[2]}}
  BY DEF DequeueAccepted
<1> HIDE DEF n
<1>5. PacketsDistinct'
  <2> SUFFICES ASSUME NEW i \in 1 .. (n - 1), NEW j \in 1 .. (n - 1),
                      packetQueue'[i].pkt = packetQueue'[j].pkt
               PROVE  i = j
    BY <1>3 DEF PacketsDistinct
  <2>1. i + 1 = j + 1
    BY <1>2, <1>3 DEF QueueInv, PacketsDistinct
  <2> QED
    BY <2>1
<1>6. HistoryInv'
  <2> SUFFICES ASSUME NEW pq \in before'
               PROVE  pq \in Queued' \X Queued'
    BY DEF HistoryInv
  <2>1. /\ pq \in Queued \X Queued
        /\ pq[1] # packetQueue[1].pkt /\ pq[2] # packetQueue[1].pkt
    BY <1>4 DEF QueueInv, HistoryInv
  <2>2. ASSUME NEW x \in Queued, x # packetQueue[1].pkt
        PROVE  x \in Queued'
    <3>1. PICK m \in 1 .. n : x = packetQueue[m].pkt
      BY <1>3 DEF Queued
    <3>2. m - 1 \in 1 .. (n - 1) /\ (m - 1) + 1 = m
      BY <2>2, <3>1, <1>3
    <3>3. packetQueue'[m - 1] = packetQueue[m]
      BY <3>2, <1>2
    <3> QED
      BY <3>1, <3>2, <3>3, <1>3 DEF Queued
  <2> QED
    BY <2>1, <2>2
<1>7. OvertakingIsJustified'
  <2> SUFFICES ASSUME NEW i \in 1 .. (n - 1), NEW j \in 1 .. (n - 1), i < j,
                      <<packetQueue'[j].pkt, packetQueue'[i].pkt>> \in before'
               PROVE  /\ packetQueue'[i].addr # packetQueue'[j].addr
                      /\ packetQueue'[i].tick <= packetQueue'[j].tick
    BY <1>3 DEF OvertakingIsJustified
  <2>1. i + 1 \in 1 .. n /\ j + 1 \in 1 .. n /\ i + 1 < j + 1
    BY <1>3
  <2>2. <<packetQueue[j + 1].pkt, packetQueue[i + 1].pkt>> \in before
    BY <1>2, <1>4
  <2>3. packetQueue'[i] = packetQueue[i + 1] /\ packetQueue'[j] = packetQueue[j + 1]
    BY <1>2
  <2>4. /\ packetQueue[i + 1].addr # packetQueue[j + 1].addr
        /\ packetQueue[i + 1].tick <= packetQueue[j + 1].tick
    BY <2>1, <2>2, <1>3 DEF QueueInv, OvertakingIsJustified
  <2> QED
    BY <2>3, <2>4
<1> QED
  BY <1>5, <1>6, <1>7 DEF QueueInv

\* Every handler and event keeps the queue's order justified.
LEMMA NextQueue ==
    ASSUME TypeOK, NeverEarly, QueueInv, [Next]_vars
    PROVE  QueueInv'
<1>1. ASSUME UNCHANGED <<packetQueue, before>>
      PROVE  QueueInv'
  BY <1>1 DEF QueueInv, PacketsDistinct, HistoryInv, OvertakingIsJustified, Queued
<1>2. ASSUME NEW p \in Pkt, NEW cmd \in Cmds, NEW c \in Ctx, NEW a \in Addr,
             NEW v \in Word, NEW when \in Delays, NEW dur \in Durations,
             RecvRequest(p, cmd, c, a, v, when, dur)
      PROVE  QueueInv'
  <2>1. cmd \in AllCmds /\ when \in Nat
    BY CmdsAssumption, DelaysAssumption
  <2>2. AccessData(cmd, c, a) \in Word
    BY <2>1, AccessDataType DEF TypeOK
  <2>3. Enqueue(p, cmd, a, AccessData(cmd, c, a), when)
    BY <1>2 DEF RecvRequest
  <2> QED
    BY <2>1, <2>2, <2>3, EnqueueKeepsQueueInv
<1>3. CASE DequeueAccepted
  BY <1>3, PopKeepsQueueInv
<1>4. ASSUME NEW a \in Addr, NEW v \in Word, RecvFunctionalWrite(a, v)
      PROVE  QueueInv'
  <2>1. SameShape /\ \A k \in DOMAIN packetQueue :
                        packetQueue'[k].tick = packetQueue[k].tick
    BY <1>4, FunctionalQueue
  <2>2. before' = before
    BY <1>4 DEF RecvFunctionalWrite
  <2> QED
    BY <2>1, <2>2, SameShapeKeepsQueueInv
<1>5. CASE Tick
  <2>1. SameShape /\ \A k \in DOMAIN packetQueue :
                        packetQueue'[k].tick = Age(packetQueue[k].tick)
    BY <1>5, TickQueue
  <2>2. \A k \in DOMAIN packetQueue : packetQueue[k].tick \in Nat \cup {Past}
    <3>1. \A k \in DOMAIN packetQueue : packetQueue[k] \in DeferredPacket
      BY DEF TypeOK
    <3> QED
      BY <3>1 DEF DeferredPacket
  <2>3. \A i, j \in DOMAIN packetQueue :
           packetQueue[i].tick <= packetQueue[j].tick =>
              packetQueue'[i].tick <= packetQueue'[j].tick
    BY <2>1, <2>2 DEF Age, Past
  <2>4. before' = before
    BY <1>5 DEF Tick
  <2> QED
    BY <2>1, <2>3, <2>4, SameShapeKeepsQueueInv
<1>6. CASE UNCHANGED vars
  BY <1>1, <1>6 DEF vars, ctrlVars
<1>7. CASE \/ RecvRefuse \/ Release \/ DequeueOnEvent \/ RecvRespRetry
           \/ DequeueRefused \/ Drain \/ DrainResume
  BY <1>1, <1>7 DEF RecvRefuse, Release, DequeueOnEvent, RecvRespRetry,
                    DequeueRefused, Drain, DrainResume
<1>8. ASSUME NEW op \in ImcOps, NEW a \in Addr, NEW b \in Addr, NEW c \in Addr,
             NEW d \in Addr, NEW dur \in Durations, RecvIMC(op, a, b, c, d, dur)
      PROVE  QueueInv'
  BY <1>1, <1>8 DEF RecvIMC
<1>9. ASSUME NEW cmd \in Cmds, NEW c \in Ctx, NEW a \in Addr, NEW v \in Word,
             NEW dur \in Durations, RecvWriteback(cmd, c, a, v, dur)
      PROVE  QueueInv'
  BY <1>1, <1>9 DEF RecvWriteback
<1> QED
  BY <1>2, <1>3, <1>4, <1>5, <1>6, <1>7, <1>8, <1>9 DEF Next

-----------------------------------------------------------------------------
\* The inductive invariant holds in every reachable state of the controller.
THEOREM Invariance == Spec => []IInv
<1>1. IInv <=> TypeOK /\ CtrlInv /\ QueueInv
  BY DEF IInv, CtrlInv, QueueInv
<1>2. Init => IInv
  BY <1>1, InitType, InitCtrl, InitQueue
<1>3. IInv /\ [Next]_vars => IInv'
  <2> SUFFICES ASSUME IInv, [Next]_vars
               PROVE  IInv'
    OBVIOUS
  <2>1. TypeOK'
    BY NextType DEF IInv
  <2>2. CtrlInv'
    BY <1>1, NextCtrl
  <2>3. QueueInv'
    BY <1>1, NextQueue DEF IInv
  <2> QED
    BY <2>1, <2>2, <2>3 DEF IInv, CtrlInv, QueueInv
<1> QED
  BY <1>2, <1>3, PTL DEF Spec

\* Every handler and event of the controller keeps the types of its state:
\* the reservation list holds contexts and 16-byte granules, the queue holds
\* responses with a tick ahead, now or past, and the events are off or not past.
THEOREM TypeCorrect == Spec => []TypeOK
<1>1. IInv => TypeOK
  BY DEF IInv
<1> QED
  BY <1>1, Invariance, PTL

\* A requestor that recvTimingReq refuses is never forgotten: retryReq is set
\* and a release event that sends the retry is scheduled.
THEOREM NoLostRetry == Spec => []RetryIsOwed
<1>1. IInv => RetryIsOwed
  BY DEF IInv
<1> QED
  BY <1>1, Invariance, PTL

\* The queue is never left without a trigger and never has two: outside of
\* dequeue() a queued response has its event or its retry, not both.
THEOREM DeliveryIsArmed == Spec => []DeliveryArmedOnce
<1>1. IInv => DeliveryArmedOnce
  BY DEF IInv
<1> QED
  BY <1>1, Invariance, PTL

\* dequeue() always finds a response at the head of packetQueue, as it asserts,
\* and offers none to the port before its tick.
THEOREM NeverSentEarly == Spec => []NeverEarly
<1>1. IInv => NeverEarly
  BY DEF IInv
<1> QED
  BY <1>1, Invariance, PTL

\* Responses overtake one another only across addresses, and only when they
\* are due no later: the promise of recvTimingReq's insertion loop.
THEOREM ResponseOrder == Spec => []OvertakingIsJustified
<1>1. IInv => OvertakingIsJustified
  BY DEF IInv
<1> QED
  BY <1>1, Invariance, PTL

\* A controller that told the drain manager to wait still has the response
\* whose delivery signals it.
THEOREM DrainCompletes == Spec => []DrainWillBeSignalled
<1>1. IInv => DrainWillBeSignalled
  BY DEF IInv
<1> QED
  BY <1>1, Invariance, PTL

-----------------------------------------------------------------------------
(***************************************************************************)
(* The IMC branches of recvTimingReq and the SwapReq branch of access()    *)
(* are all that can make a reservation stale: without them the controller  *)
(* keeps reservations fresh, whatever order requests, refusals, responses  *)
(* and drains come in.  (Functional writes are not stores of the program.) *)
(***************************************************************************)
THEOREM OnlyIMCAndSwapsSpoil ==
    ASSUME ImcOps = {}, "Swap" \notin Cmds
    PROVE  Spec => []ReservationsAreFresh
<1>1. Init => MemInv
  BY MemInitInv DEF Init
<1>2. ASSUME MemInv, [Next]_vars PROVE MemInv'
  <2>1. CASE UNCHANGED memVars
    BY <1>2, <2>1 DEF memVars, MemInv, MemTypeOK, OnePerContext, ReservationsAreFresh
  <2>2. ASSUME NEW cmd \in Cmds, NEW c \in Ctx, NEW a \in Addr, NEW v \in Word,
               Access(cmd, c, a, v)
        PROVE  MemInv'
    <3>1. AccessLoad(cmd, c, a) \/ AccessStore(cmd, c, a, v)
      BY <2>2 DEF Access, AccessSwap
    <3>2. MemNext
      BY <3>1 DEF MemNext
    <3> QED
      BY <1>2, <3>2, MemNextInv
  <2>3. ASSUME NEW a \in Addr, NEW v \in Word, FunctionalStore(a, v) PROVE MemInv'
    BY <1>2, <2>3 DEF FunctionalStore, MemInv, MemTypeOK, OnePerContext, ReservationsAreFresh
  <2> QED
    BY <1>2, <2>1, <2>2, <2>3
    DEF Next, vars, RecvRefuse, RecvRequest, RecvWriteback, Release, DequeueOnEvent,
        RecvRespRetry, DequeueAccepted, DequeueRefused, Drain, DrainResume,
        RecvFunctionalWrite, Tick
<1>3. MemInv => ReservationsAreFresh
  BY DEF MemInv
<1> QED
  BY <1>1, <1>2, <1>3, PTL DEF Spec
=============================================================================
