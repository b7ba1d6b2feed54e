------------------------------ MODULE PIMCtrl -------------------------------
(***************************************************************************)
(* The in-memory-computing memory controller (mem/pim_mem.cc): a memory    *)
(* behind one timing port that limits its bandwidth by refusing requests   *)
(* while it is busy, answers loads and stores after a latency through a    *)
(* queue of deferred responses, and executes the six IMC operations on its *)
(* backing store when a request carries one of their flags.                *)
(*                                                                         *)
(* Time.  The simulator runs one event at a time, in the order of the      *)
(* events' ticks.  Ticks are kept relative to the current one: `tick` of a *)
(* queued response and the two event variables count what is left, and the *)
(* step Tick lets time pass when no event is due.  A response whose tick   *)
(* has passed (the peer refused it, or one ahead of it) has the tick Past: *)
(* the code compares it only with ticks that are not in the past, so how   *)
(* long ago it was makes no difference.                                    *)
(*                                                                         *)
(* Calls.  The one call of the controller that a peer may answer with a    *)
(* call back into it, and after which the controller still has work to do, *)
(* is sendTimingResp in dequeue(); the handler is split there, and         *)
(* `sending` holds while the call is under way.                            *)
(***************************************************************************)
EXTENDS AbstractMemory, IMCArith, SequencesExt

CONSTANTS
    Pkt,        \* identities of the packets that wait for a response
    Delays,     \* receive delay + getLatency(), over all requests
    Durations,  \* getSize() * bandwidth, over all requests
    ImcOps      \* the IMC operations that are requested

ASSUME DelaysAssumption == Delays \subseteq Nat
ASSUME DurationsAssumption == Durations \subseteq Nat
ASSUME ImcOpsAssumption == ImcOps \subseteq Ops

VARIABLES
    isBusy, retryReq, retryResp,
    releaseEvent,  \* ticks to the event, or Off
    dequeueEvent,  \* ticks to the event, or Off
    packetQueue,   \* sequence of deferred responses
    drainState,
    sending,       \* dequeue() is in its call of sendTimingResp
    reentered,     \* the peer had a request accepted from within that call
    trapped,       \* the host trapped: the simulator is gone
    refused,       \* peer: a request was refused, no retry has come yet
    blocked,       \* peer: a response was refused and not asked for again
    before         \* history: <<p, q>>: p was accepted before q, both queued

ctrlVars == <<isBusy, retryReq, retryResp, releaseEvent, dequeueEvent,
              packetQueue, drainState, sending, reentered, trapped,
              refused, blocked, before>>
vars == <<memVars, ctrlVars>>

\* The event is not scheduled.
Off == -1

\* The tick of a response that was due before the present.
Past == -2

\* What is left of the time to an event, and to the tick of a response, when
\* a tick has passed.
Dec(t) == IF t > 0 THEN t - 1 ELSE t

Age(t) == IF t > 0 THEN t - 1 ELSE Past

\* Faulty variant: the tick is taken as it is.
NotPast_AsItIs(t) == t

\* std::max(tick, curTick()): no event is scheduled in the past.
NotPast(t) == IF t < 0 THEN 0 ELSE t

Queued == {packetQueue[k].pkt : k \in DOMAIN packetQueue}

Init ==
    /\ MemInit
    /\ isBusy = FALSE /\ retryReq = FALSE /\ retryResp = FALSE
    /\ releaseEvent = Off /\ dequeueEvent = Off
    /\ packetQueue = <<>>
    /\ drainState = "Running"
    /\ sending = FALSE /\ reentered = FALSE
    /\ trapped = FALSE
    /\ refused = FALSE /\ blocked = FALSE
    /\ before = {}

-----------------------------------------------------------------------------
(***************************************************************************)
(* recvTimingReq                                                           *)
(***************************************************************************)
\* Faulty variant: the refusal is not remembered.
RecvRefuse_Forgotten ==
    /\ ~trapped
    /\ retryReq \/ isBusy
    /\ refused' = TRUE
    /\ UNCHANGED <<memVars, isBusy, retryReq, retryResp, releaseEvent,
                   dequeueEvent, packetQueue, drainState, sending, reentered,
                   trapped, blocked, before>>

\* The two early returns: the requestor is told to wait for a retry.
RecvRefuse ==
    /\ ~trapped
    /\ retryReq \/ isBusy
    /\ retryReq' = TRUE
    /\ refused' = TRUE
    /\ UNCHANGED <<memVars, isBusy, retryResp, releaseEvent, dequeueEvent,
                   packetQueue, drainState, sending, reentered, trapped,
                   blocked, before>>

Accepting == ~trapped /\ ~retryReq /\ ~isBusy

\* The bandwidth limit: busy until the release event, unless it is now.
Occupy(duration) ==
    /\ isBusy' = (duration # 0)
    /\ releaseEvent' = IF duration # 0 THEN duration ELSE releaseEvent
    /\ reentered' = sending

\* The flagged branches: operands from the backing store, result into it,
\* and a return before any response is made.
RecvIMC(op, a, b, c, d, duration) ==
    /\ Accepting
    /\ Occupy(duration)
    /\ IF Traps(op, mem[a], mem[b], mem[c])
       THEN trapped' = TRUE /\ UNCHANGED memVars
       ELSE /\ \E result \in Word :  \* uint64_t result
                  /\ result = Result(op, mem[a], mem[b], mem[c])
                  /\ mem' = [mem EXCEPT ![d] = result]
            /\ dirtied' = dirtied \cup Holders(d)
            /\ UNCHANGED <<lockedAddrList, trapped>>
    /\ UNCHANGED <<retryReq, retryResp, dequeueEvent, packetQueue, drainState,
                   sending, refused, blocked, before>>

\* Faulty variant: addresses are not compared.
StopsAt_AnyAddress(k, a, when) ==
    k = 1 \/ ~(when < packetQueue[k].tick)

\* The insertion loop walks from the last response towards the first and
\* stops at k: at the first one, at one due no later, or at one with the
\* same address.
StopsAt(k, a, when) ==
    \/ k = 1
    \/ ~(when < packetQueue[k].tick)
    \/ packetQueue[k].addr = a

\* The new response goes behind position k.
InsertsBehind(k, a, when) ==
    IF packetQueue = <<>>
    THEN k = 0
    ELSE /\ k \in DOMAIN packetQueue
         /\ StopsAt(k, a, when)
         /\ \A j \in DOMAIN packetQueue : j > k => ~StopsAt(j, a, when)

Deferred(p, cmd, a, data, when) ==
    [pkt |-> p, cmd |-> cmd, addr |-> a, data |-> data, tick |-> when]

\* Queue the response of packet p and schedule its delivery.
Enqueue(p, cmd, a, data, when) ==
    /\ p \notin Queued
    /\ \E k \in 0 .. Len(packetQueue) :
          /\ InsertsBehind(k, a, when)
          /\ packetQueue' =
                InsertAt(packetQueue, k + 1, Deferred(p, cmd, a, data, when))
    /\ dequeueEvent' = IF ~retryResp /\ dequeueEvent = Off
                       THEN packetQueue'[Len(packetQueue')].tick
                       ELSE dequeueEvent
    /\ before' = before \cup {<<q, p>> : q \in Queued}

\* A request without IMC flag that needs a response.
RecvRequest(p, cmd, c, a, v, when, duration) ==
    /\ Accepting
    /\ NeedsResponse(cmd)
    /\ Occupy(duration)
    /\ Access(cmd, c, a, v)
    /\ Enqueue(p, cmd, a, AccessData(cmd, c, a), when)
    /\ UNCHANGED <<retryReq, retryResp, drainState, sending, trapped, refused,
                   blocked>>

\* A request that needs none: the packet is only kept for deletion.
RecvWriteback(cmd, c, a, v, duration) ==
    /\ Accepting
    /\ ~NeedsResponse(cmd)
    /\ Occupy(duration)
    /\ Access(cmd, c, a, v)
    /\ UNCHANGED <<retryReq, retryResp, dequeueEvent, packetQueue, drainState,
                   sending, trapped, refused, blocked, before>>

-----------------------------------------------------------------------------
(***************************************************************************)
(* The events, and what the peer calls                                     *)
(***************************************************************************)
\* The event loop runs one handler at a time.
AtTopLevel == ~trapped /\ ~sending

\* Faulty variant: the flag is cleared but the requestor is not called.
Release_NoCall ==
    /\ AtTopLevel
    /\ releaseEvent = 0
    /\ releaseEvent' = Off
    /\ isBusy' = FALSE
    /\ retryReq' = FALSE
    /\ UNCHANGED <<memVars, retryResp, dequeueEvent, packetQueue, drainState,
                   sending, reentered, trapped, refused, blocked, before>>

\* release(); sendRetryReq is its last statement.
Release ==
    /\ AtTopLevel
    /\ releaseEvent = 0
    /\ releaseEvent' = Off
    /\ isBusy' = FALSE
    /\ retryReq' = FALSE
    /\ refused' = (refused /\ ~retryReq)
    /\ UNCHANGED <<memVars, retryResp, dequeueEvent, packetQueue, drainState,
                   sending, reentered, trapped, blocked, before>>

\* dequeue() up to and including the call of sendTimingResp, entered from
\* the dequeue event ...
DequeueOnEvent ==
    /\ AtTopLevel
    /\ dequeueEvent = 0
    /\ dequeueEvent' = Off
    /\ sending' = TRUE
    /\ UNCHANGED <<memVars, isBusy, retryReq, retryResp, releaseEvent,
                   packetQueue, drainState, reentered, trapped, refused,
                   blocked, before>>

\* ... or from recvRespRetry(), by a peer that refused the response before.
RecvRespRetry ==
    /\ AtTopLevel
    /\ blocked
    /\ blocked' = FALSE
    /\ sending' = TRUE
    /\ UNCHANGED <<memVars, isBusy, retryReq, retryResp, releaseEvent,
                   dequeueEvent, packetQueue, drainState, reentered, trapped,
                   refused, before>>

\* Faulty variants: the next delivery is armed at once; it is not armed; the
\* drain manager is not told.
DequeueAccepted_ArmedAtOnce ==
    /\ ~trapped /\ sending
    /\ sending' = FALSE /\ reentered' = FALSE
    /\ retryResp' = FALSE
    /\ packetQueue' = Tail(packetQueue)
    /\ IF packetQueue' # <<>>
       THEN dequeueEvent' = 0 /\ UNCHANGED drainState
       ELSE /\ drainState' = IF drainState = "Draining" THEN "Drained" ELSE drainState
            /\ UNCHANGED dequeueEvent
    /\ before' = {pq \in before : packetQueue[1].pkt \notin {pq[1], pq[2]}}
    /\ UNCHANGED <<memVars, isBusy, retryReq, releaseEvent, trapped, refused,
                   blocked>>

DequeueAccepted_NotArmed ==
    /\ ~trapped /\ sending
    /\ sending' = FALSE /\ reentered' = FALSE
    /\ retryResp' = FALSE
    /\ packetQueue' = Tail(packetQueue)
    /\ before' = {pq \in before : packetQueue[1].pkt \notin {pq[1], pq[2]}}
    /\ UNCHANGED <<memVars, isBusy, retryReq, releaseEvent, dequeueEvent,
                   drainState, trapped, refused, blocked>>

DequeueAccepted_NoSignal ==
    /\ ~trapped /\ sending
    /\ sending' = FALSE /\ reentered' = FALSE
    /\ retryResp' = FALSE
    /\ packetQueue' = Tail(packetQueue)
    /\ dequeueEvent' = IF packetQueue' # <<>> THEN NotPast(packetQueue'[1].tick)
                                              ELSE dequeueEvent
    /\ before' = {pq \in before : packetQueue[1].pkt \notin {pq[1], pq[2]}}
    /\ UNCHANGED <<memVars, isBusy, retryReq, releaseEvent, drainState, trapped,
                   refused, blocked>>

\* sendTimingResp returns true: pop the response and arm the next delivery,
\* or signal the drain manager.
DequeueAccepted ==
    /\ ~trapped /\ sending
    /\ sending' = FALSE /\ reentered' = FALSE
    /\ retryResp' = FALSE
    /\ packetQueue' = Tail(packetQueue)
    /\ IF packetQueue' # <<>>
       THEN dequeueEvent' = NotPast(packetQueue'[1].tick) /\ UNCHANGED drainState
       ELSE /\ drainState' = IF drainState = "Draining" THEN "Drained" ELSE drainState
            /\ UNCHANGED dequeueEvent
    /\ before' = {pq \in before : packetQueue[1].pkt \notin {pq[1], pq[2]}}
    /\ UNCHANGED <<memVars, isBusy, retryReq, releaseEvent, trapped, refused,
                   blocked>>

\* sendTimingResp returns false.  A peer whose request was accepted from
\* within the call takes the response.
DequeueRefused ==
    /\ ~trapped /\ sending /\ ~reentered
    /\ sending' = FALSE
    /\ retryResp' = TRUE
    /\ blocked' = TRUE
    /\ UNCHANGED <<memVars, isBusy, retryReq, releaseEvent, dequeueEvent,
                   packetQueue, drainState, reentered, trapped, refused, before>>

\* dmDrain() and drain(), called by the drain manager on an object that is
\* not draining already.
Drain ==
    /\ AtTopLevel
    /\ drainState # "Draining"
    /\ drainState' = IF packetQueue # <<>> THEN "Draining" ELSE "Drained"
    /\ UNCHANGED <<memVars, isBusy, retryReq, retryResp, releaseEvent,
                   dequeueEvent, packetQueue, sending, reentered, trapped,
                   refused, blocked, before>>

\* dmDrainResume().
DrainResume ==
    /\ AtTopLevel
    /\ drainState = "Drained"
    /\ drainState' = "Running"
    /\ UNCHANGED <<memVars, isBusy, retryReq, retryResp, releaseEvent,
                   dequeueEvent, packetQueue, sending, reentered, trapped,
                   refused, blocked, before>>

\* trySatisfyFunctional of a write against a queued response.
SatisfyFunctional(e, a, v) ==
    IF e.addr = a /\ ResponseHasData(e.cmd) THEN [e EXCEPT !.data = v] ELSE e

\* recvFunctional of a write.
RecvFunctionalWrite(a, v) ==
    /\ AtTopLevel
    /\ FunctionalStore(a, v)
    /\ packetQueue' = [k \in DOMAIN packetQueue |->
                          SatisfyFunctional(packetQueue[k], a, v)]
    /\ UNCHANGED <<isBusy, retryReq, retryResp, releaseEvent, dequeueEvent,
                   drainState, sending, reentered, trapped, refused, blocked,
                   before>>

\* Time passes to the next tick: no event is due.
Tick ==
    /\ AtTopLevel
    /\ releaseEvent # 0 /\ dequeueEvent # 0
    /\ releaseEvent' = Dec(releaseEvent)
    /\ dequeueEvent' = Dec(dequeueEvent)
    /\ packetQueue' = [k \in DOMAIN packetQueue |->
                          [packetQueue[k] EXCEPT !.tick = Age(@)]]
    /\ UNCHANGED <<memVars, isBusy, retryReq, retryResp, drainState, sending,
                   reentered, trapped, refused, blocked, before>>

Next ==
    \/ RecvRefuse
    \/ \E op \in ImcOps, a, b, c, d \in Addr, dur \in Durations :
          RecvIMC(op, a, b, c, d, dur)
    \/ \E p \in Pkt, cmd \in Cmds, c \in Ctx, a \in Addr, v \in Word,
          when \in Delays, dur \in Durations :
          RecvRequest(p, cmd, c, a, v, when, dur)
    \/ \E cmd \in Cmds, c \in Ctx, a \in Addr, v \in Word, dur \in Durations :
          RecvWriteback(cmd, c, a, v, dur)
    \/ Release
    \/ DequeueOnEvent
    \/ RecvRespRetry
    \/ DequeueAccepted
    \/ DequeueRefused
    \/ Drain
    \/ DrainResume
    \/ \E a \in Addr, v \in Word : RecvFunctionalWrite(a, v)
    \/ Tick

Spec == Init /\ [][Next]_vars

(***************************************************************************)
(* The event loop never stops on its own: time passes and due events run.  *)
(* A peer that refused a response asks for it again, and takes it after    *)
(* finitely many attempts.                                                 *)
(***************************************************************************)
Fairness ==
    /\ WF_vars(Tick)
    /\ WF_vars(Release)
    /\ WF_vars(DequeueOnEvent)
    /\ WF_vars(RecvRespRetry)
    /\ SF_vars(DequeueAccepted)

FairSpec == Spec /\ Fairness

-----------------------------------------------------------------------------
(***************************************************************************)
(* Properties                                                              *)
(***************************************************************************)
DeferredPacket ==
    [pkt: Pkt, cmd: AllCmds, addr: Addr, data: Word, tick: Nat \cup {Past}]

TypeOK ==
    /\ MemTypeOK
    /\ isBusy \in BOOLEAN /\ retryReq \in BOOLEAN /\ retryResp \in BOOLEAN
    /\ releaseEvent \in Nat \cup {Off}
    /\ dequeueEvent \in Nat \cup {Off}
    /\ packetQueue \in Seq(DeferredPacket)
    /\ drainState \in {"Running", "Draining", "Drained"}
    /\ sending \in BOOLEAN /\ reentered \in BOOLEAN /\ trapped \in BOOLEAN
    /\ refused \in BOOLEAN /\ blocked \in BOOLEAN
    /\ before \subseteq Pkt \X Pkt

(***************************************************************************)
(* No lost retry: a requestor that recvTimingReq turned away is remembered *)
(* in retryReq, and a release event that will call it is scheduled; the    *)
(* controller is busy exactly while that event is (assert(isBusy) in       *)
(* release(), and the schedule() of an event that must not be scheduled).  *)
(***************************************************************************)
RetryIsOwed ==
    /\ refused => retryReq
    /\ retryReq => isBusy
    /\ isBusy <=> releaseEvent # Off

(***************************************************************************)
(* Delivery is armed once: outside of dequeue(), the queue holds responses *)
(* exactly when either the dequeue event is scheduled or the peer has been *)
(* told to ask again, never both (a second trigger would make dequeue()    *)
(* meet an empty queue, assert(!packetQueue.empty())), and the peer that   *)
(* asks finds retryResp set (assert(retryResp) in recvRespRetry).          *)
(***************************************************************************)
DeliveryArmedOnce ==
    ~sending =>
        /\ packetQueue # <<>> <=> (dequeueEvent # Off \/ retryResp)
        /\ ~(dequeueEvent # Off /\ retryResp)
        /\ blocked <=> retryResp

(***************************************************************************)
(* Latency is respected: dequeue() sends no response before its tick, and  *)
(* while a response waits for nothing but time the event is due exactly at *)
(* the tick of the response at the head, or now if that has passed.        *)
(***************************************************************************)
NeverEarly ==
    /\ sending => packetQueue # <<>> /\ packetQueue[1].tick <= 0
    /\ (~sending /\ dequeueEvent # Off) => dequeueEvent = NotPast(packetQueue[1].tick)

(***************************************************************************)
(* "make sure not to re-order in front of some existing packet with the    *)
(* same address": a response that stands ahead of one accepted earlier has *)
(* another address, and is due no later.                                   *)
(***************************************************************************)
OvertakingIsJustified ==
    \A i, j \in DOMAIN packetQueue :
        (i < j /\ <<packetQueue[j].pkt, packetQueue[i].pkt>> \in before) =>
            /\ packetQueue[i].addr # packetQueue[j].addr
            /\ packetQueue[i].tick <= packetQueue[j].tick

(***************************************************************************)
(* The drain manager is not left waiting: a controller that reported       *)
(* Draining still holds a response, whose delivery signals the end of the  *)
(* drain, even if requests and retries come in meanwhile.                  *)
(***************************************************************************)
DrainWillBeSignalled ==
    drainState = "Draining" => packetQueue # <<>>

\* Every accepted load or store is answered (unless the host trapped).
EveryRequestAnswered ==
    \A p \in Pkt : p \in Queued ~> (p \notin Queued \/ trapped)

\* Every refused requestor is called back (unless the host trapped).
EveryRefusalRetried ==
    refused ~> (~refused \/ trapped)
-----------------------------------------------------------------------------
(***************************************************************************)
(* The inductive invariant behind the safety properties: what holds while  *)
(* dequeue() is in its call, and which packets the history speaks about.   *)
(***************************************************************************)
\* The response a blocked peer will ask for is due.
HeadIsDue == (~sending /\ retryResp) => packetQueue[1].tick <= 0

\* During the call the event is scheduled only by a re-entrant request, which
\* is then queued behind the response being sent.
CallInv ==
    /\ reentered => sending
    /\ sending => /\ ~blocked
                  /\ dequeueEvent # Off => reentered /\ Len(packetQueue) > 1

PacketsDistinct ==
    \A i, j \in DOMAIN packetQueue :
        packetQueue[i].pkt = packetQueue[j].pkt => i = j

HistoryInv == before \subseteq Queued \X Queued

IInv ==
    /\ TypeOK
    /\ RetryIsOwed /\ DeliveryArmedOnce /\ NeverEarly
    /\ HeadIsDue /\ CallInv /\ DrainWillBeSignalled
    /\ PacketsDistinct /\ HistoryInv /\ OvertakingIsJustified

-----------------------------------------------------------------------------
(***************************************************************************)
(* The controller implements OrderedMemory: the responses that are due at  *)
(* an address are the queued ones with that address, in queue order.       *)
(***************************************************************************)
Due(e) == [pkt |-> e.pkt, cmd |-> e.cmd, data |-> e.data]

\* The responses with address a among the first i of the queue q, for all i.
DueAmong(q, a) ==
    LET among[i \in 0 .. Len(q)] ==
            IF i = 0 THEN <<>>
            ELSE IF q[i].addr = a THEN Append(among[i - 1], Due(q[i]))
                                  ELSE among[i - 1]
    IN  among

PendingAt(a) == DueAmong(packetQueue, a)[Len(packetQueue)]

Ordered == INSTANCE OrderedMemory WITH
    pending <- [a \in Addr |-> PendingAt(a)]

ImplementsOrderedMemory == Ordered!OmSpec
=============================================================================
