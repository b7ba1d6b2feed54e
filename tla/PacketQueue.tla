---------------------------- MODULE PacketQueue -----------------------------
(***************************************************************************)
(* The packet queue of a queued port (mem/packet_queue.cc), as the crossbar*)
(* uses it for responses: packets with a tick to be sent at, one send      *)
(* event, and a peer that may refuse a packet and ask for it again.        *)
(*                                                                         *)
(* Ticks are relative to the current one, as in module PIMCtrl.  A packet  *)
(* that waits may have a tick in the past, and all such ticks are `Past`:  *)
(* the code compares them with ticks that are not in the past.  An event   *)
(* is never in the past, which is what schedule() asserts.                 *)
(*                                                                         *)
(* The queue calls its peer in sendDeferredPacket(), which is split there: *)
(* `sending` is the packet in the call, already off the list.  The peer    *)
(* may cause a new packet to be queued from within the call (the comments  *)
(* name CPUs that send a request while they receive a response); a peer    *)
(* that does so takes the packet it is being sent.  Packets are never      *)
(* express snoops, and the data they carry is left out.                    *)
(***************************************************************************)
EXTENDS Integers, Sequences, SequencesExt

CONSTANTS
    Pkt,       \* identities of packets
    PktAddr,   \* addresses
    Delays,    \* `when` of the packets, counted from the current tick
    MaxLength, \* 128, the size the sanity check accepts
    None

\* A tick before the current one.
Past == -2

\* DeferredPacket of the code: the packet, what the queue looks at of it, and
\* the tick it is to be sent at.
DeferredPacket == [pkt: Pkt, addr: PktAddr, tick: Nat \cup {Past}]

ASSUME NoneAssumption == None \notin DeferredPacket
ASSUME SendDelaysAssumption == Delays \subseteq Nat
ASSUME MaxLengthAssumption == MaxLength \in Nat

VARIABLES
    forceOrder,      \* parameter of the queue
    transmitList,    \* sequence of deferred packets
    sendEvent,       \* ticks to the event, or Off
    waitingOnRetry,
    drainState,
    sending,         \* the packet in the call of sendTiming, or None
    entered,         \* a packet was queued from within that call
    panicked,        \* the sanity check stopped the simulator
    before           \* history: <<p, q>>: p was queued before q, both here

vars == <<forceOrder, transmitList, sendEvent, waitingOnRetry, drainState,
          sending, entered, panicked, before>>

Off == -1

\* A scheduled event comes one tick closer.
DecTick(t) == IF t > 0 THEN t - 1 ELSE t

\* The tick of a packet, one tick later.
Age(t) == IF t > 0 THEN t - 1 ELSE Past

Deferred(p, a, when) == [pkt |-> p, addr |-> a, tick |-> when]

Listed == {transmitList[k].pkt : k \in DOMAIN transmitList}

\* The packets the queue is responsible for.
Held == Listed \cup (IF sending = None THEN {} ELSE {sending.pkt})

Init ==
    /\ forceOrder \in BOOLEAN
    /\ transmitList = <<>>
    /\ sendEvent = Off
    /\ waitingOnRetry = FALSE
    /\ drainState = "Running"
    /\ sending = None
    /\ entered = FALSE
    /\ panicked = FALSE
    /\ before = {}

-----------------------------------------------------------------------------
\* Faulty variants: the event is scheduled for the packet's tick, also one in
\* the past; an event that is scheduled for later stays where it is.
SchedSendEvent_AsItIs(when) ==
    sendEvent' = IF waitingOnRetry THEN sendEvent
                 ELSE IF sendEvent = Off \/ when < sendEvent THEN when
                 ELSE sendEvent

SchedSendEvent_NotMoved(when) ==
    LET next == IF when > 1 THEN when ELSE 1
    IN  sendEvent' = IF waitingOnRetry \/ sendEvent # Off THEN sendEvent ELSE next

\* schedSendEvent() for a tick: one tick ahead at least, moving an event that
\* is scheduled for later.
SchedSendEvent(when) ==
    LET next == IF when > 1 THEN when ELSE 1
    IN  sendEvent' = IF waitingOnRetry THEN sendEvent
                     ELSE IF sendEvent = Off \/ next < sendEvent THEN next
                     ELSE sendEvent

\* Faulty variants: addresses are not compared; a packet goes in front of the
\* packets with its tick.
StopsAt_AnyAddress(k, a, when) == transmitList[k].tick <= when

StopsAt_Before(k, a, when) ==
    \/ forceOrder /\ transmitList[k].addr = a
    \/ transmitList[k].tick < when

\* The search from the end of the list stops at position k.
StopsAt(k, a, when) ==
    \/ forceOrder /\ transmitList[k].addr = a
    \/ transmitList[k].tick <= when

\* The new packet goes behind position k, or to the front.
InsertsBehind(k, a, when) ==
    /\ k # 0 => StopsAt(k, a, when)
    /\ \A j \in DOMAIN transmitList : j > k => ~StopsAt(j, a, when)

\* schedSendTiming(): at top level, or from within a call of the peer.
SchedSendTiming(p, a, when) ==
    /\ ~panicked
    /\ p \notin Held
    /\ IF Len(transmitList) > MaxLength
       THEN /\ panicked' = TRUE
            /\ UNCHANGED <<transmitList, sendEvent, before>>
       ELSE /\ \E k \in 0 .. Len(transmitList) :
                  /\ InsertsBehind(k, a, when)
                  /\ transmitList' =
                        InsertAt(transmitList, k + 1, Deferred(p, a, when))
                  /\ IF k = 0 THEN SchedSendEvent(when) ELSE UNCHANGED sendEvent
            /\ before' = before \cup {<<q, p>> : q \in Held}
            /\ UNCHANGED panicked
    /\ entered' = (sending # None)
    /\ UNCHANGED <<forceOrder, waitingOnRetry, drainState, sending>>

-----------------------------------------------------------------------------
AtTopLevel == ~panicked /\ sending = None

\* sendDeferredPacket() up to and including the call of sendTiming.
SendDeferredPacket ==
    /\ transmitList # <<>>
    /\ sending' = Head(transmitList)
    /\ transmitList' = Tail(transmitList)

\* processSendEvent().
ProcessSendEvent ==
    /\ AtTopLevel
    /\ sendEvent = 0
    /\ sendEvent' = Off
    /\ SendDeferredPacket
    /\ UNCHANGED <<forceOrder, waitingOnRetry, drainState, entered, panicked, before>>

\* retry(), called by a peer that refused.
Retry ==
    /\ AtTopLevel
    /\ waitingOnRetry
    /\ waitingOnRetry' = FALSE
    /\ SendDeferredPacket
    /\ UNCHANGED <<forceOrder, sendEvent, drainState, entered, panicked, before>>

\* Faulty variants: the next send is not scheduled; the drain manager is
\* told while the list is not empty.
SendTaken_SignalEarly ==
    /\ ~panicked /\ sending # None
    /\ IF transmitList # <<>>
       THEN SchedSendEvent(Head(transmitList).tick)
       ELSE UNCHANGED sendEvent
    /\ drainState' = IF drainState = "Draining" THEN "Drained" ELSE drainState
    /\ sending' = None /\ entered' = FALSE
    /\ before' = {pq \in before : sending.pkt \notin {pq[1], pq[2]}}
    /\ UNCHANGED <<forceOrder, transmitList, waitingOnRetry, panicked>>

SendTaken_NotArmed ==
    /\ ~panicked /\ sending # None
    /\ IF transmitList # <<>>
       THEN UNCHANGED <<sendEvent, drainState>>
       ELSE /\ drainState' = IF drainState = "Draining" THEN "Drained" ELSE drainState
            /\ UNCHANGED sendEvent
    /\ sending' = None /\ entered' = FALSE
    /\ before' = {pq \in before : sending.pkt \notin {pq[1], pq[2]}}
    /\ UNCHANGED <<forceOrder, transmitList, waitingOnRetry, panicked>>

\* sendTiming returns true: schedule the next send, or complete a drain.
SendTaken ==
    /\ ~panicked /\ sending # None
    /\ IF transmitList # <<>>
       THEN SchedSendEvent(Head(transmitList).tick) /\ UNCHANGED drainState
       ELSE /\ drainState' = IF drainState = "Draining" /\ sendEvent = Off
                             THEN "Drained" ELSE drainState
            /\ UNCHANGED sendEvent
    /\ sending' = None /\ entered' = FALSE
    /\ before' = {pq \in before : sending.pkt \notin {pq[1], pq[2]}}
    /\ UNCHANGED <<forceOrder, transmitList, waitingOnRetry, panicked>>

\* sendTiming returns false: the packet goes back to the front.
SendRefused ==
    /\ ~panicked /\ sending # None /\ ~entered
    /\ waitingOnRetry' = TRUE
    /\ transmitList' = <<sending>> \o transmitList
    /\ sending' = None
    /\ UNCHANGED <<forceOrder, sendEvent, drainState, entered, panicked, before>>

\* dmDrain() and drain(), of a queue that is not draining already.
Drain ==
    /\ AtTopLevel
    /\ drainState # "Draining"
    /\ drainState' = IF transmitList = <<>> THEN "Drained" ELSE "Draining"
    /\ UNCHANGED <<forceOrder, transmitList, sendEvent, waitingOnRetry, sending,
                   entered, panicked, before>>

\* dmDrainResume().
DrainResume ==
    /\ AtTopLevel
    /\ drainState = "Drained"
    /\ drainState' = "Running"
    /\ UNCHANGED <<forceOrder, transmitList, sendEvent, waitingOnRetry, sending,
                   entered, panicked, before>>

\* Time passes to the next tick; the event is not due.
Tick ==
    /\ AtTopLevel
    /\ sendEvent # 0
    /\ sendEvent' = DecTick(sendEvent)
    /\ transmitList' = [k \in DOMAIN transmitList |->
                           [transmitList[k] EXCEPT !.tick = Age(@)]]
    /\ UNCHANGED <<forceOrder, waitingOnRetry, drainState, sending, entered,
                   panicked, before>>

Next ==
    \/ \E p \in Pkt, a \in PktAddr, when \in Delays : SchedSendTiming(p, a, when)
    \/ ProcessSendEvent
    \/ Retry
    \/ SendTaken
    \/ SendRefused
    \/ Drain
    \/ DrainResume
    \/ Tick

Spec == Init /\ [][Next]_vars

(***************************************************************************)
(* Time passes and the send event runs when it is due; a peer that refused *)
(* asks again, and takes the packet after finitely many attempts.          *)
(***************************************************************************)
Fairness ==
    /\ WF_vars(Tick)
    /\ WF_vars(ProcessSendEvent)
    /\ WF_vars(Retry)
    /\ SF_vars(SendTaken)

FairSpec == Spec /\ Fairness

-----------------------------------------------------------------------------
TypeOK ==
    /\ forceOrder \in BOOLEAN
    /\ transmitList \in Seq(DeferredPacket)
    /\ sendEvent \in Nat \cup {Off}
    /\ waitingOnRetry \in BOOLEAN
    /\ drainState \in {"Running", "Draining", "Drained"}
    /\ sending \in DeferredPacket \cup {None}
    /\ entered \in BOOLEAN /\ panicked \in BOOLEAN
    /\ before \subseteq Pkt \X Pkt

(***************************************************************************)
(* "we should either have an outstanding retry, or a send event scheduled, *)
(* but there is an unfortunate corner case" (the assertion the code had to *)
(* give up in schedSendTiming): outside of a call of the peer the list is  *)
(* not empty exactly when one of the two is there, and never both, so that *)
(* processSendEvent() and retry() meet their assertions, also after calls  *)
(* in which the queue was entered again.                                   *)
(***************************************************************************)
SendIsArmed ==
    sending = None =>
        /\ transmitList # <<>> <=> (sendEvent # Off \/ waitingOnRetry)
        /\ ~(sendEvent # Off /\ waitingOnRetry)

\* The event is scheduled for the tick of the first packet, or for this one or
\* the next if that tick has come.
EventOnTime ==
    LET due == Head(transmitList).tick
    IN  sendEvent = due \/ (due <= 0 /\ sendEvent \in {0, 1})

(***************************************************************************)
(* No packet is sent before its tick (assert(deferredPacketReady())), and  *)
(* none that waits for nothing else is sent more than the one tick late    *)
(* that schedSendEvent adds.                                               *)
(***************************************************************************)
SentOnTime ==
    /\ sending # None => sending.tick <= 0
    /\ (sending = None /\ sendEvent # Off) => EventOnTime

(***************************************************************************)
(* "make sure not to re-order in front of some existing packet with the    *)
(* same address": a packet ahead of one that was queued earlier is due no  *)
(* later, and with forceOrder it has another address.  The packet in the   *)
(* call counts as the first, for it may go back to the front.              *)
(***************************************************************************)
Line == (IF sending = None THEN <<>> ELSE <<sending>>) \o transmitList

OvertakingIsJustified ==
    \A i, j \in DOMAIN Line :
        (i < j /\ <<Line[j].pkt, Line[i].pkt>> \in before) =>
            /\ Line[i].tick <= Line[j].tick
            /\ forceOrder => Line[i].addr # Line[j].addr

(***************************************************************************)
(* A packet that the peer refused is the next one it is sent, whatever is  *)
(* queued while the queue waits for the retry.                             *)
(***************************************************************************)
RefusedGoesFirst ==
    [][(waitingOnRetry /\ transmitList' # transmitList) =>
          Head(transmitList).pkt = IF sending' = None THEN Head(transmitList').pkt
                                                      ELSE sending'.pkt]_vars

(***************************************************************************)
(* The drain manager is not left waiting, nor told too early: a queue that *)
(* reported Draining goes on holding a packet whose sending will signal,   *)
(* until the step that signals, which leaves the queue empty with no event *)
(* scheduled.                                                              *)
(***************************************************************************)
DrainIsSignalled ==
    [][drainState = "Draining" =>
          IF drainState' = "Draining" THEN Held' # {}
                                      ELSE Held' = {} /\ sendEvent' = Off]_vars

-----------------------------------------------------------------------------
(***************************************************************************)
(* The inductive invariant behind the safety properties: what holds while  *)
(* the peer is being called, and which packets the history speaks about.   *)
(***************************************************************************)
\* A packet that waits for a retry is due.  During the call the event is
\* scheduled only for packets that were queued from within it.
CallInv ==
    /\ waitingOnRetry => sending = None /\ Head(transmitList).tick <= 0
    /\ (sending # None /\ sendEvent # Off) =>
          entered /\ transmitList # <<>> /\ EventOnTime

DrainIsOwed == drainState = "Draining" => Line # <<>>

PacketsDistinct ==
    \A i, j \in DOMAIN Line : Line[i].pkt = Line[j].pkt => i = j

HistoryInv == before \subseteq Held \X Held

IInv ==
    /\ TypeOK
    /\ SendIsArmed /\ SentOnTime /\ CallInv /\ DrainIsOwed
    /\ PacketsDistinct /\ HistoryInv /\ OvertakingIsJustified

-----------------------------------------------------------------------------
\* Every packet that is queued is sent, and taken.
EveryPacketSent ==
    \A p \in Pkt : p \in Held ~> (p \notin Held \/ panicked)
=============================================================================
