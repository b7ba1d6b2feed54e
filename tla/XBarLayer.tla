----------------------------- MODULE XBarLayer ------------------------------
(***************************************************************************)
(* One layer of the crossbar (BaseXBar::Layer, mem/xbar.cc): the arbiter   *)
(* in front of one destination port.  A source port that is turned away    *)
(* because the layer is occupied waits in waitingForLayer; one whose       *)
(* packet the destination refused is waitingForPeer; both are called back. *)
(* The module has the layer's variables and one action per function of the *)
(* layer, for the modules that put ports around it.                        *)
(*                                                                         *)
(* How long the layer is occupied is left open: releaseEvent says that the *)
(* event is scheduled.  `retrying` is the port whose sendRetry call is     *)
(* under way, in the RETRY state; as the code's comment says, the layer is *)
(* called by no other port during that call.                               *)
(***************************************************************************)
EXTENDS Sequences, SequencesExt

CONSTANTS
    Src,  \* the source ports
    None  \* no port (NULL)

ASSUME NoneAssumption == None \notin Src

VARIABLES
    state,            \* "IDLE", "BUSY" or "RETRY"
    waitingForLayer,  \* sequence of source ports
    waitingForPeer,   \* a source port, or None
    releaseEvent,     \* the event is scheduled
    retrying,         \* the port being called, or None
    layerDrain        \* drain state of the layer

layerVars == <<state, waitingForLayer, waitingForPeer, releaseEvent, retrying,
               layerDrain>>

LayerInit ==
    /\ state = "IDLE"
    /\ waitingForLayer = <<>>
    /\ waitingForPeer = None
    /\ releaseEvent = FALSE
    /\ retrying = None
    /\ layerDrain = "Running"

\* tryTiming turns away whoever calls.
Occupied == state = "BUSY" \/ waitingForPeer # None

\* tryTiming returns false.
TryTimingRefused(p) ==
    /\ Occupied
    /\ waitingForLayer' = Append(waitingForLayer, p)
    /\ UNCHANGED <<state, waitingForPeer, releaseEvent, retrying, layerDrain>>

\* tryTiming returns true, the destination takes the packet, and
\* succeededTiming occupies the layer.
SucceededTiming(p) ==
    /\ ~Occupied
    /\ state' = "BUSY" /\ releaseEvent' = TRUE
    /\ retrying' = None
    /\ UNCHANGED <<waitingForLayer, waitingForPeer, layerDrain>>

\* Faulty variant: the source is not remembered.
FailedTiming_Forgotten(p) ==
    /\ ~Occupied
    /\ state' = "BUSY" /\ releaseEvent' = TRUE
    /\ retrying' = None
    /\ UNCHANGED <<waitingForLayer, waitingForPeer, layerDrain>>

\* tryTiming returns true, the destination refuses the packet, and
\* failedTiming occupies the layer and remembers the source.
FailedTiming(p) ==
    /\ ~Occupied
    /\ state' = "BUSY" /\ releaseEvent' = TRUE
    /\ waitingForPeer' = p
    /\ retrying' = None
    /\ UNCHANGED <<waitingForLayer, layerDrain>>

\* retryWaiting, up to and including the call of sendRetry.
RetryWaiting(queue) ==
    /\ state' = "RETRY"
    /\ retrying' = Head(queue)
    /\ waitingForLayer' = Tail(queue)

\* Faulty variants: nobody is called although the layer is free; the drain
\* manager is not told.
ReleaseLayer_NoRetry ==
    /\ state # "RETRY" /\ releaseEvent
    /\ releaseEvent' = FALSE
    /\ state' = "IDLE"
    /\ layerDrain' = IF /\ layerDrain = "Draining"
                        /\ waitingForLayer = <<>> /\ waitingForPeer = None
                     THEN "Drained" ELSE layerDrain
    /\ UNCHANGED <<waitingForLayer, waitingForPeer, retrying>>

ReleaseLayer_NoSignal ==
    /\ state # "RETRY" /\ releaseEvent
    /\ releaseEvent' = FALSE
    /\ IF waitingForLayer # <<>> /\ waitingForPeer = None
       THEN RetryWaiting(waitingForLayer)
       ELSE state' = "IDLE" /\ UNCHANGED <<waitingForLayer, retrying>>
    /\ UNCHANGED <<waitingForPeer, layerDrain>>

ReleaseLayer_SignalEarly ==
    /\ state # "RETRY" /\ releaseEvent
    /\ releaseEvent' = FALSE
    /\ IF waitingForLayer # <<>> /\ waitingForPeer = None
       THEN RetryWaiting(waitingForLayer) /\ UNCHANGED layerDrain
       ELSE /\ state' = "IDLE" /\ UNCHANGED <<waitingForLayer, retrying>>
            /\ layerDrain' = IF layerDrain = "Draining" THEN "Drained"
                                                        ELSE layerDrain
    /\ UNCHANGED waitingForPeer

\* releaseLayer: call the first one waiting, unless the destination has yet
\* to call; with nobody waiting at all, a drain is complete.
ReleaseLayer ==
    /\ state # "RETRY" /\ releaseEvent
    /\ releaseEvent' = FALSE
    /\ IF waitingForLayer # <<>> /\ waitingForPeer = None
       THEN RetryWaiting(waitingForLayer) /\ UNCHANGED layerDrain
       ELSE /\ state' = "IDLE" /\ UNCHANGED <<waitingForLayer, retrying>>
            /\ layerDrain' = IF /\ layerDrain = "Draining"
                                /\ waitingForLayer = <<>>
                                /\ waitingForPeer = None
                             THEN "Drained" ELSE layerDrain
    /\ UNCHANGED waitingForPeer

\* The rest of retryWaiting, when the port did not send from within the call.
RetryIgnored ==
    /\ state = "RETRY"
    /\ state' = "BUSY" /\ releaseEvent' = TRUE
    /\ retrying' = None
    /\ UNCHANGED <<waitingForLayer, waitingForPeer, layerDrain>>

\* Faulty variants: waitingForPeer is cleared before it is queued; the port
\* that was refused goes to the end of the queue.
RecvRetry_ClearedFirst ==
    LET queue == <<None>> \o waitingForLayer
    IN  /\ state # "RETRY"
        /\ waitingForPeer' = None
        /\ IF state = "IDLE"
           THEN RetryWaiting(queue)
           ELSE waitingForLayer' = queue /\ UNCHANGED <<state, retrying>>
        /\ UNCHANGED <<releaseEvent, layerDrain>>

RecvRetry_ToTheBack ==
    LET queue == Append(waitingForLayer, waitingForPeer)
    IN  /\ state # "RETRY"
        /\ waitingForPeer' = None
        /\ IF state = "IDLE"
           THEN RetryWaiting(queue)
           ELSE waitingForLayer' = queue /\ UNCHANGED <<state, retrying>>
        /\ UNCHANGED <<releaseEvent, layerDrain>>

\* recvRetry: the port that was refused goes to the front of the queue, and
\* is called at once if the layer is idle.
RecvRetry ==
    LET queue == <<waitingForPeer>> \o waitingForLayer
    IN  /\ state # "RETRY"
        /\ waitingForPeer' = None
        /\ IF state = "IDLE"
           THEN RetryWaiting(queue)
           ELSE waitingForLayer' = queue /\ UNCHANGED <<state, retrying>>
        /\ UNCHANGED <<releaseEvent, layerDrain>>

\* dmDrain() and drain(), of a layer that is not draining already.
DrainLayer ==
    /\ state # "RETRY"
    /\ layerDrain # "Draining"
    /\ layerDrain' = IF state # "IDLE" THEN "Draining" ELSE "Drained"
    /\ UNCHANGED <<state, waitingForLayer, waitingForPeer, releaseEvent, retrying>>

\* dmDrainResume().
ResumeLayer ==
    /\ state # "RETRY"
    /\ layerDrain = "Drained"
    /\ layerDrain' = "Running"
    /\ UNCHANGED <<state, waitingForLayer, waitingForPeer, releaseEvent, retrying>>

-----------------------------------------------------------------------------
LayerTypeOK ==
    /\ state \in {"IDLE", "BUSY", "RETRY"}
    /\ waitingForLayer \in Seq(Src)
    /\ waitingForPeer \in Src \cup {None}
    /\ releaseEvent \in BOOLEAN
    /\ retrying \in Src \cup {None}
    /\ layerDrain \in {"Running", "Draining", "Drained"}
=============================================================================
