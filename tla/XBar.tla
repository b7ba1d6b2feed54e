-------------------------------- MODULE XBar --------------------------------
(***************************************************************************)
(* A crossbar layer between source ports and a destination that obey the   *)
(* timing protocol: a source that is refused keeps its packet and sends    *)
(* nothing more until it is called back, and a destination that refuses    *)
(* calls back later.  (CoherentXBar::recvTimingReq without snooping caches *)
(* and the retry callbacks of the ports.)                                  *)
(***************************************************************************)
EXTENDS XBarLayer

VARIABLES
    line,      \* sources that hold a refused packet, in the order in which
               \* they were first refused
    peerOwes   \* the destination refused a packet and has not called back

vars == <<layerVars, line, peerOwes>>

asking == ToSet(line)

Init ==
    /\ LayerInit
    /\ line = <<>>
    /\ peerOwes = FALSE

\* A source may call when it waits for nothing, or from within its retry.
MaySend(p) == IF state = "RETRY" THEN retrying = p ELSE p \notin asking

JoinLine(p) == line' = IF p \in asking THEN line ELSE Append(line, p)

LeaveLine(p) ==
    \/ \E k \in DOMAIN line : line[k] = p /\ line' = RemoveAt(line, k)
    \/ p \notin asking /\ UNCHANGED line

\* The layer turns the packet away.
SendToBusyLayer(p) ==
    /\ MaySend(p)
    /\ TryTimingRefused(p)
    /\ JoinLine(p)
    /\ UNCHANGED peerOwes

\* The destination takes it.
SendAccepted(p) ==
    /\ MaySend(p) /\ ~peerOwes
    /\ SucceededTiming(p)
    /\ LeaveLine(p)
    /\ UNCHANGED peerOwes

\* The destination refuses it.
SendRefused(p) ==
    /\ MaySend(p)
    /\ FailedTiming(p)
    /\ JoinLine(p)
    /\ peerOwes' = TRUE

\* The called source has nothing to send any more.
IgnoreRetry ==
    /\ RetryIgnored
    /\ LeaveLine(retrying)
    /\ UNCHANGED peerOwes

Release == ReleaseLayer /\ UNCHANGED <<line, peerOwes>>

PeerRetry ==
    /\ peerOwes
    /\ RecvRetry
    /\ peerOwes' = FALSE
    /\ UNCHANGED line

Drain == DrainLayer /\ UNCHANGED <<line, peerOwes>>

Resume == ResumeLayer /\ UNCHANGED <<line, peerOwes>>

Next ==
    \/ \E p \in Src : SendToBusyLayer(p) \/ SendAccepted(p) \/ SendRefused(p)
    \/ IgnoreRetry
    \/ Release
    \/ PeerRetry
    \/ Drain
    \/ Resume

Spec == Init /\ [][Next]_vars

(***************************************************************************)
(* The release event runs, the destination calls back, a call returns, and *)
(* the destination does not refuse one source for ever.                    *)
(***************************************************************************)
Fairness ==
    /\ WF_vars(Release)
    /\ WF_vars(PeerRetry)
    /\ WF_vars(IgnoreRetry)
    /\ \A p \in Src : SF_vars(retrying = p /\ (SendAccepted(p) \/ IgnoreRetry))

FairSpec == Spec /\ Fairness

-----------------------------------------------------------------------------
TypeOK ==
    /\ LayerTypeOK
    /\ line \in Seq(Src)
    /\ peerOwes \in BOOLEAN

(***************************************************************************)
(* Every source that holds a refused packet is written down in exactly one *)
(* place, and nobody else is: nobody is forgotten, called twice, or called *)
(* without having been refused ("the port should not be waiting already",  *)
(* assert in tryTiming).                                                   *)
(***************************************************************************)
WaitersAreKnown ==
    /\ IsInjective(waitingForLayer)
    /\ asking = ToSet(waitingForLayer) \cup ({waitingForPeer, retrying} \ {None})
    /\ waitingForPeer \notin ToSet(waitingForLayer)
    /\ retrying \notin ToSet(waitingForLayer)
    /\ waitingForPeer # None => retrying = None

(***************************************************************************)
(* While somebody waits, or the drain manager was told to wait, something  *)
(* is under way that will call: the release event, the destination's       *)
(* callback, or a retry.  So an idle layer never lets a newcomer pass      *)
(* somebody who waits, and releaseLayer will signal the end of the drain.  *)
(***************************************************************************)
NoLostWakeup ==
    /\ (asking # {} \/ layerDrain = "Draining") =>
          releaseEvent \/ peerOwes \/ state = "RETRY"
    /\ peerOwes <=> waitingForPeer # None
    /\ releaseEvent <=> state = "BUSY"
    /\ retrying # None <=> state = "RETRY"

\* A layer that signals the end of a drain has nobody waiting.
SignalMeansQuiet ==
    [][layerDrain = "Draining" /\ layerDrain' = "Drained" => asking' = {}]_vars

(***************************************************************************)
(* Sources are served in the order in which they were refused: a waiting   *)
(* source that stands behind another one in line is not served before it,  *)
(* also when the destination refuses the one in front.                     *)
(***************************************************************************)
ServedInOrder ==
    [][\A p \in asking \ asking' : p = Head(line)]_vars

\* Every source that was refused is called back and gets its packet through.
EveryWaiterServed == \A p \in Src : p \in asking ~> p \notin asking

-----------------------------------------------------------------------------
(***************************************************************************)
(* The layer's bookkeeping is the line itself: its first one is the port   *)
(* that waits for the destination or is being called, the others are       *)
(* waitingForLayer, in their order; without such a port the line is        *)
(* waitingForLayer.  This is what makes the properties inductive.          *)
(***************************************************************************)
First == IF waitingForPeer # None THEN waitingForPeer ELSE retrying

LineInv ==
    /\ waitingForPeer # None => retrying = None
    /\ IF First = None THEN line = waitingForLayer
                       ELSE /\ line # <<>>
                            /\ First = Head(line)
                            /\ waitingForLayer = Tail(line)
    /\ IsInjective(line)

IInv == TypeOK /\ LineInv /\ NoLostWakeup
=============================================================================
