----------------------------- MODULE XBarProofs -----------------------------
(***************************************************************************)
(* The safety properties of a crossbar layer, for every number of source   *)
(* ports.  The inductive invariant IInv of XBar says that the layer's two  *)
(* waiting places hold, together, the line of refused sources in its       *)
(* order; the properties follow from it.                                   *)
(***************************************************************************)
EXTENDS XBar, SequenceLemmas, TLAPS

-----------------------------------------------------------------------------
(* The invariant.                                                          *)

\* What the invariant says of the waiting places, in terms of sets.
LEMMA LineFacts ==
    ASSUME IInv
    PROVE  /\ line \in Seq(Src) /\ IsInjective(line)
           /\ First \in Src \cup {None}
           /\ First = None => line = waitingForLayer /\ waitingForPeer = None /\ retrying = None
           /\ First # None => /\ First \in Src /\ line # <<>> /\ Head(line) = First
                              /\ Tail(line) = waitingForLayer
                              /\ First \notin ToSet(waitingForLayer)
           /\ IsInjective(waitingForLayer)
           /\ asking = ToSet(waitingForLayer) \cup ({First} \ {None})
           /\ asking \subseteq Src
           /\ {First} \ {None} = {waitingForPeer, retrying} \ {None}
<1> USE NoneAssumption
<1>1. line \in Seq(Src) /\ IsInjective(line) /\ First \in Src \cup {None}
  BY DEF IInv, TypeOK, LayerTypeOK, LineInv, First
<1>2. {First} \ {None} = {waitingForPeer, retrying} \ {None}
  BY DEF IInv, LineInv, First
<1>3. asking \subseteq Src
  BY <1>1 DEF asking, ToSet
<1>4. CASE First = None
  <2>1. line = waitingForLayer /\ waitingForPeer = None /\ retrying = None
    BY <1>4 DEF IInv, LineInv, First
  <2> QED
    BY <1>1, <1>2, <1>3, <1>4, <2>1 DEF asking
<1>5. CASE First # None
  <2>1. line # <<>> /\ Head(line) = First /\ Tail(line) = waitingForLayer
    BY <1>5 DEF IInv, LineInv
  <2>2. /\ First \notin ToSet(waitingForLayer) /\ IsInjective(waitingForLayer)
        /\ ToSet(line) = ToSet(waitingForLayer) \cup {First}
    BY <1>1, <2>1, TailLemma
  <2> QED
    BY <1>1, <1>2, <1>3, <1>5, <2>1, <2>2 DEF asking
<1> QED
  BY <1>4, <1>5

\* A source that is turned away joins the line, unless it is its first one.
LEMMA JoinLemma ==
    ASSUME IInv, NEW p \in Src, MaySend(p), JoinLine(p)
    PROVE  /\ line' \in Seq(Src) /\ IsInjective(line') /\ p \in ToSet(line')
           /\ state # "RETRY" => p \notin asking /\ line' = Append(line, p)
           /\ state = "RETRY" => p = First /\ line' = line
<1> USE NoneAssumption
<1>1. CASE state = "RETRY"
  <2>1. p = retrying /\ retrying # None /\ p = First
    BY <1>1 DEF MaySend, IInv, LineInv, First
  <2>2. p \in asking
    BY <2>1, LineFacts
  <2> QED
    BY <1>1, <2>1, <2>2, LineFacts DEF JoinLine, asking
<1>2. CASE state # "RETRY"
  <2>1. p \notin asking /\ line' = Append(line, p)
    BY <1>2 DEF MaySend, JoinLine
  <2>2. line' \in Seq(Src) /\ IsInjective(line') /\ p \in ToSet(line')
    BY <2>1, LineFacts, AppendLemma DEF asking
  <2> QED
    BY <1>2, <2>1, <2>2
<1> QED
  BY <1>1, <1>2

\* A source that gets its packet through, or has none any more, is the first
\* one of the line, or was not in it.
LEMMA LeaveLemma ==
    ASSUME IInv, NEW p \in Src, LeaveLine(p), p \notin asking \/ p = First
    PROVE  /\ p \in asking => line' = Tail(line) /\ p = Head(line)
           /\ p \notin asking => line' = line
           /\ line' \in Seq(Src) /\ IsInjective(line')
<1> USE NoneAssumption
<1>1. CASE p \notin asking
  <2>1. \A k \in DOMAIN line : line[k] # p
    BY <1>1 DEF asking, ToSet
  <2> QED
    BY <1>1, <2>1, LineFacts DEF LeaveLine
<1>2. CASE p \in asking
  <2>1. First # None /\ p = Head(line) /\ line # <<>>
    BY <1>2, LineFacts
  <2>2. PICK k \in DOMAIN line : line[k] = p /\ line' = RemoveAt(line, k)
    BY <1>2 DEF LeaveLine
  <2>3. k = 1
    BY <2>1, <2>2, LineFacts, TailLemma
  <2>4. line' = Tail(line)
    BY <2>1, <2>2, <2>3, LineFacts, RemoveFirstLemma
  <2>5. Tail(line) \in Seq(Src) /\ IsInjective(Tail(line))
    BY <2>1, LineFacts, TailLemma
  <2> QED
    BY <1>2, <2>1, <2>4, <2>5
<1> QED
  BY <1>1, <1>2

LEMMA InitIInv == Init => IInv
<1> SUFFICES ASSUME Init PROVE IInv
  OBVIOUS
<1>1. TypeOK
  <2>1. releaseEvent \in BOOLEAN /\ peerOwes \in BOOLEAN
    BY Zenon DEF Init, LayerInit
  <2>2. line \in Seq(Src) /\ waitingForLayer \in Seq(Src)
    BY DEF Init, LayerInit
  <2>3. /\ state \in {"IDLE", "BUSY", "RETRY"}
        /\ layerDrain \in {"Running", "Draining", "Drained"}
        /\ waitingForPeer \in Src \cup {None} /\ retrying \in Src \cup {None}
    BY DEF Init, LayerInit
  <2> QED
    BY <2>1, <2>2, <2>3 DEF TypeOK, LayerTypeOK
<1>2. LineInv
  BY DEF Init, LayerInit, LineInv, First, IsInjective
<1>3. NoLostWakeup
  BY DEF Init, LayerInit, NoLostWakeup, asking, ToSet
<1> QED
  BY <1>1, <1>2, <1>3 DEF IInv

\* A layer that lets a packet of p through is idle, with nobody waiting, or
\* is calling p.
LEMMA FreeLemma ==
    ASSUME IInv, NEW p \in Src, MaySend(p), ~Occupied
    PROVE  \/ /\ state = "IDLE" /\ First = None /\ asking = {}
              /\ line = <<>> /\ waitingForLayer = <<>>
           \/ state = "RETRY" /\ First = p /\ p \in asking
<1> USE NoneAssumption
<1>1. waitingForPeer = None /\ state \in {"IDLE", "RETRY"}
  BY DEF Occupied, IInv, TypeOK, LayerTypeOK
<1>2. CASE state = "RETRY"
  <2>1. First = p /\ First # None
    BY <1>1, <1>2 DEF MaySend, First
  <2> QED
    BY <1>2, <2>1, LineFacts
<1>3. CASE state = "IDLE"
  <2>1. retrying = None /\ ~peerOwes /\ ~releaseEvent /\ asking = {}
    BY <1>1, <1>3 DEF IInv, NoLostWakeup
  <2>2. First = None
    BY <1>1, <2>1 DEF First
  <2>3. line = <<>>
    BY <2>1, LineFacts, EmptyLemma DEF asking
  <2> QED
    BY <1>3, <2>1, <2>2, <2>3, LineFacts
<1> QED
  BY <1>1, <1>2, <1>3

-----------------------------------------------------------------------------
(* One lemma per action.                                                   *)

LEMMA SendToBusyLayerStep ==
    ASSUME IInv, NEW p \in Src, SendToBusyLayer(p)
    PROVE  IInv' /\ asking \subseteq asking'
<1> USE NoneAssumption
<1>0. TypeOK /\ LineInv /\ NoLostWakeup
  BY DEF IInv
<1>1. /\ MaySend(p) /\ JoinLine(p) /\ Occupied
      /\ waitingForLayer' = Append(waitingForLayer, p)
      /\ state' = state /\ waitingForPeer' = waitingForPeer
      /\ releaseEvent' = releaseEvent /\ retrying' = retrying
      /\ layerDrain' = layerDrain /\ peerOwes' = peerOwes
  BY DEF SendToBusyLayer, TryTimingRefused
<1>2. state # "RETRY"
  BY <1>0, <1>1 DEF Occupied, NoLostWakeup, LineInv
<1>3. /\ p \notin asking /\ line' = Append(line, p)
      /\ line' \in Seq(Src) /\ IsInjective(line')
  BY <1>1, <1>2, JoinLemma
<1>4. First' = First
  BY <1>1 DEF First
<1>5. TypeOK'
  <2>1. waitingForLayer' \in Seq(Src)
    BY <1>0, <1>1 DEF TypeOK, LayerTypeOK
  <2> QED
    BY <1>0, <1>1, <1>3, <2>1 DEF TypeOK, LayerTypeOK
<1>6. LineInv'
  <2>1. CASE First = None
    BY <1>0, <1>1, <1>3, <1>4, <2>1, LineFacts DEF LineInv
  <2>2. CASE First # None
    <3>1. line # <<>> /\ Head(line) = First /\ Tail(line) = waitingForLayer
      BY <2>2, LineFacts
    <3>2. /\ line' # <<>> /\ Head(line') = First
          /\ Tail(line') = Append(waitingForLayer, p)
      BY <1>3, <3>1, LineFacts, AppendLemma DEF asking
    <3> QED
      BY <1>0, <1>1, <1>3, <1>4, <2>2, <3>2 DEF LineInv
  <2> QED
    BY <2>1, <2>2
<1>7. asking' = asking \cup {p}
  BY <1>3, LineFacts, AppendLemma DEF asking
<1>8. NoLostWakeup'
  BY <1>0, <1>1 DEF NoLostWakeup, Occupied
<1> QED
  BY <1>5, <1>6, <1>7, <1>8 DEF IInv

LEMMA SendAcceptedStep ==
    ASSUME IInv, NEW p \in Src, SendAccepted(p)
    PROVE  IInv' /\ \A q \in asking \ asking' : q = Head(line)
<1> USE NoneAssumption
<1>0. TypeOK /\ LineInv /\ NoLostWakeup
  BY DEF IInv
<1>1. /\ MaySend(p) /\ ~peerOwes /\ ~Occupied /\ LeaveLine(p)
      /\ state' = "BUSY" /\ releaseEvent' = TRUE /\ retrying' = None
      /\ waitingForLayer' = waitingForLayer /\ waitingForPeer' = waitingForPeer
      /\ layerDrain' = layerDrain /\ peerOwes' = peerOwes
  BY DEF SendAccepted, SucceededTiming
<1>2. waitingForPeer = None /\ First' = None
  BY <1>1 DEF Occupied, First
<1>3. p \notin asking \/ p = First
  BY <1>1, FreeLemma
<1>4. /\ line' = waitingForLayer /\ line' \in Seq(Src) /\ IsInjective(line')
      /\ \A q \in asking \ asking' : q = Head(line)
  <2>1. /\ p \in asking => line' = Tail(line) /\ p = Head(line)
        /\ p \notin asking => line' = line
        /\ line' \in Seq(Src) /\ IsInjective(line')
    BY <1>1, <1>3, LeaveLemma
  <2>2. CASE p \notin asking
    BY <2>1, <2>2, <1>1, FreeLemma DEF asking
  <2>3. CASE p \in asking
    <3>1. First = p /\ First # None
      BY <1>3, <2>3
    <3>2. line # <<>> /\ Tail(line) = waitingForLayer
      BY <3>1, LineFacts
    <3>3. ToSet(line) = ToSet(Tail(line)) \cup {Head(line)}
      BY <3>2, LineFacts, TailLemma
    <3> QED
      BY <2>1, <2>3, <3>2, <3>3 DEF asking
  <2> QED
    BY <2>2, <2>3
<1>5. TypeOK'
  <2>1. releaseEvent' \in BOOLEAN /\ peerOwes' \in BOOLEAN
    BY <1>0, <1>1, Zenon DEF TypeOK
  <2> QED
    BY <1>0, <1>1, <1>4, <2>1 DEF TypeOK, LayerTypeOK
<1>6. LineInv'
  BY <1>1, <1>2, <1>4 DEF LineInv
<1>7. NoLostWakeup'
  BY <1>0, <1>1, <1>2 DEF NoLostWakeup
<1> QED
  BY <1>4, <1>5, <1>6, <1>7 DEF IInv

LEMMA SendRefusedStep ==
    ASSUME IInv, NEW p \in Src, SendRefused(p)
    PROVE  IInv' /\ asking \subseteq asking'
<1> USE NoneAssumption
<1>0. TypeOK /\ LineInv /\ NoLostWakeup
  BY DEF IInv
<1>1. /\ MaySend(p) /\ ~Occupied /\ JoinLine(p)
      /\ state' = "BUSY" /\ releaseEvent' = TRUE /\ retrying' = None
      /\ waitingForLayer' = waitingForLayer /\ waitingForPeer' = p
      /\ layerDrain' = layerDrain /\ peerOwes' = TRUE
  BY DEF SendRefused, FailedTiming
<1>2. p # None /\ First' = p
  BY <1>1 DEF First
<1>3. /\ line' \in Seq(Src) /\ IsInjective(line') /\ asking \subseteq asking'
      /\ line' # <<>> /\ Head(line') = p /\ Tail(line') = waitingForLayer
  <2>1. CASE state = "RETRY"
    BY <1>1, <1>2, <2>1, FreeLemma, JoinLemma, LineFacts DEF asking
  <2>2. CASE state # "RETRY"
    <3>1. line = <<>> /\ waitingForLayer = <<>> /\ asking = {}
      BY <1>1, <2>2, FreeLemma
    <3>2. /\ line' = Append(line, p) /\ p \notin asking
          /\ line' \in Seq(Src) /\ IsInjective(line')
      BY <1>1, <2>2, JoinLemma
    <3>3. line' # <<>> /\ Head(line') = p /\ Tail(line') = <<>>
      BY <3>1, <3>2
    <3> QED
      BY <3>1, <3>2, <3>3
  <2> QED
    BY <2>1, <2>2
<1>4. TypeOK'
  <2>1. releaseEvent' \in BOOLEAN /\ peerOwes' \in BOOLEAN
    BY <1>1, Zenon
  <2> QED
    BY <1>0, <1>1, <1>3, <2>1 DEF TypeOK, LayerTypeOK
<1>5. LineInv'
  BY <1>1, <1>2, <1>3 DEF LineInv
<1>6. NoLostWakeup'
  BY <1>1, <1>2 DEF NoLostWakeup
<1> QED
  BY <1>3, <1>4, <1>5, <1>6 DEF IInv

LEMMA IgnoreRetryStep ==
    ASSUME IInv, IgnoreRetry
    PROVE  IInv' /\ \A q \in asking \ asking' : q = Head(line)
<1> USE NoneAssumption
<1>0. TypeOK /\ LineInv /\ NoLostWakeup
  BY DEF IInv
<1>1. /\ state = "RETRY" /\ LeaveLine(retrying)
      /\ state' = "BUSY" /\ releaseEvent' = TRUE /\ retrying' = None
      /\ waitingForLayer' = waitingForLayer /\ waitingForPeer' = waitingForPeer
      /\ layerDrain' = layerDrain /\ peerOwes' = peerOwes
  BY DEF IgnoreRetry, RetryIgnored
<1>2. retrying # None /\ waitingForPeer = None /\ retrying \in Src
  BY <1>0, <1>1 DEF NoLostWakeup, LineInv, TypeOK, LayerTypeOK
<1>3. First = retrying /\ First' = None
  BY <1>1, <1>2 DEF First
<1>4. /\ line # <<>> /\ Head(line) = retrying /\ Tail(line) = waitingForLayer
      /\ retrying \in asking
  BY <1>2, <1>3, LineFacts
<1>5. line' = Tail(line) /\ line' \in Seq(Src) /\ IsInjective(line')
  BY <1>1, <1>2, <1>3, <1>4, LeaveLemma
<1>6. ToSet(line) = ToSet(Tail(line)) \cup {Head(line)}
  BY <1>4, LineFacts, TailLemma
<1>7. \A q \in asking \ asking' : q = Head(line)
  BY <1>5, <1>6 DEF asking
<1>8. TypeOK'
  <2>1. releaseEvent' \in BOOLEAN /\ peerOwes' \in BOOLEAN
    BY <1>0, <1>1, Zenon DEF TypeOK
  <2> QED
    BY <1>0, <1>1, <1>5, <2>1 DEF TypeOK, LayerTypeOK
<1>9. LineInv'
  BY <1>1, <1>2, <1>3, <1>4, <1>5 DEF LineInv
<1>10. NoLostWakeup'
  BY <1>0, <1>1, <1>2 DEF NoLostWakeup
<1> QED
  BY <1>7, <1>8, <1>9, <1>10 DEF IInv

LEMMA ReleaseStep ==
    ASSUME IInv, Release
    PROVE  /\ IInv' /\ asking' = asking
           /\ (layerDrain = "Draining" /\ layerDrain' = "Drained") => asking' = {}
<1> USE NoneAssumption
<1>0. TypeOK /\ LineInv /\ NoLostWakeup
  BY DEF IInv
<1>1. /\ releaseEvent /\ releaseEvent' = FALSE
      /\ waitingForPeer' = waitingForPeer
      /\ line' = line /\ peerOwes' = peerOwes
  BY DEF Release, ReleaseLayer
<1>2. state = "BUSY" /\ retrying = None
  BY <1>0, <1>1 DEF NoLostWakeup
<1>3. First = waitingForPeer
  BY <1>2 DEF First
<1>4. asking' = asking
  BY <1>1 DEF asking
<1>5. CASE waitingForLayer # <<>> /\ waitingForPeer = None
  <2>1. /\ state' = "RETRY" /\ retrying' = Head(waitingForLayer)
        /\ waitingForLayer' = Tail(waitingForLayer) /\ layerDrain' = layerDrain
    BY <1>5 DEF Release, ReleaseLayer, RetryWaiting
  <2>2. line = waitingForLayer
    BY <1>3, <1>5, LineFacts
  <2>3. Head(line) \in Src /\ Tail(line) \in Seq(Src)
    BY <1>5, <2>2, LineFacts, TailLemma
  <2>4. First' = Head(line) /\ First' # None
    BY <1>1, <1>5, <2>1, <2>2, <2>3 DEF First
  <2>5. TypeOK'
    <3>1. releaseEvent' \in BOOLEAN /\ peerOwes' \in BOOLEAN
      BY <1>0, <1>1, Zenon DEF TypeOK
    <3> QED
      BY <1>0, <1>1, <2>1, <2>2, <2>3, <3>1 DEF TypeOK, LayerTypeOK
  <2>6. LineInv'
    BY <1>0, <1>1, <1>5, <2>1, <2>2, <2>4 DEF LineInv
  <2>7. NoLostWakeup'
    BY <1>0, <1>1, <1>5, <2>1, <2>2, <2>3 DEF NoLostWakeup
  <2> QED
    BY <1>4, <2>1, <2>5, <2>6, <2>7 DEF IInv
<1>6. CASE ~(waitingForLayer # <<>> /\ waitingForPeer = None)
  <2>1. /\ state' = "IDLE" /\ retrying' = retrying
        /\ waitingForLayer' = waitingForLayer
        /\ layerDrain' = IF /\ layerDrain = "Draining"
                            /\ waitingForLayer = <<>>
                            /\ waitingForPeer = None
                         THEN "Drained" ELSE layerDrain
    BY <1>6 DEF Release, ReleaseLayer
  <2>2. waitingForPeer = None => asking = {}
    <3>1. SUFFICES ASSUME waitingForPeer = None PROVE asking = {}
      OBVIOUS
    <3>2. line = <<>>
      BY <1>3, <1>6, <3>1, LineFacts
    <3> QED
      BY <3>2 DEF asking, ToSet
  <2>3. First' = First
    BY <1>1, <2>1 DEF First
  <2>4. TypeOK'
    <3>1. releaseEvent' \in BOOLEAN /\ peerOwes' \in BOOLEAN
      BY <1>0, <1>1, Zenon DEF TypeOK
    <3> QED
      BY <1>0, <1>1, <2>1, <3>1 DEF TypeOK, LayerTypeOK
  <2>5. LineInv'
    BY <1>0, <1>1, <2>1, <2>3 DEF LineInv
  <2>6. NoLostWakeup'
    <3>1. (asking' # {} \/ layerDrain' = "Draining") => peerOwes'
      BY <1>0, <1>1, <1>4, <1>6, <2>1, <2>2 DEF NoLostWakeup
    <3> QED
      BY <1>0, <1>1, <1>2, <2>1, <3>1 DEF NoLostWakeup
  <2>7. (layerDrain = "Draining" /\ layerDrain' = "Drained") => asking' = {}
    BY <1>4, <2>1, <2>2
  <2> QED
    BY <1>4, <2>4, <2>5, <2>6, <2>7 DEF IInv
<1> QED
  BY <1>5, <1>6

LEMMA PeerRetryStep ==
    ASSUME IInv, PeerRetry
    PROVE  IInv' /\ asking' = asking
<1> USE NoneAssumption
<1> DEFINE queue == <<waitingForPeer>> \o waitingForLayer
<1>0. TypeOK /\ LineInv /\ NoLostWakeup
  BY DEF IInv
<1>1. /\ peerOwes /\ peerOwes' = FALSE /\ state # "RETRY"
      /\ waitingForPeer' = None /\ line' = line
      /\ releaseEvent' = releaseEvent /\ layerDrain' = layerDrain
  BY DEF PeerRetry, RecvRetry
<1>2. waitingForPeer # None /\ retrying = None /\ First = waitingForPeer
  BY <1>0, <1>1 DEF NoLostWakeup, LineInv, First
<1>3. /\ line # <<>> /\ Head(line) = waitingForPeer
      /\ Tail(line) = waitingForLayer
  BY <1>2, LineFacts
<1>4. queue = line
  BY <1>3, LineFacts, TailLemma
<1>5. asking' = asking
  BY <1>1 DEF asking
<1>6. Head(line) \in Src /\ Tail(line) \in Seq(Src)
  BY <1>3, LineFacts, TailLemma
<1>7. CASE state = "IDLE"
  <2>1. /\ state' = "RETRY" /\ retrying' = Head(line)
        /\ waitingForLayer' = Tail(line)
    BY <1>4, <1>7 DEF PeerRetry, RecvRetry, RetryWaiting
  <2>2. First' = Head(line) /\ First' # None
    BY <1>1, <1>6, <2>1 DEF First
  <2>3. TypeOK'
    <3>1. releaseEvent' \in BOOLEAN /\ peerOwes' \in BOOLEAN
      BY <1>0, <1>1, Zenon DEF TypeOK, LayerTypeOK
    <3> QED
      BY <1>0, <1>1, <1>6, <2>1, <3>1 DEF TypeOK, LayerTypeOK
  <2>4. LineInv'
    BY <1>0, <1>1, <1>3, <2>1, <2>2 DEF LineInv
  <2>5. NoLostWakeup'
    BY <1>0, <1>1, <1>6, <1>7, <2>1 DEF NoLostWakeup
  <2> QED
    BY <1>5, <2>3, <2>4, <2>5 DEF IInv
<1>8. CASE state # "IDLE"
  <2>1. state' = state /\ retrying' = retrying /\ waitingForLayer' = line
    BY <1>4, <1>8 DEF PeerRetry, RecvRetry
  <2>2. state = "BUSY" /\ releaseEvent
    BY <1>0, <1>1, <1>8 DEF TypeOK, LayerTypeOK, NoLostWakeup
  <2>3. First' = None
    BY <1>1, <1>2, <2>1 DEF First
  <2>4. TypeOK'
    <3>1. releaseEvent' \in BOOLEAN /\ peerOwes' \in BOOLEAN
      BY <1>0, <1>1, Zenon DEF TypeOK, LayerTypeOK
    <3> QED
      BY <1>0, <1>1, <2>1, <3>1 DEF TypeOK, LayerTypeOK
  <2>5. LineInv'
    BY <1>0, <1>1, <2>1, <2>3 DEF LineInv
  <2>6. NoLostWakeup'
    BY <1>0, <1>1, <1>2, <2>1, <2>2 DEF NoLostWakeup
  <2> QED
    BY <1>5, <2>4, <2>5, <2>6 DEF IInv
<1> QED
  BY <1>7, <1>8

\* Draining and resuming touch the drain state only.
LEMMA DrainStep ==
    ASSUME IInv, Drain \/ Resume
    PROVE  IInv' /\ asking' = asking
<1>0. TypeOK /\ LineInv /\ NoLostWakeup
  BY DEF IInv
<1>1. /\ UNCHANGED <<state, waitingForLayer, waitingForPeer, releaseEvent,
                     retrying, line, peerOwes>>
      /\ layerDrain' \in {"Running", "Draining", "Drained"}
      /\ layerDrain' = "Draining" => state # "IDLE"
  BY DEF Drain, Resume, DrainLayer, ResumeLayer
<1>2. First' = First /\ asking' = asking
  BY <1>1 DEF First, asking
<1>3. TypeOK'
  BY <1>0, <1>1 DEF TypeOK, LayerTypeOK
<1>4. LineInv'
  BY <1>0, <1>1, <1>2 DEF LineInv
<1>5. NoLostWakeup'
  BY <1>0, <1>1, <1>2 DEF NoLostWakeup, TypeOK, LayerTypeOK
<1> QED
  BY <1>2, <1>3, <1>4, <1>5 DEF IInv

LEMMA StutterStep ==
    ASSUME IInv, UNCHANGED vars
    PROVE  IInv' /\ asking' = asking
<1>1. First' = First /\ asking' = asking
  BY DEF vars, layerVars, First, asking
<1>2. TypeOK' /\ LineInv' /\ NoLostWakeup'
  BY <1>1 DEF vars, layerVars, IInv, TypeOK, LayerTypeOK, LineInv, NoLostWakeup
<1> QED
  BY <1>1, <1>2 DEF IInv

LEMMA NextIInv == IInv /\ [Next]_vars => IInv'
<1> SUFFICES ASSUME IInv, [Next]_vars PROVE IInv'
  OBVIOUS
<1>1. CASE \E p \in Src : SendToBusyLayer(p) \/ SendAccepted(p) \/ SendRefused(p)
  BY <1>1, SendToBusyLayerStep, SendAcceptedStep, SendRefusedStep
<1>2. CASE IgnoreRetry
  BY <1>2, IgnoreRetryStep
<1>3. CASE Release
  BY <1>3, ReleaseStep
<1>4. CASE PeerRetry
  BY <1>4, PeerRetryStep
<1>5. CASE Drain \/ Resume
  BY <1>5, DrainStep
<1>6. CASE UNCHANGED vars
  BY <1>6, StutterStep
<1> QED
  BY <1>1, <1>2, <1>3, <1>4, <1>5, <1>6 DEF Next

-----------------------------------------------------------------------------
(* The theorems.                                                           *)

\* The inductive invariant holds of every layer (BaseXBar::Layer).
THEOREM LayerInvariance == Spec => []IInv
<1>1. Init => IInv
  BY InitIInv
<1>2. IInv /\ [Next]_vars => IInv'
  BY NextIInv
<1> QED
  BY <1>1, <1>2, PTL DEF Spec

\* The layer's members have their types.
THEOREM LayerTypeCorrect == Spec => []TypeOK
<1>1. IInv => TypeOK
  BY DEF IInv
<1> QED
  BY <1>1, LayerInvariance, PTL

\* Every refused source is remembered in exactly one place: the assertion of
\* tryTiming that a port is not waiting already cannot fail.
THEOREM NobodyForgotten == Spec => []WaitersAreKnown
<1>1. ASSUME IInv PROVE WaitersAreKnown
  <2> USE NoneAssumption
  <2>1. /\ IsInjective(waitingForLayer)
        /\ asking = ToSet(waitingForLayer) \cup ({waitingForPeer, retrying} \ {None})
    BY <1>1, LineFacts
  <2>2. None \notin ToSet(waitingForLayer)
    BY <1>1, LineFacts
  <2>3. waitingForPeer # None => retrying = None
    BY <1>1 DEF IInv, LineInv
  <2>4. /\ waitingForPeer \notin ToSet(waitingForLayer)
        /\ retrying \notin ToSet(waitingForLayer)
    BY <1>1, <2>2, <2>3, LineFacts DEF First
  <2> QED
    BY <2>1, <2>3, <2>4 DEF WaitersAreKnown
<1> QED
  BY <1>1, LayerInvariance, PTL

\* While somebody waits, or a drain does, releaseLayer, recvRetry or a call of
\* sendRetry is still to come.
THEOREM WakeupIsOwed == Spec => []NoLostWakeup
<1>1. IInv => NoLostWakeup
  BY DEF IInv
<1> QED
  BY <1>1, LayerInvariance, PTL

\* Sources are served in the order in which they were refused, also when
\* failedTiming and recvRetry move one of them between the waiting places.
THEOREM FirstRefusedFirstServed == Spec => ServedInOrder
<1>1. ASSUME IInv, [Next]_vars
      PROVE  [\A p \in asking \ asking' : p = Head(line)]_vars
  <2>1. CASE \E p \in Src : SendToBusyLayer(p) \/ SendAccepted(p) \/ SendRefused(p)
    BY <1>1, <2>1, SendToBusyLayerStep, SendAcceptedStep, SendRefusedStep
  <2>2. CASE IgnoreRetry
    BY <1>1, <2>2, IgnoreRetryStep
  <2>3. CASE Release
    BY <1>1, <2>3, ReleaseStep
  <2>4. CASE PeerRetry
    BY <1>1, <2>4, PeerRetryStep
  <2>5. CASE Drain \/ Resume
    BY <1>1, <2>5, DrainStep
  <2> QED
    BY <1>1, <2>1, <2>2, <2>3, <2>4, <2>5 DEF Next
<1> QED
  BY <1>1, LayerInvariance, PTL DEF Spec, ServedInOrder

\* releaseLayer signals the end of a drain only when nobody waits.
THEOREM SignalledWhenQuiet == Spec => SignalMeansQuiet
<1>1. ASSUME IInv, [Next]_vars
      PROVE  [layerDrain = "Draining" /\ layerDrain' = "Drained" => asking' = {}]_vars
  <2>1. CASE \E p \in Src : SendToBusyLayer(p) \/ SendAccepted(p) \/ SendRefused(p)
    BY <2>1 DEF SendToBusyLayer, TryTimingRefused, SendAccepted, SucceededTiming,
                SendRefused, FailedTiming
  <2>2. CASE IgnoreRetry
    BY <2>2 DEF IgnoreRetry, RetryIgnored
  <2>3. CASE Release
    BY <1>1, <2>3, ReleaseStep
  <2>4. CASE PeerRetry
    BY <2>4 DEF PeerRetry, RecvRetry
  <2>5. CASE Drain \/ Resume
    BY <2>5 DEF Drain, Resume, DrainLayer, ResumeLayer
  <2> QED
    BY <1>1, <2>1, <2>2, <2>3, <2>4, <2>5 DEF Next
<1> QED
  BY <1>1, LayerInvariance, PTL DEF Spec, SignalMeansQuiet
=============================================================================
