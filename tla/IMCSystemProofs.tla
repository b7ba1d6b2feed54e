-------------------------- MODULE IMCSystemProofs ---------------------------
(***************************************************************************)
(* The safety properties of the whole system, for every number of CPUs,    *)
(* every program and every size of the routing table.  The types hold in   *)
(* every system; that no assertion fails, that retries and responses are   *)
(* where they are waited for, that IMC instructions take effect and that a *)
(* drained system is quiet is proved of the systems whose memory suits     *)
(* their programs (Suited).  IMCSystem has the inductive invariants.       *)
(***************************************************************************)
EXTENDS IMCSystem, SequenceLemmas, TLAPS

-----------------------------------------------------------------------------
(* The ports and the stages of a handler.                                  *)

\* A CPU has two ports, and shares them with nobody.
LEMMA PortFacts ==
    /\ \A c \in CPU : iPort(c) \in Src /\ dPort(c) \in Src
    /\ \A c, d \in CPU : iPort(c) # dPort(d)
    /\ \A c, d \in CPU : iPort(c) = iPort(d) => c = d
    /\ \A c, d \in CPU : dPort(c) = dPort(d) => c = d
    /\ \A p \in Src : \E c \in CPU : p[1] = c /\ (p = iPort(c) \/ p = dPort(c))
BY PortsAssumption DEF iPort, dPort

Stages == {"fetch", "execute", "microop", "second"}

\* A handler is at one stage, of one CPU.
LEMMA StageFacts ==
    /\ \A d \in CPU : StageIn(None, d) = "none"
    /\ \A c \in CPU, s \in Stages : /\ <<s, c>> # None
                                    /\ StageIn(<<s, c>>, c) = s
                                    /\ \A d \in CPU \ {c} : StageIn(<<s, c>>, d) = "none"
<1>1. ASSUME NEW c \in CPU, NEW s \in Stages
      PROVE  <<s, c>> # None
  <2>1. <<s, c>> \in Stages \X CPU
    OBVIOUS
  <2> QED
    BY <2>1, NoneIsNothing, Zenon DEF Stages
<1>2. ASSUME NEW c \in CPU, NEW s \in Stages
      PROVE  /\ StageIn(<<s, c>>, c) = s
             /\ \A d \in CPU \ {c} : StageIn(<<s, c>>, d) = "none"
  BY <1>1 DEF StageIn
<1>3. \A d \in CPU : StageIn(None, d) = "none"
  BY DEF StageIn
<1> QED
  BY <1>1, <1>2, <1>3

-----------------------------------------------------------------------------
(* Types.                                                                  *)

LEMMA InitTypeInv == Init => TypeInv
<1> SUFFICES ASSUME Init PROVE TypeInv
  OBVIOUS
<1>1. LayerTypeOK
  <2>1. releaseEvent \in BOOLEAN
    BY Zenon DEF Init, LayerInit
  <2> QED
    BY <2>1 DEF Init, LayerInit, LayerTypeOK
<1>2. /\ memBusy \in BOOLEAN /\ memRetry \in BOOLEAN /\ lost \in BOOLEAN
  BY Zenon DEF Init
<1>6. fetchEvent \in [CPU -> BOOLEAN]
  BY DEF Init
<1>3. /\ routeTo \in [Src -> Nat] /\ pending \in [Src -> Nat] /\ queued \in [Src -> Nat]
      /\ outstanding \in [CPU -> 0 .. 2]
      /\ status \in [CPU -> {"Idle", "Running", "Faulting",
                           "IcacheRetry", "IcacheWaitResponse",
                           "DcacheRetry", "DcacheWaitResponse"}]
      /\ dcachePkt \in [CPU -> {"whole", "low", "high", None}]
      /\ drainState \in [Drainable -> {"Running", "Draining", "Drained"}]
  BY DEF Init
<1>4. TypeOK
  BY <1>1, <1>2, <1>3, <1>6 DEF Init, TypeOK
<1>5. PathInv
  BY DEF Init, PathInv
<1> QED
  BY <1>4, <1>5 DEF TypeInv

\* Steps that leave the layer, or all of the path to the memory, alone.
LEMMA SameLayerTypes ==
    ASSUME LayerTypeOK, UNCHANGED layerVars
    PROVE  LayerTypeOK'
BY DEF LayerTypeOK, layerVars

LEMMA SamePathTypes ==
    ASSUME TypeInv, UNCHANGED <<layerVars, routeTo, memVars>>
    PROVE  /\ LayerTypeOK' /\ PathInv' /\ routeTo' \in [Src -> Nat]
           /\ pending' \in [Src -> Nat] /\ queued' \in [Src -> Nat]
           /\ memBusy' \in BOOLEAN /\ memRetry' \in BOOLEAN /\ respRetry' \subseteq CPU
<1>1. LayerTypeOK'
  BY SameLayerTypes DEF TypeInv, TypeOK
<1>2. PathInv'
  BY DEF TypeInv, PathInv, layerVars, memVars, respVars
<1> QED
  BY <1>1, <1>2 DEF TypeInv, TypeOK, memVars, respVars

\* What sendTimingReq does to the types, whatever its result.
LEMMA SendTypes ==
    ASSUME TypeInv, NEW p \in Src,
           AcceptedRequest(p) \/ AcceptedIMC(p) \/ Refused(p)
    PROVE  /\ LayerTypeOK' /\ routeTo' \in [Src -> Nat]
           /\ pending' \in [Src -> Nat] /\ queued' \in [Src -> Nat]
           /\ memBusy' \in BOOLEAN /\ memRetry' \in BOOLEAN
           /\ respRetry' \subseteq CPU
           /\ failure = None => failure' \in {None, "already waiting", "routing table"}
           /\ PathInv'
<1>0. /\ LayerTypeOK /\ routeTo \in [Src -> Nat] /\ pending \in [Src -> Nat]
      /\ queued \in [Src -> Nat] /\ memBusy \in BOOLEAN /\ memRetry \in BOOLEAN
      /\ respRetry \subseteq CPU /\ PathInv
  BY DEF TypeInv, TypeOK
<1>1. CASE BusyLayer(p)
  <2>1. /\ waitingForLayer' = Append(waitingForLayer, p)
        /\ UNCHANGED <<state, waitingForPeer, releaseEvent, retrying, layerDrain>>
        /\ UNCHANGED <<routeTo, memBusy, memRetry, pending, queued, respRetry>>
    BY <1>1 DEF BusyLayer, TryTimingRefused, memVars, respVars
  <2>2. failure' \in {None, "already waiting"}
    BY <1>1 DEF BusyLayer
  <2>3. waitingForLayer' \in Seq(Src)
    BY <1>0, <2>1 DEF LayerTypeOK
  <2>4. LayerTypeOK'
    BY <1>0, <2>1, <2>3 DEF LayerTypeOK
  <2>5. PathInv'
    BY <1>0, <2>1 DEF PathInv
  <2> QED
    BY <1>0, <2>1, <2>2, <2>4, <2>5
<1>2. CASE BusyMemory(p)
  <2>1. memRetry' \in BOOLEAN /\ releaseEvent' \in BOOLEAN
    BY <1>2, Zenon DEF BusyMemory, FailedTiming
  <2>2. /\ state' = "BUSY" /\ waitingForPeer' = p /\ retrying' = None
        /\ UNCHANGED <<waitingForLayer, layerDrain, routeTo, memBusy, failure>>
        /\ UNCHANGED <<pending, queued, respRetry>>
    BY <1>2 DEF BusyMemory, FailedTiming, respVars
  <2>3. LayerTypeOK'
    BY <1>0, <2>1, <2>2 DEF LayerTypeOK
  <2>4. PathInv'
    BY <1>0, <2>2, NoneAssumption DEF PathInv
  <2> QED
    BY <1>0, <2>1, <2>2, <2>3, <2>4
<1>3. CASE AcceptedRequest(p) \/ AcceptedIMC(p)
  <2>1. Accepted(p) /\ (pending' = pending \/ pending' = [pending EXCEPT ![p] = @ + 1])
    BY <1>3 DEF AcceptedRequest, AcceptedIMC
  <2>2. /\ state' = "BUSY" /\ retrying' = None
        /\ UNCHANGED <<waitingForLayer, waitingForPeer, layerDrain>>
        /\ memBusy' \in BOOLEAN /\ ~memRetry
        /\ routeTo' = [routeTo EXCEPT ![p] = @ + 1]
        /\ UNCHANGED <<memRetry, queued, respRetry>>
    BY <2>1, Zenon DEF Accepted, SucceededTiming
  <2>3. releaseEvent' \in BOOLEAN
    BY <2>1, Zenon DEF Accepted, SucceededTiming
  <2>4. failure' \in {None, "routing table"}
    BY <2>1 DEF Accepted
  <2>5. LayerTypeOK'
    BY <1>0, <2>2, <2>3 DEF LayerTypeOK
  <2>6. routeTo' \in [Src -> Nat] /\ pending' \in [Src -> Nat]
    BY <1>0, <2>1, <2>2
  <2>7. \A q \in Src : pending'[q] <= routeTo'[q]
    BY <1>0, <2>1, <2>2 DEF PathInv
  <2>8. PathInv'
    BY <1>0, <2>2, <2>7 DEF PathInv
  <2> QED
    BY <1>0, <2>2, <2>4, <2>5, <2>6, <2>8
<1> QED
  BY <1>1, <1>2, <1>3 DEF Refused

\* The drain states stay drain states when an instruction ends.
LEMMA AdvanceTypes ==
    ASSUME TypeInv, NEW c \in CPU, Advance(c)
    PROVE  /\ dmState' \in {"Running", "Draining", "Drained"}
           /\ drainState' \in [Drainable -> {"Running", "Draining", "Drained"}]
           /\ call' \in (Stages \X CPU) \cup {None}
<1>1. c \in Drainable
  BY DEF Drainable
<1>2. call' \in (Stages \X CPU) \cup {None}
  BY StageFacts DEF Advance, Stages
<1> QED
  BY <1>1, <1>2 DEF Advance, TypeInv, TypeOK, drainVars

\* The handlers that send.
LEMMA SendingTypes ==
    ASSUME TypeInv, NEW c \in CPU,
           \/ Fetch(c) \/ ExecuteIMC(c) \/ ExecuteMem(c) \/ ExecuteSplit(c) \/ SendSecond(c)
    PROVE  TypeInv'
<1> USE DEF Stages
<1>0. iPort(c) \in Src /\ dPort(c) \in Src
  BY PortFacts
<1>1. CASE Fetch(c)
  BY <1>0, <1>1, SendTypes DEF Fetch, In, SetStatus, TypeInv, TypeOK, drainVars
<1>2. CASE ExecuteIMC(c)
  <2>1. lost' \in BOOLEAN
    BY <1>2, Zenon DEF ExecuteIMC, TypeInv, TypeOK
  <2> QED
    BY <1>0, <1>2, <2>1, SendTypes, AdvanceTypes DEF ExecuteIMC, In, TypeInv, TypeOK
<1>3. CASE ExecuteMem(c)
  BY <1>0, <1>3, SendTypes DEF ExecuteMem, In, PacketSent, PacketKept, SetStatus, TypeInv, TypeOK, drainVars
<1>4. CASE ExecuteSplit(c)
  <2>1. call' \in (Stages \X CPU) \cup {None}
    BY <1>4 DEF ExecuteSplit
  <2>2. outstanding' \in [CPU -> 0 .. 2]
    <3>1. outstanding \in [CPU -> 0 .. 2]
      BY DEF TypeInv, TypeOK
    <3> QED
      BY <1>4, <3>1 DEF ExecuteSplit
  <2> QED
    BY <2>1, <2>2, <1>0, <1>4, SendTypes DEF ExecuteSplit, In, PacketSent, PacketKept, SetStatus, TypeInv, TypeOK, drainVars
<1>5. CASE SendSecond(c)
  BY <1>0, <1>5, SendTypes DEF SendSecond, In, PacketSent, PacketKept, SetStatus, TypeInv, TypeOK, drainVars
<1> QED
  BY <1>1, <1>2, <1>3, <1>4, <1>5

\* The retries, which send again.
LEMMA RetryTypes ==
    ASSUME TypeInv, NEW c \in CPU, IcacheReqRetry(c) \/ DcacheReqRetry(c)
    PROVE  TypeInv'
<1>0. iPort(c) \in Src /\ dPort(c) \in Src
  BY PortFacts
<1>1. CASE IcacheReqRetry(c)
  <2>1. CASE status[c] # "IcacheRetry"
    BY <1>1, <2>1 DEF IcacheReqRetry, TypeInv, TypeOK, LayerTypeOK, PathInv, layerVars,
                      memVars, respVars, drainVars
  <2>2. CASE status[c] = "IcacheRetry"
    BY <1>0, <1>1, <2>2, SendTypes DEF IcacheReqRetry, SetStatus, TypeInv, TypeOK, drainVars
  <2> QED
    BY <2>1, <2>2
<1>2. CASE DcacheReqRetry(c)
  <2>1. CASE dcachePkt[c] = None \/ status[c] # "DcacheRetry"
    BY <1>2, <2>1 DEF DcacheReqRetry, TypeInv, TypeOK, LayerTypeOK, PathInv, layerVars,
                      memVars, respVars, drainVars
  <2>2. CASE ~(dcachePkt[c] = None \/ status[c] # "DcacheRetry")
    <3>1. call' \in (Stages \X CPU) \cup {None}
      BY <1>2, <2>2 DEF DcacheReqRetry, TypeInv, TypeOK, Stages
    <3>2. dcachePkt' \in [CPU -> {"whole", "low", "high", None}]
      BY <1>2, <2>2 DEF DcacheReqRetry, PacketSent, PacketKept, TypeInv, TypeOK
    <3> QED
      BY <1>0, <1>2, <2>2, <3>1, <3>2, SendTypes
      DEF DcacheReqRetry, PacketSent, PacketKept, SetStatus, Stages, TypeInv, TypeOK, drainVars
  <2> QED
    BY <2>1, <2>2
<1> QED
  BY <1>1, <1>2

\* The handlers that neither send nor receive.
LEMMA InstructionTypes ==
    ASSUME TypeInv, NEW c \in CPU,
           \/ FetchEvent(c) \/ CompleteIfetch(c) \/ ExecuteOther(c)
           \/ ExecuteSyscall(c) \/ ExecuteFutexWait(c) \/ CompleteDataAccess(c)
    PROVE  TypeInv'
<1>0. UNCHANGED <<config, layerVars, routeTo, memVars, lost>>
  BY DEF FetchEvent, CompleteIfetch, ExecuteOther, ExecuteSyscall, ExecuteFutexWait,
         CompleteDataAccess
<1>a. PathInv' /\ LayerTypeOK'
  BY <1>0, SamePathTypes
<1> USE <1>0, <1>a, SamePathTypes DEF Stages, TypeInv
<1>1. CASE FetchEvent(c)
  <2>1. fetchEvent' \in [CPU -> BOOLEAN]
    BY <1>1 DEF FetchEvent, TypeOK
  <2>2. call' \in Stages \X CPU
    BY <1>1 DEF FetchEvent
  <2> QED
    BY <1>1, <2>1, <2>2 DEF FetchEvent, SetStatus, TypeOK, drainVars
<1>2. CASE CompleteIfetch(c)
  <2>1. call' \in Stages \X CPU
    BY <1>2 DEF CompleteIfetch
  <2> QED
    BY <1>2, <2>1 DEF CompleteIfetch, SetStatus, TypeOK, drainVars
<1>3. CASE ExecuteOther(c)
  BY <1>3, AdvanceTypes DEF ExecuteOther, TypeOK
<1>4. CASE ExecuteSyscall(c)
  <2>1. fetchEvent' \in [CPU -> BOOLEAN]
    BY <1>4 DEF ExecuteSyscall, TypeOK
  <2>2. status' \in [CPU -> {"Idle", "Running", "Faulting",
                           "IcacheRetry", "IcacheWaitResponse",
                           "DcacheRetry", "DcacheWaitResponse"}]
    <3>1. PICK woken : status' = [d \in CPU |-> IF d = c THEN "Faulting"
                                               ELSE IF d \in woken THEN "Running"
                                               ELSE status[d]]
      BY <1>4, Zenon DEF ExecuteSyscall
    <3> QED
      BY <3>1 DEF TypeOK
  <2> QED
    BY <1>4, <2>1, <2>2 DEF ExecuteSyscall, TypeOK, drainVars
<1>5. CASE ExecuteFutexWait(c)
  BY <1>5 DEF ExecuteFutexWait, SetStatus, TypeOK, drainVars
<1>6. CASE CompleteDataAccess(c)
  <2>1. /\ call' \in (Stages \X CPU) \cup {None}
        /\ dmState' \in {"Running", "Draining", "Drained"}
        /\ drainState' \in [Drainable -> {"Running", "Draining", "Drained"}]
    <3>1. CASE FragmentLeft(c) \/ Advance(c)
      BY <1>6, <3>1, AdvanceTypes DEF CompleteDataAccess, TopLevel, TypeOK, drainVars
    <3>2. CASE ~FragmentLeft(c) /\ ~Advance(c)
      <4>1. call' = <<"microop", c>> /\ UNCHANGED <<dmState, drainState>>
        BY <1>6, <3>2, Zenon DEF CompleteDataAccess, drainVars
      <4>2. call' \in Stages \X CPU
        BY <4>1
      <4> QED
        BY <4>1, <4>2 DEF TypeOK
    <3> QED
      BY <3>1, <3>2
  <2>2. outstanding' \in [CPU -> 0 .. 2]
    <3>1. outstanding \in [CPU -> 0 .. 2]
      BY DEF TypeOK
    <3>2. \E n \in {0, 1} : outstanding' = [outstanding EXCEPT ![c] = n]
      BY <1>6 DEF CompleteDataAccess
    <3> QED
      BY <3>1, <3>2
  <2>3. status' \in [CPU -> {"Idle", "Running", "Faulting",
                           "IcacheRetry", "IcacheWaitResponse",
                           "DcacheRetry", "DcacheWaitResponse"}]
    BY <1>6 DEF CompleteDataAccess, SetStatus, TypeOK
  <2>4. /\ answered' \subseteq Src /\ failure' \in {None, "unexpected response"}
        /\ UNCHANGED <<fetchEvent, dcachePkt>>
    BY <1>6 DEF CompleteDataAccess, TypeOK
  <2> QED
    BY <2>1, <2>2, <2>3, <2>4 DEF TypeOK
<1> QED
  BY <1>1, <1>2, <1>3, <1>4, <1>5, <1>6

\* The responses.
LEMMA ResponseTypes ==
    ASSUME TypeInv, NEW c \in CPU,
           IcacheResponse(c) \/ DcacheResponse(c) \/ DcacheRespRetry(c)
    PROVE  TypeInv'
<1>0. /\ iPort(c) \in Src /\ dPort(c) \in Src /\ queued \in [Src -> Nat]
      /\ answered \subseteq Src /\ respRetry \subseteq CPU
      /\ drainState \in [Drainable -> {"Running", "Draining", "Drained"}]
      /\ PathInv /\ Src \subseteq Drainable
  BY PortFacts DEF TypeInv, TypeOK, Drainable
<1>1. ASSUME NEW p \in Src, queued[p] > 0, DeliverResponse(p)
      PROVE  /\ answered' \subseteq Src /\ queued' \in [Src -> Nat]
             /\ \A q \in Src \ {p} : queued'[q] = queued[q]
             /\ drainState' \in [Drainable -> {"Running", "Draining", "Drained"}]
  <2>1. answered' \subseteq Src
    BY <1>0, <1>1 DEF DeliverResponse
  <2>2. queued' \in [Src -> Nat] /\ \A q \in Src \ {p} : queued'[q] = queued[q]
    BY <1>0, <1>1 DEF DeliverResponse
  <2>3. Signalled(p, queued'[p] = 0) \in {"Running", "Draining", "Drained"}
    BY <1>0 DEF Signalled
  <2> QED
    BY <1>0, <1>1, <2>1, <2>2, <2>3 DEF DeliverResponse
<1>2. CASE IcacheResponse(c)
  <2>1. /\ UNCHANGED <<config, layerVars, routeTo, status, fetchEvent, dcachePkt,
                       outstanding, call, memBusy, memRetry, pending, respRetry,
                       dmState, lost>>
        /\ failure' \in {None, "unexpected response"}
        /\ queued[iPort(c)] > 0 /\ DeliverResponse(iPort(c))
    BY <1>2 DEF IcacheResponse
  <2>2. PathInv'
    BY <1>0, <1>1, <2>1, PortFacts DEF PathInv, layerVars
  <2>3. LayerTypeOK'
    BY <2>1, SameLayerTypes DEF TypeInv, TypeOK
  <2> QED
    BY <1>0, <1>1, <2>1, <2>2, <2>3 DEF TypeInv, TypeOK
<1>3. CASE DcacheResponse(c) \/ DcacheRespRetry(c)
  <2>1. UNCHANGED <<config, layerVars, routeTo, status, fetchEvent, dcachePkt,
                    outstanding, call, memBusy, memRetry, pending, dmState, lost, failure>>
    BY <1>3 DEF DcacheResponse, DcacheRespRetry
  <2>2. /\ queued[dPort(c)] > 0 /\ respRetry' \subseteq CPU
        /\ \/ DeliverResponse(dPort(c)) /\ respRetry' = respRetry \ {c}
           \/ respRetry' = respRetry \cup {c} /\ UNCHANGED <<answered, queued, drainState>>
    BY <1>0, <1>3 DEF DcacheResponse, DcacheRespRetry, PathInv
  <2>3. /\ answered' \subseteq Src /\ queued' \in [Src -> Nat]
        /\ drainState' \in [Drainable -> {"Running", "Draining", "Drained"}]
    BY <1>0, <1>1, <2>2
  <2>4. \A d \in respRetry' : queued'[dPort(d)] > 0
    BY <1>0, <1>1, <2>2, PortFacts DEF PathInv
  <2>5. PathInv'
    BY <1>0, <2>1, <2>4 DEF PathInv, layerVars
  <2>6. LayerTypeOK'
    BY <2>1, SameLayerTypes DEF TypeInv, TypeOK
  <2> QED
    BY <2>1, <2>2, <2>3, <2>5, <2>6 DEF TypeInv, TypeOK
<1> QED
  BY <1>2, <1>3

\* The controller, the layer and the drain manager.
LEMMA MachineTypes ==
    ASSUME TypeInv, \/ LayerRelease \/ MemRelease \/ TryDrain \/ DrainResume
                    \/ \E p \in Src : MemRespond(p)
    PROVE  TypeInv'
<1> USE DEF layerVars, memVars, respVars, cpuVars, drainVars
<1>0. /\ LayerTypeOK /\ PathInv /\ TypeOK
  BY DEF TypeInv, TypeOK
<1>1. ASSUME NEW q \in Seq(Src), q # <<>>, RetryWaiting(q)
      PROVE  state' = "RETRY" /\ retrying' \in Src /\ waitingForLayer' \in Seq(Src)
  BY <1>1 DEF RetryWaiting
<1>2. CASE LayerRelease
  <2>1. releaseEvent' \in BOOLEAN /\ waitingForPeer' = waitingForPeer
    BY <1>2, Zenon DEF LayerRelease, ReleaseLayer
  <2>2. /\ state' \in {"IDLE", "RETRY"} /\ retrying' \in Src \cup {None}
        /\ waitingForLayer' \in Seq(Src) /\ layerDrain' \in {"Running", "Draining", "Drained"}
    <3>1. CASE waitingForLayer # <<>> /\ waitingForPeer = None
      BY <1>0, <1>1, <1>2, <3>1 DEF LayerRelease, ReleaseLayer, LayerTypeOK
    <3>2. CASE ~(waitingForLayer # <<>> /\ waitingForPeer = None)
      BY <1>0, <1>2, <3>2 DEF LayerRelease, ReleaseLayer, LayerTypeOK
    <3> QED
      BY <3>1, <3>2
  <2>3. LayerTypeOK'
    BY <1>0, <2>1, <2>2 DEF LayerTypeOK
  <2> QED
    BY <1>0, <1>2, <2>1, <2>3 DEF LayerRelease, TypeInv, TypeOK, PathInv
<1>3. CASE MemRelease
  <2>1. memBusy' \in BOOLEAN /\ memRetry' \in BOOLEAN /\ ~memRetry'
    BY <1>3, Zenon DEF MemRelease
  <2>2. LayerTypeOK'
    <3>1. CASE memRetry
      <4> DEFINE queue == <<waitingForPeer>> \o waitingForLayer
      <4>1. waitingForPeer \in Src /\ waitingForLayer \in Seq(Src)
        BY <1>0, <3>1 DEF PathInv, LayerTypeOK
      <4>2. queue \in Seq(Src) /\ queue # <<>>
        BY <4>1
      <4>3. RecvRetry
        BY <1>3, <3>1 DEF MemRelease
      <4> HIDE DEF queue
      <4>4. /\ waitingForPeer' = None /\ UNCHANGED <<releaseEvent, layerDrain>>
            /\ \/ RetryWaiting(queue)
               \/ waitingForLayer' = queue /\ UNCHANGED <<state, retrying>>
        BY <4>3 DEF RecvRetry, queue
      <4> QED
        BY <1>0, <1>1, <4>2, <4>4 DEF LayerTypeOK
    <3>2. CASE ~memRetry
      BY <1>0, <1>3, <3>2 DEF MemRelease, LayerTypeOK
    <3> QED
      BY <3>1, <3>2
  <2> QED
    BY <1>0, <1>3, <2>1, <2>2 DEF MemRelease, TypeInv, TypeOK, PathInv
<1>4. CASE TryDrain
  <2>1. /\ drainState' \in [Drainable -> {"Running", "Draining", "Drained"}]
        /\ dmState' \in {"Running", "Draining", "Drained"}
    BY <1>4 DEF TryDrain
  <2>2. LayerTypeOK' /\ waitingForPeer' = waitingForPeer
    BY <1>0, <1>4 DEF TryDrain, DrainLayer, LayerTypeOK
  <2> QED
    BY <1>0, <1>4, <2>1, <2>2 DEF TryDrain, TypeInv, TypeOK, PathInv
<1>5. CASE DrainResume
  <2>1. /\ drainState' \in [Drainable -> {"Running", "Draining", "Drained"}]
        /\ failure' \in {None, "fetch scheduled"}
    BY <1>5 DEF DrainResume
  <2>2. fetchEvent' \in [CPU -> BOOLEAN]
    BY <1>5 DEF DrainResume
  <2>3. LayerTypeOK' /\ waitingForPeer' = waitingForPeer
    BY <1>0, <1>5 DEF DrainResume, ResumeLayer, LayerTypeOK
  <2> QED
    BY <1>0, <1>5, <2>1, <2>2, <2>3 DEF DrainResume, TypeInv, TypeOK, PathInv
<1>6. ASSUME NEW p \in Src, MemRespond(p)
      PROVE  TypeInv'
  <2>1. /\ pending[p] > 0 /\ pending \in [Src -> Nat] /\ routeTo \in [Src -> Nat]
        /\ queued \in [Src -> Nat] /\ pending[p] <= routeTo[p]
        /\ \A q \in Src : pending[q] <= routeTo[q]
    BY <1>0, <1>6 DEF MemRespond, TypeOK, PathInv
  <2>2. /\ pending' = [pending EXCEPT ![p] = @ - 1]
        /\ routeTo' = [routeTo EXCEPT ![p] = @ - 1]
        /\ queued' = [queued EXCEPT ![p] = @ + 1]
    BY <1>6 DEF MemRespond
  <2>3. /\ pending' \in [Src -> Nat] /\ routeTo' \in [Src -> Nat] /\ queued' \in [Src -> Nat]
        /\ \A q \in Src : pending'[q] <= routeTo'[q] /\ queued'[q] >= queued[q]
    BY <2>1, <2>2
  <2>4. drainState' \in [Drainable -> {"Running", "Draining", "Drained"}]
    <3>1. Memory \in Drainable
      BY DEF Drainable
    <3> QED
      BY <1>0, <1>6, <3>1 DEF MemRespond, Signalled, TypeOK
  <2>5. UNCHANGED <<config, layerVars, cpuVars, memBusy, memRetry, respRetry,
                    dmState, lost, failure>>
    BY <1>6 DEF MemRespond
  <2>6. PathInv'
    <3>1. \A c \in respRetry' : dPort(c) \in Src /\ queued[dPort(c)] > 0
      BY <1>0, <2>5, PortFacts DEF PathInv, TypeOK
    <3>2. \A c \in respRetry' : queued'[dPort(c)] > 0
      BY <2>1, <2>3, <3>1
    <3> QED
      BY <1>0, <2>3, <2>5, <3>2 DEF PathInv
  <2>7. LayerTypeOK'
    BY <1>0, <2>5, SameLayerTypes
  <2> QED
    BY <1>0, <2>3, <2>4, <2>5, <2>6, <2>7 DEF TypeInv, TypeOK
<1> QED
  BY <1>2, <1>3, <1>4, <1>5, <1>6

LEMMA NextTypeInv == TypeInv /\ [Next]_vars => TypeInv'
<1> SUFFICES ASSUME TypeInv, [Next]_vars PROVE TypeInv'
  OBVIOUS
<1>1. CASE UNCHANGED vars
  <2>1. PathInv' /\ LayerTypeOK'
    BY <1>1, SamePathTypes DEF vars
  <2> QED
    BY <1>1, <2>1, SamePathTypes DEF vars, cpuVars, drainVars, TypeInv, TypeOK
<1>2. CASE Next
  BY <1>2, SendingTypes, RetryTypes, InstructionTypes, ResponseTypes, MachineTypes
  DEF Next
<1> QED
  BY <1>1, <1>2

-----------------------------------------------------------------------------
\* The members of CPUs, crossbar, controller and drain manager have their
\* types, in every system.
THEOREM SystemTypeCorrect == Spec => []TypeOK
<1>1. TypeInv => TypeOK
  BY DEF TypeInv
<1> QED
  BY <1>1, InitTypeInv, NextTypeInv, PTL DEF Spec

-----------------------------------------------------------------------------
(* The layer.                                                              *)

\* The layer is called by the port it is calling, or by one that is not
\* waiting while it calls nobody.
MayAsk(p) == p = retrying \/ (retrying = None /\ p \notin Waiting)

LEMMA AcceptedLayer ==
    ASSUME TypeInv, LayerInv, NEW p \in Src, MayAsk(p), Accepted(p)
    PROVE  /\ LayerInv' /\ Waiting' = Waiting \ {p}
           /\ retrying' = None /\ failure' \in {None, "routing table"}
<1> USE NoneAssumption
<1>1. /\ state # "BUSY" /\ waitingForPeer = None /\ ~memRetry
      /\ state' = "BUSY" /\ releaseEvent' = TRUE /\ retrying' = None
      /\ waitingForLayer' = waitingForLayer /\ waitingForPeer' = waitingForPeer
      /\ memRetry' = memRetry
  BY Zenon DEF Accepted, SucceededTiming, Occupied
<1>2. LayerInv'
  <2>1. None \notin ToSet(waitingForLayer)
    BY <1>1 DEF LayerInv
  <2>2. (state = "BUSY" <=> releaseEvent)'
    BY <1>1
  <2> QED
    BY <1>1, <2>1, <2>2 DEF LayerInv
<1>3. Waiting = ToSet(waitingForLayer) \cup ({retrying} \ {None})
  BY <1>1 DEF Waiting
<1>4. Waiting' = ToSet(waitingForLayer)
  BY <1>1 DEF Waiting
<1>5. Waiting' = Waiting \ {p}
  BY <1>3, <1>4 DEF MayAsk, LayerInv
<1>6. failure' \in {None, "routing table"}
  BY DEF Accepted
<1> QED
  BY <1>1, <1>2, <1>5, <1>6

LEMMA RefusedLayer ==
    ASSUME TypeInv, LayerInv, NEW p \in Src, MayAsk(p), Refused(p), failure = None
    PROVE  LayerInv' /\ Waiting' = Waiting \cup {p} /\ retrying' = None /\ failure' = None
<1> USE NoneAssumption
<1>0. waitingForLayer \in Seq(Src) /\ IsInjective(waitingForLayer)
  BY DEF TypeInv, TypeOK, LayerTypeOK, LayerInv
<1>1. CASE BusyLayer(p)
  <2>1. /\ state = "BUSY" \/ waitingForPeer # None
        /\ waitingForLayer' = Append(waitingForLayer, p)
        /\ UNCHANGED <<state, waitingForPeer, releaseEvent, retrying, memBusy, memRetry>>
    BY <1>1 DEF BusyLayer, TryTimingRefused, Occupied, memVars
  <2>2. retrying = None /\ p \notin Waiting
    BY <2>1 DEF LayerInv, MayAsk
  <2>3. p \notin ToSet(waitingForLayer) /\ p # waitingForPeer
    BY <2>2 DEF Waiting
  <2>4. /\ IsInjective(waitingForLayer')
        /\ ToSet(waitingForLayer') = ToSet(waitingForLayer) \cup {p}
    BY <1>0, <2>1, <2>3, AppendLemma
  <2>5. LayerInv'
    BY <2>1, <2>2, <2>3, <2>4 DEF LayerInv
  <2>6. Waiting' = Waiting \cup {p}
    BY <2>1, <2>4 DEF Waiting
  <2>7. failure' = None
    BY <1>1, <2>3 DEF BusyLayer
  <2> QED
    BY <2>1, <2>2, <2>5, <2>6, <2>7
<1>2. CASE BusyMemory(p)
  <2>1. /\ state # "BUSY" /\ waitingForPeer = None
        /\ memBusy \/ memRetry
        /\ state' = "BUSY" /\ releaseEvent' = TRUE /\ retrying' = None
        /\ waitingForPeer' = p /\ waitingForLayer' = waitingForLayer
        /\ memRetry' = TRUE /\ memBusy' = memBusy /\ failure' = failure
    BY <1>2, Zenon DEF BusyMemory, FailedTiming, Occupied
  <2>2. p \notin ToSet(waitingForLayer) /\ None \notin ToSet(waitingForLayer)
    BY <2>1 DEF LayerInv, MayAsk, Waiting
  <2>3. memBusy'
    BY <2>1 DEF LayerInv
  <2>4. (state = "BUSY" <=> releaseEvent)'
    BY <2>1
  <2>5. LayerInv'
    BY <2>1, <2>2, <2>3, <2>4 DEF LayerInv
  <2>6. Waiting' = ToSet(waitingForLayer) \cup {p}
    BY <2>1 DEF Waiting
  <2>7. Waiting = ToSet(waitingForLayer) \cup ({retrying} \ {None})
    BY <2>1 DEF Waiting
  <2>8. Waiting' = Waiting \cup {p}
    BY <2>6, <2>7 DEF MayAsk
  <2> QED
    BY <2>1, <2>5, <2>8
<1> QED
  BY <1>1, <1>2 DEF Refused

\* The two releases call a waiting port, or none, and forget nobody.
LEMMA ReleaseLayers ==
    ASSUME TypeInv, LayerInv, LayerRelease \/ MemRelease
    PROVE  LayerInv' /\ Waiting' = Waiting
<1> USE NoneAssumption
<1>0. /\ waitingForLayer \in Seq(Src) /\ IsInjective(waitingForLayer)
      /\ waitingForPeer \in Src \cup {None}
      /\ None \notin ToSet(waitingForLayer) /\ state # "RETRY" /\ retrying = None
      /\ call = None /\ call' = None
  <2>1. waitingForPeer \in Src \cup {None} /\ waitingForLayer \in Seq(Src)
    BY DEF TypeInv, TypeOK, LayerTypeOK
  <2>2. None \notin ToSet(waitingForLayer)
    BY <2>1 DEF ToSet
  <2>3. state # "RETRY" /\ call = None /\ call' = None
    BY DEF LayerRelease, MemRelease, TopLevel, cpuVars
  <2> QED
    BY <2>1, <2>2, <2>3 DEF LayerInv
<1>1. CASE LayerRelease
  <2>1. /\ releaseEvent /\ releaseEvent' = FALSE /\ waitingForPeer' = waitingForPeer
        /\ memBusy' = memBusy /\ memRetry' = memRetry
    BY <1>1 DEF LayerRelease, ReleaseLayer, memVars
  <2>2. CASE waitingForLayer # <<>> /\ waitingForPeer = None
    <3>1. /\ state' = "RETRY" /\ retrying' = Head(waitingForLayer)
          /\ waitingForLayer' = Tail(waitingForLayer)
      BY <1>1, <2>2 DEF LayerRelease, ReleaseLayer, RetryWaiting
    <3>2. /\ retrying' \in Src /\ IsInjective(waitingForLayer')
          /\ retrying' \notin ToSet(waitingForLayer')
          /\ ToSet(waitingForLayer) = ToSet(waitingForLayer') \cup {retrying'}
      BY <1>0, <2>2, <3>1, TailLemma
    <3>3. LayerInv'
      BY <1>0, <2>1, <2>2, <3>1, <3>2 DEF LayerInv
    <3> QED
      BY <1>0, <2>1, <2>2, <3>2, <3>3 DEF Waiting
  <2>3. CASE ~(waitingForLayer # <<>> /\ waitingForPeer = None)
    <3>1. state' = "IDLE" /\ UNCHANGED <<waitingForLayer, retrying>>
      BY <1>1, <2>3 DEF LayerRelease, ReleaseLayer
    <3>2. LayerInv'
      BY <1>0, <2>1, <3>1 DEF LayerInv
    <3> QED
      BY <2>1, <3>1, <3>2 DEF Waiting
  <2> QED
    BY <2>2, <2>3
<1>2. CASE MemRelease
  <2>1. ~memBusy' /\ ~memRetry'
    BY <1>2 DEF MemRelease
  <2>2. CASE ~memRetry
    <3>1. UNCHANGED <<state, waitingForLayer, waitingForPeer, releaseEvent, retrying>>
      BY <1>2, <2>2 DEF MemRelease, layerVars
    <3>2. LayerInv'
      BY <1>0, <2>1, <2>2, <3>1 DEF LayerInv
    <3> QED
      BY <3>1, <3>2 DEF Waiting
  <2>3. CASE memRetry
    <3> DEFINE queue == <<waitingForPeer>> \o waitingForLayer
    <3>1. waitingForPeer \in Src /\ waitingForPeer \notin ToSet(waitingForLayer)
      BY <1>0, <2>3 DEF TypeInv, PathInv, LayerInv
    <3>2. /\ queue \in Seq(Src) /\ queue # <<>> /\ Head(queue) = waitingForPeer
          /\ Tail(queue) = waitingForLayer
      BY <1>0, <3>1
    <3>3. IsInjective(queue) /\ ToSet(queue) = ToSet(waitingForLayer) \cup {waitingForPeer}
      BY <1>0, <3>1, PushLemma
    <3>4. RecvRetry
      BY <1>2, <2>3 DEF MemRelease
    <3> HIDE DEF queue
    <3>5. waitingForPeer' = None /\ UNCHANGED releaseEvent
      BY <3>4 DEF RecvRetry
    <3>6. Waiting = ToSet(queue)
      BY <1>0, <3>1, <3>3 DEF Waiting
    <3>7. CASE state = "IDLE"
      <4>1. state' = "RETRY" /\ retrying' = waitingForPeer /\ waitingForLayer' = waitingForLayer
        BY <3>2, <3>4, <3>7 DEF RecvRetry, RetryWaiting, queue
      <4>2. LayerInv'
        BY <1>0, <2>1, <3>1, <3>5, <3>7, <4>1 DEF LayerInv
      <4> QED
        BY <3>1, <3>3, <3>5, <3>6, <4>1, <4>2 DEF Waiting
    <3>8. CASE state # "IDLE"
      <4>1. waitingForLayer' = queue /\ UNCHANGED <<state, retrying>>
        BY <3>4, <3>8 DEF RecvRetry, queue
      <4>2. None \notin ToSet(queue)
        BY <1>0, <3>1, <3>3
      <4>3. LayerInv'
        BY <1>0, <2>1, <3>3, <3>5, <4>1, <4>2 DEF LayerInv
      <4> QED
        BY <1>0, <3>5, <3>6, <4>1, <4>3 DEF Waiting
    <3> QED
      BY <3>7, <3>8
  <2> QED
    BY <2>2, <2>3
<1> QED
  BY <1>1, <1>2

\* A step that leaves the layer alone, and starts no handler while it calls.
LEMMA SameLayer ==
    ASSUME LayerInv, UNCHANGED <<layerVars, memBusy, memRetry>>, retrying = None \/ call' = call
    PROVE  LayerInv' /\ Waiting' = Waiting
BY DEF LayerInv, Waiting, layerVars

-----------------------------------------------------------------------------
(* The CPUs.                                                               *)

CPUInv(c) == FetchInv(c) /\ DataInv(c)

\* A step that does not touch a CPU, its ports or its requests.
LEMMA OtherCPU ==
    ASSUME NEW d \in CPU, CPUInv(d), config' = config,
           status'[d] = status[d], fetchEvent'[d] = fetchEvent[d],
           dcachePkt'[d] = dcachePkt[d], outstanding'[d] = outstanding[d],
           Stage(d)' = Stage(d),
           \A p \in {iPort(d), dPort(d)} :
               /\ pending'[p] = pending[p] /\ queued'[p] = queued[p]
               /\ p \in answered' <=> p \in answered
    PROVE  CPUInv(d)'
<1>1. OnTheWay(iPort(d))' = OnTheWay(iPort(d)) /\ OnTheWay(dPort(d))' = OnTheWay(dPort(d))
  BY DEF OnTheWay, iPort, dPort
<1>2. Held(d)' = Held(d) /\ (InAccess(d)' <=> InAccess(d))
  BY DEF Held, InAccess
<1>3. FetchInv(d)'
  BY <1>1 DEF CPUInv, FetchInv
<1>4. DataInv(d)'
  BY <1>1, <1>2 DEF CPUInv, DataInv, Programmed, dPort
<1> QED
  BY <1>3, <1>4 DEF CPUInv

Statuses == {"Idle", "Running", "Faulting", "IcacheRetry", "IcacheWaitResponse",
             "DcacheRetry", "DcacheWaitResponse"}

\* The types of what belongs to the CPUs and their ports.
LEMMA TypeFacts ==
    ASSUME TypeInv
    PROVE  /\ status \in [CPU -> Statuses] /\ fetchEvent \in [CPU -> BOOLEAN]
           /\ dcachePkt \in [CPU -> {"whole", "low", "high", None}]
           /\ outstanding \in [CPU -> 0 .. 2]
           /\ pending \in [Src -> Nat] /\ queued \in [Src -> Nat]
           /\ answered \subseteq Src
           /\ None \notin {"whole", "low", "high"}
BY NoneIsNothing DEF TypeInv, TypeOK, Statuses

\* The numbers behind OnTheWay.
LEMMA OnTheWayFacts ==
    ASSUME TypeInv, NEW p \in Src
    PROVE  /\ pending[p] \in Nat /\ queued[p] \in Nat
           /\ OnTheWay(p) \in Nat
           /\ OnTheWay(p) = 0 <=> pending[p] = 0 /\ queued[p] = 0 /\ p \notin answered
           /\ OnTheWay(p) >= pending[p] /\ OnTheWay(p) >= queued[p]
           /\ p \in answered => OnTheWay(p) >= 1 + pending[p] + queued[p]
<1>1. pending \in [Src -> Nat] /\ queued \in [Src -> Nat]
  BY DEF TypeInv, TypeOK
<1>2. pending[p] \in Nat /\ queued[p] \in Nat
  BY <1>1
<1>3. CASE p \in answered
  <2>1. OnTheWay(p) = pending[p] + queued[p] + 1
    BY <1>3 DEF OnTheWay
  <2> QED
    BY <1>2, <1>3, <2>1
<1>4. CASE p \notin answered
  <2>1. OnTheWay(p) = pending[p] + queued[p] + 0
    BY <1>4 DEF OnTheWay
  <2> QED
    BY <1>2, <1>4, <2>1
<1> QED
  BY <1>3, <1>4

\* A CPU that is not waiting for the memory has nothing on the way.
LEMMA RunningFacts ==
    ASSUME IInv, NEW c \in CPU, status[c] \in {"Idle", "Running", "Faulting"}
    PROVE  /\ \A p \in {iPort(c), dPort(c)} :
                 /\ p \notin Waiting /\ OnTheWay(p) = 0
                 /\ pending[p] = 0 /\ queued[p] = 0 /\ p \notin answered
           /\ dcachePkt[c] = None /\ outstanding[c] = 0 /\ Stage(c) # "second"
<1> USE PortFacts
<1>1. TypeInv /\ WaitInv /\ FetchInv(c) /\ DataInv(c)
  BY DEF IInv
<1>2. ~InAccess(c) /\ outstanding[c] \in 0 .. 2
  BY <1>1 DEF InAccess, TypeInv, TypeOK
<1>3. dcachePkt[c] = None /\ outstanding[c] = 0 /\ Stage(c) # "second"
  BY <1>1, <1>2 DEF DataInv
<1>4. Held(c) = 0
  BY <1>3, NoneIsNothing DEF Held
<1>5. OnTheWay(iPort(c)) = 0
  BY <1>1 DEF FetchInv
<1>6. OnTheWay(dPort(c)) = 0
  BY <1>1, <1>2, <1>4, OnTheWayFacts DEF DataInv
<1>7. iPort(c) \notin Waiting /\ dPort(c) \notin Waiting
  BY <1>1 DEF WaitInv
<1> QED
  BY <1>1, <1>3, <1>5, <1>6, <1>7, OnTheWayFacts

\* A handler under way.
LEMMA HandlerFacts ==
    ASSUME IInv, NEW c \in CPU, NEW s \in Stages, call = <<s, c>>
    PROVE  /\ Stage(c) = s /\ \A d \in CPU \ {c} : Stage(d) = "none"
           /\ retrying = None /\ state # "RETRY"
           /\ s # "second" => status[c] = "Running" /\ ~fetchEvent[c]
           /\ s = "second" => status[c] = "DcacheWaitResponse"
<1>1. /\ Stage(c) = s /\ \A d \in CPU \ {c} : Stage(d) = "none"
      /\ call # None
  BY StageFacts DEF Stage
<1>2. FetchInv(c) /\ DataInv(c) /\ LayerInv
  BY DEF IInv
<1>3. retrying = None /\ state # "RETRY"
  BY <1>1, <1>2 DEF LayerInv
<1> QED
  BY <1>1, <1>2, <1>3 DEF FetchInv, DataInv, Stages

\* Between handlers.
LEMMA NoHandlerFacts ==
    ASSUME call = None
    PROVE  \A d \in CPU : Stage(d) = "none"
BY StageFacts DEF Stage

\* The handler that a step leaves to be done.
LEMMA NextHandler ==
    ASSUME NEW c \in CPU, NEW s \in Stages, call' = <<s, c>>
    PROVE  Stage(c)' = s /\ \A d \in CPU \ {c} : Stage(d)' = "none"
BY StageFacts DEF Stage

LEMMA NoNextHandler ==
    ASSUME call' = None
    PROVE  \A d \in CPU : Stage(d)' = "none"
BY StageFacts DEF Stage

\* A step of one CPU, of its port p if of any.
LEMMA WaitStep ==
    ASSUME WaitInv, NEW c \in CPU, NEW p \in {iPort(c), dPort(c)},
           Waiting' \ {p} = Waiting \ {p},
           \A d \in CPU \ {c} : status'[d] = status[d],
           iPort(c) \in Waiting' <=> status'[c] = "IcacheRetry",
           dPort(c) \in Waiting' <=> status'[c] = "DcacheRetry"
    PROVE  WaitInv'
<1> SUFFICES ASSUME NEW d \in CPU, d # c
             PROVE  /\ iPort(d) \in Waiting' <=> status'[d] = "IcacheRetry"
                    /\ dPort(d) \in Waiting' <=> status'[d] = "DcacheRetry"
  BY DEF WaitInv, iPort, dPort
<1>1. iPort(d) # p /\ dPort(d) # p
  BY PortFacts
<1>2. /\ iPort(d) \in Waiting' <=> iPort(d) \in Waiting
      /\ dPort(d) \in Waiting' <=> dPort(d) \in Waiting
  BY <1>1
<1> QED
  BY <1>2 DEF WaitInv

\* A CPU, and the requests of its port p, are what changes: the others are
\* left alone.
LEMMA OthersUntouched ==
    ASSUME IInv, NEW c \in CPU, NEW p \in {iPort(c), dPort(c)},
           config' = config,
           \A q \in Src \ {p} : /\ pending'[q] = pending[q] /\ queued'[q] = queued[q]
                                /\ q \in answered' <=> q \in answered,
           \A d \in CPU \ {c} : /\ status'[d] = status[d] /\ fetchEvent'[d] = fetchEvent[d]
                                /\ dcachePkt'[d] = dcachePkt[d]
                                /\ outstanding'[d] = outstanding[d]
                                /\ Stage(d) = "none" /\ Stage(d)' = "none"
    PROVE  \A d \in CPU \ {c} : CPUInv(d)'
<1> TAKE d \in CPU \ {c}
<1>1. iPort(d) \in Src \ {p} /\ dPort(d) \in Src \ {p}
  BY PortFacts
<1>2. CPUInv(d)
  BY DEF IInv, CPUInv
<1>3. \A q \in {iPort(d), dPort(d)} :
         /\ pending'[q] = pending[q] /\ queued'[q] = queued[q]
         /\ q \in answered' <=> q \in answered
  BY <1>1
<1> QED
  BY <1>2, <1>3, OtherCPU

\* Where there are IMC instructions, the CPU that takes the step is the only
\* one.
LEMMA IMCAfterSend ==
    ASSUME IInv, NEW c \in CPU, status[c] \notin {"Idle", "IcacheWaitResponse"},
           config' = config, queued' = queued, answered' = answered,
           Stage(c)' # "execute"
    PROVE  IMCInv'
<1> SUFFICES ASSUME Programmed("IMC")', NEW e \in config.cpus
             PROVE  ~(queued'[iPort(e)] > 0 \/ iPort(e) \in answered' \/ Stage(e)' = "execute")
  BY DEF IMCInv, iPort
<1>1. FetchInv(c) /\ TypeInv /\ Suited
  BY DEF IInv
<1>2. e = c
  BY <1>1 DEF Programmed, Suited, FetchInv
<1>3. OnTheWay(iPort(c)) = 0
  BY <1>1 DEF FetchInv
<1>4. queued[iPort(c)] = 0 /\ iPort(c) \notin answered
  BY <1>1, <1>3, OnTheWayFacts, PortFacts
<1> QED
  BY <1>2, <1>4

\* A step that brings no IMC instruction nearer and occupies nothing.
LEMMA IMCKept ==
    ASSUME IInv, config' = config,
           ~memBusy /\ state = "IDLE" => ~memBusy' /\ state' = "IDLE",
           \A c \in CPU :
               (queued'[iPort(c)] > 0 \/ iPort(c) \in answered' \/ Stage(c)' = "execute") =>
                   (queued[iPort(c)] > 0 \/ iPort(c) \in answered \/ Stage(c) = "execute")
    PROVE  IMCInv'
<1> SUFFICES ASSUME Programmed("IMC")', NEW e \in config.cpus,
                    queued'[iPort(e)] > 0 \/ iPort(e) \in answered' \/ Stage(e)' = "execute"
             PROVE  ~memBusy' /\ state' = "IDLE"
  BY DEF IMCInv, iPort
<1>1. config.cpus \subseteq CPU
  BY ConfigsAssumption DEF IInv, TypeInv, TypeOK
<1>2. queued[iPort(e)] > 0 \/ iPort(e) \in answered \/ Stage(e) = "execute"
  BY <1>1
<1>3. IMCInv /\ Programmed("IMC")
  BY DEF IInv, Programmed
<1> QED
  BY <1>2, <1>3 DEF IMCInv

\* What a step has to keep beside the types and what is said of drained systems.
StepInv ==
    /\ LayerInv /\ WaitInv /\ IMCInv /\ NoAssertFails /\ IMCTakesEffect
    /\ \A c \in CPU : CPUInv(c)

\* fetch() and sendFetch().
LEMMA FetchStep ==
    ASSUME IInv, NEW c \in CPU, Fetch(c)
    PROVE  StepInv'
<1> DEFINE p == iPort(c)
<1>0. /\ TypeInv /\ LayerInv /\ WaitInv /\ ~lost /\ p \in Src
      /\ FetchInv(c) /\ DataInv(c) /\ c \in CPU
  BY PortFacts DEF IInv, IMCTakesEffect
<1>1. /\ call = <<"fetch", c>> /\ call' = None /\ failure = None
      /\ UNCHANGED <<config, fetchEvent, dcachePkt, outstanding, answered, lost>>
  BY DEF Fetch, In
<1>2. /\ Stage(c) = "fetch" /\ \A d \in CPU \ {c} : Stage(d) = "none"
      /\ retrying = None /\ status[c] = "Running" /\ ~fetchEvent[c]
  BY <1>1, HandlerFacts DEF Stages
<1>3. \A d \in CPU : Stage(d)' = "none"
  BY <1>1, NoNextHandler
<1>4. /\ p \notin Waiting /\ dPort(c) \notin Waiting
      /\ pending[p] = 0 /\ queued[p] = 0 /\ p \notin answered /\ OnTheWay(dPort(c)) = 0
      /\ dcachePkt[c] = None /\ outstanding[c] = 0
  BY <1>2, RunningFacts
<1>5. MayAsk(p)
  BY <1>2, <1>4 DEF MayAsk
<1>6. /\ status \in [CPU -> Statuses] /\ pending \in [Src -> Nat]
      /\ None \notin {"whole", "low", "high"}
  BY <1>0, TypeFacts
<1> HIDE DEF p
<1>7. \/ /\ Waiting' = Waiting \ {p} /\ pending' = [pending EXCEPT ![p] = @ + 1]
         /\ status' = [status EXCEPT ![c] = "IcacheWaitResponse"]
      \/ /\ Waiting' = Waiting \cup {p} /\ pending' = pending
         /\ status' = [status EXCEPT ![c] = "IcacheRetry"]
  BY <1>0, <1>1, <1>5, AcceptedLayer, RefusedLayer
  DEF Fetch, SetStatus, p, AcceptedRequest, Refused, BusyLayer, BusyMemory, memVars, respVars
<1>8. LayerInv' /\ NoAssertFails' /\ queued' = queued
  BY <1>0, <1>1, <1>5, AcceptedLayer, RefusedLayer
  DEF Fetch, p, AcceptedRequest, Accepted, Refused, BusyLayer, BusyMemory, memVars, respVars,
      NoAssertFails
<1>9. WaitInv'
  <2>1. /\ iPort(c) \in Waiting' <=> status'[c] = "IcacheRetry"
        /\ dPort(c) \in Waiting' <=> status'[c] = "DcacheRetry"
    BY <1>4, <1>6, <1>7, PortFacts DEF p
  <2> QED
    BY <1>0, <1>6, <1>7, <2>1, WaitStep DEF p
<1>10. \A d \in CPU \ {c} : CPUInv(d)'
  BY <1>0, <1>1, <1>2, <1>3, <1>6, <1>7, <1>8, OthersUntouched DEF p
<1>11. FetchInv(c)'
  <2>1. /\ status'[c] = "IcacheWaitResponse" => pending'[p] = 1
        /\ status'[c] # "IcacheWaitResponse" => pending'[p] = 0
        /\ status'[c] \in {"IcacheWaitResponse", "IcacheRetry"}
    BY <1>0, <1>4, <1>6, <1>7
  <2>2. OnTheWay(p)' = pending'[p]
    BY <1>0, <1>1, <1>4, <1>8, <2>1 DEF OnTheWay, p, iPort
  <2> QED
    BY <1>0, <1>1, <1>2, <1>3, <2>1, <2>2 DEF FetchInv, p, iPort
<1>12. DataInv(c)'
  <2>1. status'[c] \in {"IcacheWaitResponse", "IcacheRetry"} /\ dPort(c) # p /\ dPort(c) \in Src
    BY <1>0, <1>6, <1>7, PortFacts DEF p
  <2>2. OnTheWay(dPort(c))' = 0
    BY <1>1, <1>4, <1>6, <1>7, <1>8, <2>1 DEF OnTheWay, dPort
  <2>3. Held(c)' = 0 /\ ~InAccess(c)'
    BY <1>1, <1>4, <2>1, NoneIsNothing DEF Held, InAccess
  <2> QED
    BY <1>1, <1>3, <1>4, <1>6, <2>1, <2>2, <2>3 DEF DataInv, dPort
<1>13. IMCInv'
  BY <1>1, <1>2, <1>3, <1>8, IMCAfterSend
<1> QED
  BY <1>0, <1>1, <1>8, <1>9, <1>10, <1>11, <1>12, <1>13 DEF StepInv, CPUInv, IMCTakesEffect

\* handleReadPacket and handleWritePacket: what holds after they have sent, or
\* kept, the packet.
LEMMA DataSend ==
    ASSUME IInv, NEW c \in CPU, NEW pkt, MayAsk(dPort(c)), failure = None,
           PacketSent(c) \/ PacketKept(c, pkt),
           status[c] \in {"Running", "DcacheWaitResponse", "DcacheRetry"}, ~fetchEvent[c],
           config' = config, answered' = answered, fetchEvent' = fetchEvent, lost' = lost,
           \A d \in CPU \ {c} : outstanding'[d] = outstanding[d],
           \A d \in CPU \ {c} : Stage(d) = "none" /\ Stage(d)' = "none",
           Stage(c)' \in {"none", "second"}
    PROVE  /\ LayerInv' /\ WaitInv' /\ IMCInv' /\ NoAssertFails' /\ IMCTakesEffect'
           /\ FetchInv(c)' /\ \A d \in CPU \ {c} : CPUInv(d)'
           /\ queued' = queued
           /\ PacketSent(c) =>
                 /\ status'[c] = "DcacheWaitResponse" /\ dcachePkt'[c] = None
                 /\ pending'[dPort(c)] = pending[dPort(c)] + 1
           /\ PacketKept(c, pkt) =>
                 /\ status'[c] = "DcacheRetry" /\ dcachePkt'[c] = pkt
                 /\ pending'[dPort(c)] = pending[dPort(c)]
<1> DEFINE p == dPort(c)
<1>0. /\ TypeInv /\ LayerInv /\ WaitInv /\ ~lost /\ p \in Src /\ iPort(c) \in Src
      /\ FetchInv(c) /\ p # iPort(c)
  BY PortFacts DEF IInv, IMCTakesEffect
<1>1. /\ status \in [CPU -> Statuses] /\ pending \in [Src -> Nat]
      /\ dcachePkt \in [CPU -> {"whole", "low", "high", None}]
  BY <1>0, TypeFacts
<1> HIDE DEF p
<1>2. /\ PacketSent(c) =>
            /\ Waiting' = Waiting \ {p} /\ pending' = [pending EXCEPT ![p] = @ + 1]
            /\ status' = [status EXCEPT ![c] = "DcacheWaitResponse"]
            /\ dcachePkt' = [dcachePkt EXCEPT ![c] = None]
      /\ PacketKept(c, pkt) =>
            /\ Waiting' = Waiting \cup {p} /\ pending' = pending
            /\ status' = [status EXCEPT ![c] = "DcacheRetry"]
            /\ dcachePkt' = [dcachePkt EXCEPT ![c] = pkt]
  BY <1>0, AcceptedLayer, RefusedLayer
  DEF PacketSent, PacketKept, SetStatus, p, AcceptedRequest, Refused, BusyLayer, BusyMemory,
      memVars, respVars
<1>3. LayerInv' /\ NoAssertFails' /\ queued' = queued
  BY <1>0, AcceptedLayer, RefusedLayer
  DEF PacketSent, PacketKept, p, AcceptedRequest, Accepted, Refused, BusyLayer, BusyMemory,
      memVars, respVars, NoAssertFails
<1>4. WaitInv'
  <2>1. iPort(c) \notin Waiting
    BY <1>0 DEF WaitInv
  <2>2. /\ iPort(c) \in Waiting' <=> status'[c] = "IcacheRetry"
        /\ dPort(c) \in Waiting' <=> status'[c] = "DcacheRetry"
    BY <1>0, <1>1, <1>2, <2>1 DEF p
  <2> QED
    BY <1>0, <1>1, <1>2, <2>2, WaitStep DEF p
<1>5. \A d \in CPU \ {c} : CPUInv(d)'
  BY <1>0, <1>1, <1>2, <1>3, OthersUntouched DEF p
<1>6. FetchInv(c)'
  <2>1. status'[c] \in {"DcacheWaitResponse", "DcacheRetry"}
    BY <1>1, <1>2
  <2>2. OnTheWay(iPort(c))' = 0
    BY <1>0, <1>1, <1>2, <1>3, OnTheWayFacts DEF FetchInv, OnTheWay, iPort
  <2> QED
    BY <1>0, <2>1, <2>2 DEF FetchInv, iPort
<1>7. IMCInv'
  BY <1>3, IMCAfterSend
<1> QED
  BY <1>0, <1>1, <1>2, <1>3, <1>4, <1>5, <1>6, <1>7 DEF IMCTakesEffect, p

\* A load or a store that was sent, or is kept, from the start.
LEMMA ExecuteMemStep ==
    ASSUME IInv, NEW c \in CPU, ExecuteMem(c)
    PROVE  StepInv'
<1> DEFINE p == dPort(c)
<1>0. TypeInv /\ p \in Src
  BY PortFacts DEF IInv
<1>1. /\ call = <<"execute", c>> /\ call' = None /\ failure = None
      /\ UNCHANGED <<config, fetchEvent, outstanding, answered, lost>>
      /\ PacketSent(c) \/ PacketKept(c, "whole")
  BY DEF ExecuteMem, In
<1>2. /\ \A d \in CPU \ {c} : Stage(d) = "none"
      /\ retrying = None /\ status[c] = "Running" /\ ~fetchEvent[c]
  BY <1>1, HandlerFacts DEF Stages
<1>3. \A d \in CPU : Stage(d)' = "none"
  BY <1>1, NoNextHandler
<1>4. /\ p \notin Waiting /\ pending[p] = 0 /\ queued[p] = 0 /\ p \notin answered
      /\ outstanding[c] = 0
  BY <1>2, RunningFacts
<1>5. MayAsk(p)
  BY <1>2, <1>4 DEF MayAsk
<1>6. /\ LayerInv' /\ WaitInv' /\ IMCInv' /\ NoAssertFails' /\ IMCTakesEffect'
      /\ FetchInv(c)' /\ \A d \in CPU \ {c} : CPUInv(d)'
      /\ queued' = queued
      /\ \/ /\ status'[c] = "DcacheWaitResponse" /\ dcachePkt'[c] = None
            /\ pending'[p] = pending[p] + 1
         \/ /\ status'[c] = "DcacheRetry" /\ dcachePkt'[c] = "whole"
            /\ pending'[p] = pending[p]
  BY <1>1, <1>2, <1>3, <1>5, DataSend
<1>7. DataInv(c)'
  <2>1. OnTheWay(p)' = pending'[p]
    BY <1>0, <1>1, <1>4, <1>6 DEF OnTheWay, dPort
  <2>2. OnTheWay(p)' + Held(c)' = 1 /\ InAccess(c)'
    BY <1>0, <1>4, <1>6, <2>1, TypeFacts DEF Held, InAccess
  <2> QED
    BY <1>0, <1>1, <1>3, <1>4, <1>6, <2>2, TypeFacts DEF DataInv, dPort
<1> QED
  BY <1>6, <1>7 DEF StepInv, CPUInv

\* The low fragment of a split access.
LEMMA ExecuteSplitStep ==
    ASSUME IInv, NEW c \in CPU, ExecuteSplit(c)
    PROVE  StepInv'
<1> DEFINE p == dPort(c)
<1>0. TypeInv /\ p \in Src /\ outstanding \in [CPU -> 0 .. 2]
  BY PortFacts, TypeFacts DEF IInv
<1>1. /\ call = <<"execute", c>> /\ failure = None /\ Programmed("Split")
      /\ UNCHANGED <<config, fetchEvent, answered, lost>>
      /\ outstanding' = [outstanding EXCEPT ![c] = 2]
      /\ \/ PacketSent(c) /\ call' = <<"second", c>>
         \/ PacketKept(c, "low") /\ call' = None
  BY DEF ExecuteSplit, In
<1>2. /\ \A d \in CPU \ {c} : Stage(d) = "none"
      /\ retrying = None /\ status[c] = "Running" /\ ~fetchEvent[c]
  BY <1>1, HandlerFacts DEF Stages
<1>3. /\ \A d \in CPU \ {c} : Stage(d)' = "none"
      /\ call' = None => Stage(c)' = "none"
      /\ call' = <<"second", c>> => Stage(c)' = "second"
  BY <1>1, NextHandler, NoNextHandler DEF Stages
<1>4. /\ p \notin Waiting /\ pending[p] = 0 /\ queued[p] = 0 /\ p \notin answered
      /\ outstanding[c] = 0
  BY <1>2, RunningFacts
<1>5. MayAsk(p)
  BY <1>2, <1>4 DEF MayAsk
<1>6. /\ outstanding'[c] = 2
      /\ \A d \in CPU \ {c} : outstanding'[d] = outstanding[d]
  BY <1>0, <1>1
<1>7. /\ LayerInv' /\ WaitInv' /\ IMCInv' /\ NoAssertFails' /\ IMCTakesEffect'
      /\ FetchInv(c)' /\ \A d \in CPU \ {c} : CPUInv(d)'
      /\ queued' = queued
      /\ \/ /\ status'[c] = "DcacheWaitResponse" /\ dcachePkt'[c] = None
            /\ pending'[p] = pending[p] + 1 /\ call' = <<"second", c>>
         \/ /\ status'[c] = "DcacheRetry" /\ dcachePkt'[c] = "low"
            /\ pending'[p] = pending[p] /\ call' = None
  BY <1>1, <1>2, <1>3, <1>5, <1>6, DataSend
<1>8. DataInv(c)'
  <2>1. OnTheWay(p)' = pending'[p]
    BY <1>0, <1>1, <1>4, <1>7 DEF OnTheWay, dPort
  <2>2. /\ OnTheWay(p)' + Held(c)' = IF Stage(c)' = "second" THEN 1 ELSE 2
        /\ InAccess(c)' /\ Programmed("Split")'
    BY <1>0, <1>1, <1>3, <1>4, <1>7, <2>1, TypeFacts DEF Held, InAccess, Programmed
  <2> QED
    BY <1>0, <1>1, <1>3, <1>4, <1>6, <1>7, <2>2, TypeFacts DEF DataInv, dPort
<1> QED
  BY <1>7, <1>8 DEF StepInv, CPUInv

\* The high fragment, right after the low one.
LEMMA SendSecondStep ==
    ASSUME IInv, NEW c \in CPU, SendSecond(c)
    PROVE  StepInv'
<1> DEFINE p == dPort(c)
<1>0. TypeInv /\ p \in Src /\ DataInv(c) /\ WaitInv /\ FetchInv(c)
  BY PortFacts DEF IInv
<1>1. /\ call = <<"second", c>> /\ call' = None /\ failure = None
      /\ UNCHANGED <<config, fetchEvent, outstanding, answered, lost>>
      /\ PacketSent(c) \/ PacketKept(c, "high")
  BY DEF SendSecond, In
<1>2. /\ \A d \in CPU \ {c} : Stage(d) = "none"
      /\ retrying = None /\ status[c] = "DcacheWaitResponse" /\ Stage(c) = "second"
  BY <1>1, HandlerFacts DEF Stages
<1>3. \A d \in CPU : Stage(d)' = "none"
  BY <1>1, NoNextHandler
<1>4. /\ p \notin Waiting /\ queued[p] = 0 /\ p \notin answered
      /\ outstanding[c] = 2 /\ ~fetchEvent[c] /\ Programmed("Split") /\ dcachePkt[c] = None
  BY <1>0, <1>2 DEF WaitInv, DataInv, FetchInv
<1>5. pending[p] = 1
  <2>1. Held(c) = 0 /\ InAccess(c)
    BY <1>0, <1>2, <1>4, TypeFacts DEF Held, InAccess
  <2>2. OnTheWay(p) = 1
    BY <1>0, <1>2, <2>1, OnTheWayFacts DEF DataInv
  <2> QED
    BY <1>0, <1>4, <2>2, OnTheWayFacts DEF OnTheWay
<1>6. MayAsk(p)
  BY <1>2, <1>4 DEF MayAsk
<1>7. /\ LayerInv' /\ WaitInv' /\ IMCInv' /\ NoAssertFails' /\ IMCTakesEffect'
      /\ FetchInv(c)' /\ \A d \in CPU \ {c} : CPUInv(d)'
      /\ queued' = queued
      /\ \/ /\ status'[c] = "DcacheWaitResponse" /\ dcachePkt'[c] = None
            /\ pending'[p] = pending[p] + 1
         \/ /\ status'[c] = "DcacheRetry" /\ dcachePkt'[c] = "high"
            /\ pending'[p] = pending[p]
  BY <1>1, <1>2, <1>3, <1>4, <1>6, DataSend
<1>8. DataInv(c)'
  <2>1. OnTheWay(p)' = pending'[p]
    BY <1>0, <1>1, <1>4, <1>5, <1>7 DEF OnTheWay, dPort
  <2>2. OnTheWay(p)' + Held(c)' = 2 /\ InAccess(c)' /\ Programmed("Split")'
    BY <1>0, <1>1, <1>4, <1>5, <1>7, <2>1, TypeFacts DEF Held, InAccess, Programmed
  <2> QED
    BY <1>0, <1>1, <1>3, <1>4, <1>7, <2>2, TypeFacts DEF DataInv, dPort
<1> QED
  BY <1>7, <1>8 DEF StepInv, CPUInv

\* DcachePort::recvReqRetry, for the low, the high or the only packet.
LEMMA DcacheReqRetryStep ==
    ASSUME IInv, NEW c \in CPU, DcacheReqRetry(c)
    PROVE  StepInv'
<1> DEFINE p == dPort(c)
           pkt == dcachePkt[c]
<1>0. TypeInv /\ p \in Src /\ DataInv(c) /\ WaitInv /\ FetchInv(c) /\ LayerInv
  BY PortFacts DEF IInv
<1>1. /\ state = "RETRY" /\ retrying = p /\ failure = None
      /\ UNCHANGED <<config, fetchEvent, outstanding, answered, lost>>
  BY DEF DcacheReqRetry
<1>2. retrying # None /\ call = None
  BY <1>0, <1>1, NoneAssumption DEF LayerInv
<1>3. p \in Waiting /\ status[c] = "DcacheRetry"
  BY <1>0, <1>1, <1>2 DEF Waiting, WaitInv
<1>4. /\ pkt \in {"whole", "low", "high"} /\ ~fetchEvent[c]
      /\ queued[p] = 0 /\ p \notin answered /\ Stage(c) = "none"
  BY <1>0, <1>2, <1>3, TypeFacts, NoHandlerFacts DEF DataInv, FetchInv
<1>5. /\ pkt = "whole" => outstanding[c] = 0 /\ pending[p] = 0
      /\ pkt = "low" => outstanding[c] = 2 /\ pending[p] = 0
      /\ pkt = "high" => outstanding[c] = 2 /\ pending[p] = 1
      /\ pkt # "whole" => Programmed("Split")
  <2>1. InAccess(c) /\ Held(c) = IF pkt = "low" THEN 2 ELSE 1
    BY <1>0, <1>3, <1>4, TypeFacts DEF InAccess, Held
  <2>2. OnTheWay(p) = pending[p]
    BY <1>0, <1>4, OnTheWayFacts DEF OnTheWay
  <2> QED
    BY <1>0, <1>4, <2>1, <2>2, OnTheWayFacts DEF DataInv
<1>6. MayAsk(p)
  BY <1>1 DEF MayAsk
<1>7. \/ PacketSent(c) /\ call' = IF pkt = "low" THEN <<"second", c>> ELSE None
      \/ PacketKept(c, pkt) /\ call' = None
  BY <1>0, <1>2, <1>3, <1>4, TypeFacts DEF DcacheReqRetry, OtherFragment
<1>8. /\ \A d \in CPU \ {c} : Stage(d) = "none" /\ Stage(d)' = "none"
      /\ call' = None => Stage(c)' = "none"
      /\ call' = <<"second", c>> => Stage(c)' = "second"
  BY <1>2, <1>7, NoHandlerFacts, NextHandler, NoNextHandler DEF Stages
<1>9. /\ LayerInv' /\ WaitInv' /\ IMCInv' /\ NoAssertFails' /\ IMCTakesEffect'
      /\ FetchInv(c)' /\ \A d \in CPU \ {c} : CPUInv(d)'
      /\ queued' = queued
      /\ \/ /\ status'[c] = "DcacheWaitResponse" /\ dcachePkt'[c] = None
            /\ pending'[p] = pending[p] + 1
            /\ Stage(c)' = IF pkt = "low" THEN "second" ELSE "none"
         \/ /\ status'[c] = "DcacheRetry" /\ dcachePkt'[c] = pkt
            /\ pending'[p] = pending[p] /\ Stage(c)' = "none"
  BY <1>1, <1>3, <1>4, <1>6, <1>7, <1>8, DataSend
<1>10. DataInv(c)'
  <2>1. OnTheWay(p)' = pending'[p]
    BY <1>0, <1>1, <1>4, <1>5, <1>9 DEF OnTheWay, dPort
  <2>2. /\ OnTheWay(p)' + Held(c)' = IF outstanding[c] = 0 \/ Stage(c)' = "second" THEN 1 ELSE 2
        /\ InAccess(c)'
        /\ Programmed("Split")' <=> Programmed("Split")
    BY <1>0, <1>1, <1>4, <1>5, <1>9, <2>1, TypeFacts DEF Held, InAccess, Programmed
  <2> QED
    BY <1>0, <1>1, <1>4, <1>5, <1>9, <2>2, TypeFacts DEF DataInv, dPort
<1> QED
  BY <1>9, <1>10 DEF StepInv, CPUInv

\* IcachePort::recvReqRetry.
LEMMA IcacheReqRetryStep ==
    ASSUME IInv, NEW c \in CPU, IcacheReqRetry(c)
    PROVE  StepInv'
<1> DEFINE p == iPort(c)
<1>0. /\ TypeInv /\ LayerInv /\ WaitInv /\ ~lost /\ p \in Src /\ dPort(c) \in Src
      /\ FetchInv(c) /\ DataInv(c) /\ p # dPort(c)
  BY PortFacts DEF IInv, IMCTakesEffect
<1>1. /\ state = "RETRY" /\ retrying = p /\ failure = None
      /\ UNCHANGED <<config, fetchEvent, dcachePkt, outstanding, call, answered, lost>>
  BY DEF IcacheReqRetry
<1>2. call = None /\ p \in Waiting /\ status[c] = "IcacheRetry"
  BY <1>0, <1>1, NoneAssumption DEF LayerInv, Waiting, WaitInv
<1>3. \A d \in CPU : Stage(d) = "none" /\ Stage(d)' = "none"
  BY <1>1, <1>2, NoHandlerFacts, NoNextHandler
<1>4. /\ dPort(c) \notin Waiting /\ ~fetchEvent[c] /\ dcachePkt[c] = None
      /\ pending[p] = 0 /\ queued[p] = 0 /\ p \notin answered /\ outstanding[c] = 0
  BY <1>0, <1>2, OnTheWayFacts, TypeFacts DEF WaitInv, FetchInv, DataInv, InAccess
<1>5. MayAsk(p)
  BY <1>1 DEF MayAsk
<1>6. /\ status \in [CPU -> Statuses] /\ pending \in [Src -> Nat]
      /\ None \notin {"whole", "low", "high"}
  BY <1>0, TypeFacts
<1> HIDE DEF p
<1>7. \/ /\ Waiting' = Waiting \ {p} /\ pending' = [pending EXCEPT ![p] = @ + 1]
         /\ status' = [status EXCEPT ![c] = "IcacheWaitResponse"]
      \/ /\ Waiting' = Waiting \cup {p} /\ pending' = pending
         /\ status' = status
  BY <1>0, <1>1, <1>2, <1>5, AcceptedLayer, RefusedLayer
  DEF IcacheReqRetry, SetStatus, p, AcceptedRequest, Refused, BusyLayer, BusyMemory, memVars,
      respVars
<1>8. LayerInv' /\ NoAssertFails' /\ queued' = queued
  BY <1>0, <1>1, <1>2, <1>5, AcceptedLayer, RefusedLayer
  DEF IcacheReqRetry, p, AcceptedRequest, Accepted, Refused, BusyLayer, BusyMemory, memVars,
      respVars, NoAssertFails
<1>9. WaitInv'
  <2>1. /\ iPort(c) \in Waiting' <=> status'[c] = "IcacheRetry"
        /\ dPort(c) \in Waiting' <=> status'[c] = "DcacheRetry"
    BY <1>0, <1>2, <1>4, <1>6, <1>7 DEF p
  <2> QED
    BY <1>0, <1>6, <1>7, <2>1, WaitStep DEF p
<1>10. \A d \in CPU \ {c} : CPUInv(d)'
  BY <1>0, <1>1, <1>3, <1>6, <1>7, <1>8, OthersUntouched DEF p
<1>a. /\ status'[c] = "IcacheWaitResponse" => pending'[p] = 1
      /\ status'[c] # "IcacheWaitResponse" => pending'[p] = 0
      /\ status'[c] \in {"IcacheWaitResponse", "IcacheRetry"}
  BY <1>0, <1>2, <1>4, <1>6, <1>7
<1>11. FetchInv(c)'
  <2>1. OnTheWay(p)' = pending'[p]
    BY <1>0, <1>1, <1>4, <1>8, <1>a DEF OnTheWay, p, iPort
  <2> QED
    BY <1>0, <1>1, <1>2, <1>3, <1>4, <1>a, <2>1 DEF FetchInv, p, iPort
<1>12. DataInv(c)'
  <2>1. Held(c) = 0 /\ ~InAccess(c)
    BY <1>2, <1>4, <1>6 DEF Held, InAccess
  <2>2. OnTheWay(dPort(c)) = 0
    BY <1>0, <2>1, OnTheWayFacts DEF DataInv
  <2>3. OnTheWay(dPort(c))' = OnTheWay(dPort(c))
    BY <1>0, <1>1, <1>6, <1>7, <1>8 DEF OnTheWay, dPort
  <2>4. Held(c)' = 0 /\ ~InAccess(c)'
    BY <1>1, <1>4, <1>6, <1>a DEF Held, InAccess
  <2> QED
    BY <1>1, <1>3, <1>4, <1>6, <1>a, <2>2, <2>3, <2>4 DEF DataInv, dPort
<1>13. IMCInv'
  BY <1>1, <1>2, <1>3, <1>8, IMCAfterSend
<1> QED
  BY <1>0, <1>1, <1>8, <1>9, <1>10, <1>11, <1>12, <1>13 DEF StepInv, CPUInv, IMCTakesEffect

\* A CPU that has nothing on the way after the step.
LEMMA QuietCPU ==
    ASSUME TypeInv', NEW c \in CPU, status'[c] \in {"Idle", "Running", "Faulting"},
           dcachePkt'[c] = None, outstanding'[c] = 0,
           \A p \in {iPort(c), dPort(c)} :
               pending'[p] = 0 /\ queued'[p] = 0 /\ p \notin answered',
           fetchEvent'[c] => status'[c] \in {"Running", "Faulting"} /\ Stage(c)' = "none",
           status'[c] = "Faulting" => fetchEvent'[c],
           Stage(c)' # "none" => status'[c] = "Running" /\ Stage(c)' # "second",
           c \notin config'.cpus => status'[c] = "Idle"
    PROVE  CPUInv(c)'
<1>0. None \notin {"whole", "low", "high"}
  BY NoneIsNothing
<1>1. OnTheWay(iPort(c))' = 0 /\ OnTheWay(dPort(c))' = 0
  BY DEF OnTheWay, iPort, dPort
<1>2. Held(c)' = 0 /\ ~InAccess(c)'
  BY <1>0 DEF Held, InAccess
<1>3. FetchInv(c)'
  BY <1>1 DEF FetchInv, iPort
<1>4. DataInv(c)'
  BY <1>0, <1>1, <1>2 DEF DataInv, dPort
<1> QED
  BY <1>3, <1>4 DEF CPUInv

\* advanceInst() goes on to the next fetch, or stops for a drain.
LEMMA AdvanceFacts ==
    ASSUME NEW c \in CPU, Advance(c)
    PROVE  /\ Stage(c)' \in {"none", "fetch"}
           /\ \A d \in CPU \ {c} : Stage(d)' = "none"
           /\ dmState' = dmState
<1>1. (call' = None \/ call' = <<"fetch", c>>) /\ dmState' = dmState
  BY DEF Advance, drainVars
<1> QED
  BY <1>1, NextHandler, NoNextHandler DEF Stages

\* An IMC instruction finds the memory free.
LEMMA ExecuteIMCStep ==
    ASSUME IInv, NEW c \in CPU, ExecuteIMC(c)
    PROVE  StepInv'
<1> DEFINE p == dPort(c)
<1>0. /\ TypeInv /\ LayerInv /\ WaitInv /\ IMCInv /\ ~lost /\ p \in Src
      /\ FetchInv(c) /\ TypeInv'
  BY PortFacts, SendingTypes DEF IInv, IMCTakesEffect
<1>1. /\ call = <<"execute", c>> /\ failure = None /\ Programmed("IMC") /\ Advance(c)
      /\ UNCHANGED <<config, status, fetchEvent, dcachePkt, outstanding, answered>>
      /\ \/ AcceptedIMC(p) /\ UNCHANGED lost
         \/ Refused(p) /\ lost' = TRUE
  BY DEF ExecuteIMC, In
<1>2. /\ \A d \in CPU \ {c} : Stage(d) = "none"
      /\ retrying = None /\ status[c] = "Running" /\ ~fetchEvent[c] /\ Stage(c) = "execute"
  BY <1>1, HandlerFacts DEF Stages
<1>3. c \in config.cpus
  BY <1>0, <1>2 DEF FetchInv
<1>4. ~memBusy /\ state = "IDLE"
  BY <1>0, <1>1, <1>2, <1>3 DEF IMCInv
<1>5. ~memRetry /\ waitingForPeer = None
  BY <1>0, <1>4 DEF LayerInv
<1>6. ~Refused(p)
  BY <1>4, <1>5 DEF Refused, BusyLayer, TryTimingRefused, Occupied, BusyMemory
<1>7. AcceptedIMC(p) /\ lost' = lost
  BY <1>1, <1>6
<1>8. /\ \A q \in {iPort(c), dPort(c)} :
            q \notin Waiting /\ pending[q] = 0 /\ queued[q] = 0 /\ q \notin answered
      /\ dcachePkt[c] = None /\ outstanding[c] = 0
  BY <1>2, RunningFacts
<1>9. Accepted(p) /\ pending' = pending /\ queued' = queued
  BY <1>7 DEF AcceptedIMC, Accepted
<1>10. MayAsk(p)
  BY <1>2, <1>8 DEF MayAsk
<1>11. LayerInv' /\ Waiting' = Waiting \ {p} /\ NoAssertFails'
  BY <1>0, <1>9, <1>10, AcceptedLayer DEF NoAssertFails
<1>12. Stage(c)' \in {"none", "fetch"} /\ \A d \in CPU \ {c} : Stage(d)' = "none"
  BY <1>1, AdvanceFacts
<1>13. WaitInv'
  BY <1>0, <1>1, <1>2, <1>8, <1>11, WaitStep
<1>14. \A d \in CPU \ {c} : CPUInv(d)'
  BY <1>0, <1>1, <1>2, <1>9, <1>12, OthersUntouched
<1>15. CPUInv(c)'
  BY <1>0, <1>1, <1>2, <1>3, <1>8, <1>9, <1>12, QuietCPU
<1>16. IMCInv'
  BY <1>1, <1>2, <1>9, <1>12, IMCAfterSend
<1> QED
  BY <1>0, <1>7, <1>11, <1>13, <1>14, <1>15, <1>16 DEF StepInv, IMCTakesEffect

\* fetch() is called from the event, of a CPU that runs or has faulted.
LEMMA FetchEventStep ==
    ASSUME IInv, NEW c \in CPU, FetchEvent(c)
    PROVE  StepInv'
<1>0. TypeInv /\ LayerInv /\ WaitInv /\ ~lost /\ FetchInv(c) /\ TypeInv'
  BY InstructionTypes DEF IInv, IMCTakesEffect
<1>1. /\ failure = None /\ call = None /\ state # "RETRY" /\ fetchEvent[c]
      /\ fetchEvent' = [fetchEvent EXCEPT ![c] = FALSE]
      /\ status' = [status EXCEPT ![c] = "Running"] /\ call' = <<"fetch", c>>
      /\ UNCHANGED <<config, layerVars, dcachePkt, outstanding, answered, memBusy, memRetry,
                     pending, queued, lost, failure>>
  BY DEF FetchEvent, TopLevel, SetStatus, memVars, respVars
<1>2. retrying = None /\ status[c] \in {"Running", "Faulting"} /\ c \in config.cpus
  BY <1>0, <1>1 DEF LayerInv, FetchInv
<1>3. /\ \A d \in CPU : Stage(d) = "none"
      /\ Stage(c)' = "fetch" /\ \A d \in CPU \ {c} : Stage(d)' = "none"
  BY <1>1, NoHandlerFacts, NextHandler DEF Stages
<1>4. LayerInv' /\ Waiting' = Waiting
  BY <1>0, <1>1, <1>2, SameLayer
<1>5. /\ \A q \in {iPort(c), dPort(c)} :
            q \notin Waiting /\ pending[q] = 0 /\ queued[q] = 0 /\ q \notin answered
      /\ dcachePkt[c] = None /\ outstanding[c] = 0
  BY <1>2, RunningFacts
<1>6. /\ status'[c] = "Running" /\ ~fetchEvent'[c]
      /\ \A d \in CPU \ {c} : status'[d] = status[d] /\ fetchEvent'[d] = fetchEvent[d]
  BY <1>0, <1>1, TypeFacts
<1>7. WaitInv'
  BY <1>0, <1>4, <1>5, <1>6, WaitStep
<1>8. \A d \in CPU \ {c} : CPUInv(d)'
  BY <1>0, <1>1, <1>3, <1>6, OthersUntouched
<1>9. CPUInv(c)'
  BY <1>0, <1>1, <1>2, <1>3, <1>5, <1>6, QuietCPU
<1>10. IMCInv'
  BY <1>1, <1>2, <1>3, IMCAfterSend
<1> QED
  BY <1>0, <1>1, <1>4, <1>7, <1>8, <1>9, <1>10 DEF StepInv, IMCTakesEffect, NoAssertFails

\* completeIfetch() runs for the one response to the fetch.
LEMMA CompleteIfetchStep ==
    ASSUME IInv, NEW c \in CPU, CompleteIfetch(c)
    PROVE  StepInv'
<1> DEFINE p == iPort(c)
<1>0. /\ TypeInv /\ LayerInv /\ WaitInv /\ ~lost /\ FetchInv(c) /\ DataInv(c) /\ TypeInv'
      /\ p \in Src /\ dPort(c) \in Src /\ dPort(c) # p
  BY InstructionTypes, PortFacts DEF IInv, IMCTakesEffect
<1>1. /\ failure = None /\ call = None /\ state # "RETRY" /\ p \in answered
      /\ answered' = answered \ {p}
      /\ failure' = IF status[c] = "IcacheWaitResponse" THEN None ELSE "unexpected response"
      /\ status' = [status EXCEPT ![c] = "Running"] /\ call' = <<"execute", c>>
      /\ UNCHANGED <<config, layerVars, fetchEvent, dcachePkt, outstanding, memBusy, memRetry,
                     pending, queued, lost>>
  BY DEF CompleteIfetch, TopLevel, SetStatus, memVars, respVars
<1>2. status[c] = "IcacheWaitResponse" /\ pending[p] = 0 /\ queued[p] = 0
  <2>1. /\ OnTheWay(p) >= 1 + pending[p] + queued[p]
        /\ pending[p] \in Nat /\ queued[p] \in Nat
    BY <1>0, <1>1, OnTheWayFacts
  <2>2. OnTheWay(p) = IF status[c] = "IcacheWaitResponse" THEN 1 ELSE 0
    BY <1>0 DEF FetchInv
  <2> QED
    BY <2>1, <2>2
<1>3. retrying = None /\ ~fetchEvent[c] /\ c \in config.cpus
  BY <1>0, <1>1, <1>2 DEF LayerInv, FetchInv
<1>4. /\ \A d \in CPU : Stage(d) = "none"
      /\ Stage(c)' = "execute" /\ \A d \in CPU \ {c} : Stage(d)' = "none"
  BY <1>1, NoHandlerFacts, NextHandler DEF Stages
<1>5. LayerInv' /\ Waiting' = Waiting
  BY <1>0, <1>1, <1>3, SameLayer
<1>6. /\ p \notin Waiting /\ dPort(c) \notin Waiting
      /\ dcachePkt[c] = None /\ outstanding[c] = 0 /\ OnTheWay(dPort(c)) = 0
  <2>1. /\ p \notin Waiting /\ dPort(c) \notin Waiting /\ dcachePkt[c] = None
        /\ outstanding[c] = 0 /\ ~InAccess(c)
    BY <1>0, <1>2, TypeFacts DEF WaitInv, DataInv, InAccess
  <2>2. Held(c) = 0
    BY <1>0, <2>1, TypeFacts DEF Held
  <2> QED
    BY <1>0, <2>1, <2>2, OnTheWayFacts DEF DataInv
<1>7. \A q \in {p, dPort(c)} : pending'[q] = 0 /\ queued'[q] = 0 /\ q \notin answered'
  BY <1>0, <1>1, <1>2, <1>6, OnTheWayFacts
<1>8. status'[c] = "Running" /\ \A d \in CPU \ {c} : status'[d] = status[d]
  BY <1>0, <1>1, TypeFacts
<1>9. WaitInv'
  BY <1>0, <1>5, <1>6, <1>8, WaitStep
<1>10. \A d \in CPU \ {c} : CPUInv(d)'
  BY <1>0, <1>1, <1>4, <1>8, OthersUntouched
<1>11. CPUInv(c)'
  BY <1>0, <1>1, <1>3, <1>4, <1>6, <1>7, <1>8, QuietCPU
<1>12. IMCInv'
  BY <1>1, <1>4, IMCKept DEF layerVars
<1> QED
  BY <1>0, <1>1, <1>2, <1>5, <1>9, <1>10, <1>11, <1>12 DEF StepInv, IMCTakesEffect, NoAssertFails

\* An instruction that does not touch the memory, a system call, a suspension.
LEMMA ExecuteStep ==
    ASSUME IInv, NEW c \in CPU,
           ExecuteOther(c) \/ ExecuteSyscall(c) \/ ExecuteFutexWait(c)
    PROVE  StepInv'
<1>0. /\ TypeInv /\ LayerInv /\ WaitInv /\ ~lost /\ FetchInv(c) /\ TypeInv'
      /\ \A d \in CPU : FetchInv(d)
  BY InstructionTypes DEF IInv, IMCTakesEffect
<1>1. /\ failure = None /\ \E s \in Stages \ {"second"} : call = <<s, c>>
      /\ UNCHANGED <<config, layerVars, dcachePkt, outstanding, answered, memBusy, memRetry,
                     pending, queued, lost, failure>>
  BY DEF ExecuteOther, ExecuteSyscall, ExecuteFutexWait, In, memVars, respVars, Stages
<1>2. /\ \A d \in CPU \ {c} : Stage(d) = "none"
      /\ retrying = None /\ status[c] = "Running" /\ ~fetchEvent[c]
  BY <1>1, HandlerFacts
<1>3. c \in config.cpus
  BY <1>0, <1>2 DEF FetchInv
<1>4. LayerInv' /\ Waiting' = Waiting
  BY <1>0, <1>1, <1>2, SameLayer
<1>5. Stage(c)' \in {"none", "fetch"} /\ \A d \in CPU \ {c} : Stage(d)' = "none"
  BY AdvanceFacts, NoNextHandler DEF ExecuteOther, ExecuteSyscall, ExecuteFutexWait
<1>6. ASSUME NEW d \in CPU, status[d] \in {"Idle", "Running"}
      PROVE  /\ \A q \in {iPort(d), dPort(d)} :
                   q \notin Waiting' /\ pending'[q] = 0 /\ queued'[q] = 0 /\ q \notin answered'
             /\ dcachePkt'[d] = None /\ outstanding'[d] = 0
  BY <1>1, <1>4, <1>6, RunningFacts
<1>7. IMCInv'
  BY <1>1, <1>2, <1>5, IMCAfterSend
<1>8. CASE ExecuteOther(c)
  <2>1. status' = status /\ fetchEvent' = fetchEvent
    BY <1>8 DEF ExecuteOther
  <2>2. WaitInv'
    BY <1>0, <1>4, <2>1 DEF WaitInv, iPort, dPort
  <2>3. \A d \in CPU \ {c} : CPUInv(d)'
    BY <1>1, <1>2, <1>5, <2>1, OthersUntouched
  <2>4. CPUInv(c)'
    BY <1>0, <1>1, <1>2, <1>3, <1>5, <1>6, <2>1, QuietCPU
  <2> QED
    BY <1>0, <1>1, <1>4, <1>7, <2>2, <2>3, <2>4 DEF StepInv, IMCTakesEffect, NoAssertFails
<1>9. CASE ExecuteFutexWait(c)
  <2>1. status' = [status EXCEPT ![c] = "Idle"] /\ fetchEvent' = fetchEvent /\ call' = None
    BY <1>9 DEF ExecuteFutexWait, SetStatus
  <2>2. status'[c] = "Idle" /\ \A d \in CPU \ {c} : status'[d] = status[d]
    BY <1>0, <2>1, TypeFacts
  <2>3. WaitInv'
    BY <1>0, <1>2, <1>4, <1>6, <2>2, WaitStep
  <2>4. \A d \in CPU \ {c} : CPUInv(d)'
    BY <1>1, <1>2, <1>5, <2>1, <2>2, OthersUntouched
  <2>5. Stage(c)' = "none"
    BY <2>1, NoNextHandler
  <2>6. CPUInv(c)'
    BY <1>0, <1>1, <1>2, <1>3, <1>6, <2>1, <2>2, <2>5, QuietCPU
  <2> QED
    BY <1>0, <1>1, <1>4, <1>7, <2>3, <2>4, <2>6 DEF StepInv, IMCTakesEffect, NoAssertFails
<1>10. CASE ExecuteSyscall(c)
  <2>1. PICK woken \in SUBSET {d \in config.cpus : status[d] = "Idle"} :
           /\ status' = [d \in CPU |-> IF d = c THEN "Faulting"
                                       ELSE IF d \in woken THEN "Running"
                                       ELSE status[d]]
           /\ fetchEvent' = [d \in CPU |-> fetchEvent[d] \/ d \in woken \cup {c}]
    BY <1>10 DEF ExecuteSyscall
  <2>2. c \notin woken /\ \A d \in woken : status[d] = "Idle" /\ d \in config.cpus
    BY <1>2, <2>1
  <2>3. \A d \in CPU : Stage(d)' = "none"
    BY <1>10, NoNextHandler DEF ExecuteSyscall
  <2>4. CPUInv(c)'
    <3>1. status'[c] = "Faulting" /\ fetchEvent'[c]
      BY <2>1
    <3> QED
      BY <1>0, <1>1, <1>2, <1>3, <1>6, <2>3, <3>1, QuietCPU
  <2>5. ASSUME NEW d \in CPU \ {c} PROVE CPUInv(d)'
    <3>1. CASE d \in woken
      <4>1. status'[d] = "Running" /\ fetchEvent'[d]
        BY <2>1, <2>2, <3>1
      <4> QED
        BY <1>0, <1>1, <1>6, <2>2, <2>3, <3>1, <4>1, QuietCPU
    <3>2. CASE d \notin woken
      <4>1. status'[d] = status[d] /\ fetchEvent'[d] = fetchEvent[d]
        BY <1>0, <2>1, <3>2, TypeFacts
      <4>2. CPUInv(d)
        BY DEF IInv, CPUInv
      <4> QED
        BY <1>1, <1>2, <2>3, <4>1, <4>2, OtherCPU
    <3> QED
      BY <3>1, <3>2
  <2>6. WaitInv'
    <3>1. ASSUME NEW d \in CPU
          PROVE  /\ iPort(d) \in Waiting' <=> status'[d] = "IcacheRetry"
                 /\ dPort(d) \in Waiting' <=> status'[d] = "DcacheRetry"
      <4>1. CASE d = c \/ d \in woken
        BY <1>2, <1>6, <2>1, <2>2, <4>1
      <4>2. CASE d # c /\ d \notin woken
        BY <1>0, <1>4, <2>1, <4>2 DEF WaitInv
      <4> QED
        BY <4>1, <4>2
    <3> QED
      BY <3>1 DEF WaitInv, iPort, dPort
  <2> QED
    BY <1>0, <1>1, <1>4, <1>7, <2>4, <2>5, <2>6 DEF StepInv, IMCTakesEffect, NoAssertFails
<1> QED
  BY <1>8, <1>9, <1>10

\* completeDataAccess() runs for a response that the CPU waits for, and ends
\* the access with the last fragment.
LEMMA CompleteDataAccessStep ==
    ASSUME IInv, NEW c \in CPU, CompleteDataAccess(c)
    PROVE  StepInv'
<1> DEFINE p == dPort(c)
<1>0. /\ TypeInv /\ LayerInv /\ WaitInv /\ ~lost /\ FetchInv(c) /\ DataInv(c) /\ TypeInv'
      /\ p \in Src /\ iPort(c) \in Src /\ iPort(c) # p
  BY InstructionTypes, PortFacts DEF IInv, IMCTakesEffect
<1>1. /\ failure = None /\ call = None /\ state # "RETRY" /\ p \in answered
      /\ answered' = answered \ {p}
      /\ failure' = IF status[c] = "DcacheWaitResponse" THEN None ELSE "unexpected response"
      /\ outstanding' = [outstanding EXCEPT ![c] = IF FragmentLeft(c) THEN 1 ELSE 0]
      /\ UNCHANGED <<config, layerVars, fetchEvent, dcachePkt, memBusy, memRetry,
                     pending, queued, lost>>
  BY DEF CompleteDataAccess, TopLevel, memVars, respVars
<1>2. /\ pending[p] \in Nat /\ queued[p] \in Nat
      /\ OnTheWay(p) = 1 + pending[p] + queued[p] /\ OnTheWay(p) >= 1
  <2>1. pending[p] \in Nat /\ queued[p] \in Nat
    BY <1>0, OnTheWayFacts
  <2>2. OnTheWay(p) = pending[p] + queued[p] + 1
    BY <1>1 DEF OnTheWay
  <2> QED
    BY <2>1, <2>2
<1>3. \A d \in CPU : Stage(d) = "none"
  BY <1>1, NoHandlerFacts
<1>4. Held(c) \in Nat
  BY DEF Held
<1>5. InAccess(c) /\ status[c] = "DcacheWaitResponse"
  <2>1. InAccess(c)
    BY <1>0, <1>2, <1>4 DEF DataInv
  <2> QED
    BY <1>0, <1>1, <2>1 DEF DataInv, InAccess
<1>6. dcachePkt[c] = None /\ Held(c) = 0
  BY <1>0, <1>5, TypeFacts DEF DataInv, Held
<1>7. /\ 1 + pending[p] + queued[p] = IF outstanding[c] = 0 THEN 1 ELSE outstanding[c]
      /\ outstanding[c] \in 0 .. 2
  <2>1. OnTheWay(p) + Held(c) = IF outstanding[c] = 0 THEN 1 ELSE outstanding[c]
    BY <1>0, <1>3, <1>5 DEF DataInv
  <2> QED
    BY <1>0, <1>2, <1>6, <2>1, TypeFacts
<1>8. /\ retrying = None /\ ~fetchEvent[c] /\ c \in config.cpus
      /\ OnTheWay(iPort(c)) = 0
  BY <1>0, <1>1, <1>5 DEF LayerInv, FetchInv
<1>9. /\ LayerInv' /\ Waiting' = Waiting
      /\ p \notin Waiting /\ iPort(c) \notin Waiting
  BY <1>0, <1>1, <1>5, <1>8, SameLayer DEF WaitInv
<1>10. /\ outstanding'[c] = IF FragmentLeft(c) THEN 1 ELSE 0
       /\ \A d \in CPU \ {c} : outstanding'[d] = outstanding[d]
  BY <1>0, <1>1, TypeFacts
<1>11. CASE FragmentLeft(c)
  <2>1. status' = status /\ call' = call /\ outstanding[c] = 2 /\ outstanding'[c] = 1
    BY <1>10, <1>11 DEF CompleteDataAccess, FragmentLeft
  <2>2. \A d \in CPU : Stage(d)' = "none"
    BY <1>1, <2>1, NoNextHandler
  <2>3. WaitInv'
    BY <1>0, <1>9, <2>1 DEF WaitInv, iPort, dPort
  <2>4. \A d \in CPU \ {c} : CPUInv(d)'
    BY <1>0, <1>1, <1>3, <1>10, <2>1, <2>2, OthersUntouched
  <2>5. FetchInv(c)'
    <3>1. OnTheWay(iPort(c))' = OnTheWay(iPort(c))
      BY <1>0, <1>1 DEF OnTheWay, iPort
    <3> QED
      BY <1>0, <1>1, <1>5, <1>8, <2>1, <2>2, <3>1 DEF FetchInv, iPort
  <2>6. DataInv(c)'
    <3>1. OnTheWay(p)' = pending[p] + queued[p]
      <4>1. p \notin answered' /\ pending'[p] = pending[p] /\ queued'[p] = queued[p]
        BY <1>1
      <4>2. OnTheWay(p)' = pending[p] + queued[p] + 0
        BY <4>1 DEF OnTheWay, dPort
      <4> QED
        BY <1>2, <4>2
    <3>2. Held(c)' = 0 /\ InAccess(c)' /\ Programmed("Split")'
      BY <1>0, <1>1, <1>5, <1>6, <2>1, TypeFacts DEF Held, InAccess, Programmed, DataInv
    <3>3. OnTheWay(p)' + Held(c)' = 1
      BY <1>2, <1>7, <2>1, <3>1, <3>2
    <3> QED
      BY <1>0, <1>1, <1>5, <1>6, <2>1, <2>2, <3>2, <3>3, TypeFacts DEF DataInv, dPort
  <2>7. IMCInv'
    BY <1>0, <1>1, <1>3, <2>2, IMCKept DEF layerVars
  <2> QED
    BY <1>0, <1>1, <1>5, <1>9, <2>3, <2>4, <2>5, <2>6, <2>7
    DEF StepInv, CPUInv, IMCTakesEffect, NoAssertFails
<1>12. CASE ~FragmentLeft(c)
  <2>1. /\ status' = [status EXCEPT ![c] = "Running"]
        /\ Advance(c) \/ call' = <<"microop", c>>
    BY <1>12 DEF CompleteDataAccess, SetStatus
  <2>2. /\ Stage(c)' \in {"none", "fetch", "microop"}
        /\ \A d \in CPU \ {c} : Stage(d)' = "none"
    BY <2>1, AdvanceFacts, NextHandler DEF Stages
  <2>3. status'[c] = "Running" /\ \A d \in CPU \ {c} : status'[d] = status[d]
    BY <1>0, <2>1, TypeFacts
  <2>4. pending[p] = 0 /\ queued[p] = 0 /\ outstanding'[c] = 0
    BY <1>2, <1>7, <1>10, <1>12 DEF FragmentLeft
  <2>5. \A q \in {iPort(c), p} : pending'[q] = 0 /\ queued'[q] = 0 /\ q \notin answered'
    BY <1>0, <1>1, <1>8, <2>4, OnTheWayFacts
  <2>6. WaitInv'
    BY <1>0, <1>9, <2>3, WaitStep
  <2>7. \A d \in CPU \ {c} : CPUInv(d)'
    BY <1>0, <1>1, <1>3, <1>10, <2>2, <2>3, OthersUntouched
  <2>8. CPUInv(c)'
    BY <1>0, <1>1, <1>6, <1>8, <2>2, <2>3, <2>4, <2>5, QuietCPU
  <2>9. IMCInv'
    BY <1>0, <1>1, <1>3, <2>2, IMCKept DEF layerVars
  <2> QED
    BY <1>0, <1>1, <1>5, <1>9, <2>6, <2>7, <2>8, <2>9
    DEF StepInv, IMCTakesEffect, NoAssertFails
<1> QED
  BY <1>11, <1>12

\* A step that moves a response of port p on its way, and changes nothing else
\* of the CPUs.
LEMMA ResponseMoves ==
    ASSUME IInv, TypeInv', NEW c \in CPU, NEW p \in {iPort(c), dPort(c)}, call = None,
           UNCHANGED <<config, layerVars, memBusy, memRetry, status, fetchEvent, dcachePkt,
                       outstanding, call, lost>>,
           OnTheWay(p)' = OnTheWay(p), p = dPort(c) => status[c] # "DcacheRetry",
           \A q \in Src \ {p} : /\ pending'[q] = pending[q] /\ queued'[q] = queued[q]
                                /\ q \in answered' <=> q \in answered
    PROVE  LayerInv' /\ WaitInv' /\ IMCTakesEffect' /\ \A d \in CPU : CPUInv(d)'
<1>0. /\ TypeInv /\ LayerInv /\ WaitInv /\ IMCTakesEffect /\ FetchInv(c) /\ DataInv(c)
      /\ iPort(c) \in Src /\ dPort(c) \in Src /\ iPort(c) # dPort(c)
  BY PortFacts DEF IInv
<1>1. LayerInv' /\ Waiting' = Waiting
  BY <1>0, SameLayer
<1>2. WaitInv'
  BY <1>0, <1>1 DEF WaitInv, iPort, dPort
<1>3. \A d \in CPU : Stage(d) = "none" /\ Stage(d)' = "none"
  BY NoHandlerFacts, NoNextHandler
<1>4. \A d \in CPU \ {c} : CPUInv(d)'
  BY <1>3, OthersUntouched
<1>5. \A q \in Src : OnTheWay(q)' = OnTheWay(q)
  <2>1. \A q \in Src \ {p} : OnTheWay(q)' = OnTheWay(q)
    BY DEF OnTheWay
  <2> QED
    BY <2>1
<1>6. OnTheWay(iPort(c))' = OnTheWay(iPort(c)) /\ OnTheWay(dPort(c))' = OnTheWay(dPort(c))
  BY <1>0, <1>5 DEF iPort, dPort
<1>7. FetchInv(c)'
  BY <1>0, <1>3, <1>6 DEF FetchInv, iPort
<1>8. DataInv(c)'
  <2>1. Held(c)' = Held(c) /\ (InAccess(c)' <=> InAccess(c))
    BY DEF Held, InAccess
  <2>2. status[c] = "DcacheRetry" => queued'[dPort(c)] = 0 /\ dPort(c) \notin answered'
    <3>1. SUFFICES ASSUME status[c] = "DcacheRetry"
                   PROVE  queued'[dPort(c)] = 0 /\ dPort(c) \notin answered'
      OBVIOUS
    <3>2. dPort(c) # p
      BY <3>1
    <3> QED
      BY <1>0, <3>1, <3>2 DEF DataInv
  <2> QED
    BY <1>0, <1>3, <1>6, <2>1, <2>2 DEF DataInv, dPort, Programmed
<1> QED
  BY <1>0, <1>1, <1>2, <1>4, <1>7, <1>8 DEF CPUInv, IMCTakesEffect

\* PIMCtrl::dequeue() and CoherentXBar::recvTimingResp.
LEMMA MemRespondStep ==
    ASSUME IInv, NEW p \in Src, MemRespond(p)
    PROVE  StepInv'
<1>0. /\ TypeInv /\ TypeInv' /\ Suited /\ WaitInv /\ IMCInv /\ failure = None /\ call = None
  BY MachineTypes DEF IInv, MemRespond, TopLevel
<1>1. PICK c \in CPU : p[1] = c /\ p \in {iPort(c), dPort(c)}
  BY PortFacts
<1>2. /\ pending[p] > 0
      /\ config.fast => RequestsThrough(c)
      /\ pending' = [pending EXCEPT ![p] = @ - 1] /\ queued' = [queued EXCEPT ![p] = @ + 1]
      /\ UNCHANGED <<config, layerVars, memBusy, memRetry, status, fetchEvent, dcachePkt,
                     outstanding, call, answered, lost, failure>>
  BY <1>1 DEF MemRespond, cpuVars
<1>3. /\ pending'[p] = pending[p] - 1 /\ queued'[p] = queued[p] + 1
      /\ \A q \in Src \ {p} : pending'[q] = pending[q] /\ queued'[q] = queued[q]
  BY <1>0, <1>2, TypeFacts
<1>4. OnTheWay(p)' = OnTheWay(p)
  <2>1. pending[p] \in Nat /\ queued[p] \in Nat
    BY <1>0, OnTheWayFacts
  <2>2. pending'[p] + queued'[p] = pending[p] + queued[p]
    BY <1>3, <2>1
  <2> QED
    BY <1>2, <2>2 DEF OnTheWay
<1>5. p = dPort(c) => status[c] # "DcacheRetry"
  <2>1. SUFFICES ASSUME p = dPort(c), status[c] = "DcacheRetry" PROVE FALSE
    OBVIOUS
  <2>2. DataInv(c)
    BY DEF IInv
  <2>3. dcachePkt[c] \in {"whole", "low", "high"} /\ InAccess(c)
    BY <1>0, <2>1, <2>2, TypeFacts DEF DataInv, InAccess
  <2>4. OnTheWay(p) >= 1
    BY <1>0, <1>2, OnTheWayFacts
  <2>5. Held(c) = IF dcachePkt[c] = "low" THEN 2 ELSE 1
    BY <1>0, <2>3, TypeFacts DEF Held
  <2>6. Stage(c) = "none"
    BY <1>0, NoHandlerFacts
  <2>7. outstanding[c] = 2
    BY <1>0, <2>1, <2>2, <2>3, <2>4, <2>5, <2>6, OnTheWayFacts DEF DataInv
  <2>8. Programmed("Split")
    BY <2>2, <2>7 DEF DataInv
  <2>9. dPort(c) \notin Waiting
    BY <1>0, <1>2, <2>8 DEF Suited, RequestsThrough
  <2> QED
    BY <1>0, <2>1, <2>9 DEF WaitInv
<1>6. LayerInv' /\ WaitInv' /\ IMCTakesEffect' /\ \A d \in CPU : CPUInv(d)'
  BY <1>0, <1>1, <1>2, <1>3, <1>4, <1>5, ResponseMoves
<1>7. IMCInv'
  <2> SUFFICES ASSUME Programmed("IMC")', NEW e \in config.cpus,
                      queued'[iPort(e)] > 0 \/ iPort(e) \in answered' \/ Stage(e)' = "execute"
               PROVE  ~memBusy /\ state = "IDLE"
    BY <1>2 DEF IMCInv, iPort, layerVars
  <2>1. e \in CPU
    BY <1>0, ConfigsAssumption DEF TypeInv, TypeOK
  <2>2. Stage(e) = "none" /\ Stage(e)' = "none"
    BY <1>0, <1>2, <2>1, NoHandlerFacts, NoNextHandler
  <2>3. Programmed("IMC")
    BY <1>2 DEF Programmed
  <2>4. CASE p = iPort(e)
    <3>1. config.fast /\ config.cpus = {e} /\ e = c
      BY <1>0, <1>1, <2>1, <2>3, <2>4, PortFacts DEF Suited
    <3> QED
      BY <1>2, <3>1 DEF RequestsThrough
  <2>5. CASE p # iPort(e)
    <3>1. queued[iPort(e)] > 0 \/ iPort(e) \in answered
      BY <1>2, <1>3, <2>1, <2>2, <2>5, PortFacts
    <3> QED
      BY <1>0, <2>3, <3>1 DEF IMCInv
  <2> QED
    BY <2>4, <2>5
<1> QED
  BY <1>0, <1>2, <1>6, <1>7 DEF StepInv, NoAssertFails

\* The responses reach the CPU that waits for them.
LEMMA ResponseStep ==
    ASSUME IInv, NEW c \in CPU,
           IcacheResponse(c) \/ DcacheResponse(c) \/ DcacheRespRetry(c)
    PROVE  StepInv'
<1>0. /\ TypeInv /\ TypeInv' /\ FetchInv(c) /\ DataInv(c) /\ PathInv
      /\ iPort(c) \in Src /\ dPort(c) \in Src /\ iPort(c) # dPort(c)
  BY ResponseTypes, PortFacts DEF IInv, TypeInv
<1>1. /\ failure = None /\ call = None
      /\ UNCHANGED <<config, layerVars, memBusy, memRetry, status, fetchEvent, dcachePkt,
                     outstanding, call, pending, lost>>
  BY DEF IcacheResponse, DcacheResponse, DcacheRespRetry, TopLevel
<1>2. \A d \in CPU : Stage(d) = "none" /\ Stage(d)' = "none"
  BY <1>1, NoHandlerFacts, NoNextHandler
<1>3. ASSUME NEW p \in {iPort(c), dPort(c)}, queued[p] > 0, p \notin answered,
             DeliverResponse(p)
      PROVE  /\ OnTheWay(p)' = OnTheWay(p)
             /\ \A q \in Src \ {p} : queued'[q] = queued[q] /\ (q \in answered' <=> q \in answered)
             /\ \A d \in CPU : (queued'[iPort(d)] > 0 \/ iPort(d) \in answered') =>
                                  (queued[iPort(d)] > 0 \/ iPort(d) \in answered)
  <2>1. p \in Src /\ queued \in [Src -> Nat] /\ pending[p] \in Nat
    BY <1>0, <1>3, TypeFacts, OnTheWayFacts
  <2>2. /\ answered' = answered \cup {p} /\ queued'[p] = queued[p] - 1
        /\ \A q \in Src \ {p} : queued'[q] = queued[q]
    BY <1>3, <2>1 DEF DeliverResponse
  <2>3. OnTheWay(p)' = pending[p] + (queued[p] - 1) + 1
    BY <1>1, <2>2 DEF OnTheWay
  <2>4. OnTheWay(p) = pending[p] + queued[p] + 0
    BY <1>3 DEF OnTheWay
  <2>5. queued[p] \in Nat
    BY <2>1
  <2>6. OnTheWay(p)' = OnTheWay(p)
    BY <2>1, <2>3, <2>4, <2>5
  <2> QED
    BY <1>3, <2>2, <2>6, PortFacts
<1>4. CASE IcacheResponse(c)
  <2>1. /\ queued[iPort(c)] > 0 /\ DeliverResponse(iPort(c))
        /\ failure' = IF iPort(c) \in answered THEN "unexpected response" ELSE None
    BY <1>4 DEF IcacheResponse
  <2>2. iPort(c) \notin answered
    <3>1. OnTheWay(iPort(c)) <= 1 /\ OnTheWay(iPort(c)) \in Nat
      BY <1>0, OnTheWayFacts DEF FetchInv
    <3>2. /\ pending[iPort(c)] \in Nat /\ queued[iPort(c)] \in Nat
          /\ iPort(c) \in answered =>
                OnTheWay(iPort(c)) >= 1 + pending[iPort(c)] + queued[iPort(c)]
      BY <1>0, OnTheWayFacts
    <3>3. queued[iPort(c)] > 0
      BY <2>1
    <3> QED
      BY <3>1, <3>2, <3>3
  <2>3. LayerInv' /\ WaitInv' /\ IMCTakesEffect' /\ \A d \in CPU : CPUInv(d)'
    BY <1>0, <1>1, <1>3, <2>1, <2>2, ResponseMoves
  <2>4. IMCInv'
    BY <1>1, <1>2, <1>3, <2>1, <2>2, IMCKept DEF layerVars
  <2> QED
    BY <2>1, <2>2, <2>3, <2>4 DEF StepInv, NoAssertFails
<1>5. CASE DcacheResponse(c) \/ DcacheRespRetry(c)
  <2>1. /\ queued[dPort(c)] > 0 /\ failure' = failure
        /\ \/ DeliverResponse(dPort(c)) /\ dPort(c) \notin answered
           \/ answered' = answered /\ queued' = queued
    BY <1>0, <1>5 DEF DcacheResponse, DcacheRespRetry, PathInv
  <2>2. status[c] # "DcacheRetry"
    BY <1>0, <2>1 DEF DataInv
  <2>3. CASE DeliverResponse(dPort(c)) /\ dPort(c) \notin answered
    <3>1. LayerInv' /\ WaitInv' /\ IMCTakesEffect' /\ \A d \in CPU : CPUInv(d)'
      BY <1>0, <1>1, <1>3, <2>1, <2>2, <2>3, ResponseMoves
    <3>2. IMCInv'
      BY <1>1, <1>2, <1>3, <2>1, <2>3, IMCKept DEF layerVars
    <3> QED
      BY <1>1, <2>1, <3>1, <3>2 DEF StepInv, NoAssertFails
  <2>4. CASE answered' = answered /\ queued' = queued
    <3>1. OnTheWay(dPort(c))' = OnTheWay(dPort(c))
      BY <1>1, <2>4 DEF OnTheWay, dPort
    <3>2. LayerInv' /\ WaitInv' /\ IMCTakesEffect' /\ \A d \in CPU : CPUInv(d)'
      BY <1>0, <1>1, <2>2, <2>4, <3>1, ResponseMoves
    <3>3. IMCInv'
      BY <1>1, <1>2, <2>4, IMCKept DEF layerVars
    <3> QED
      BY <1>1, <2>1, <3>2, <3>3 DEF StepInv, NoAssertFails
  <2> QED
    BY <2>1, <2>3, <2>4
<1> QED
  BY <1>4, <1>5

\* The two release events.
LEMMA ReleaseStep ==
    ASSUME IInv, LayerRelease \/ MemRelease
    PROVE  StepInv'
<1>0. TypeInv /\ LayerInv /\ WaitInv /\ IMCTakesEffect /\ NoAssertFails
  BY DEF IInv
<1>1. /\ call = None /\ UNCHANGED <<config, status, fetchEvent, dcachePkt, outstanding, call,
                                    answered, pending, queued, lost, failure>>
  BY DEF LayerRelease, MemRelease, TopLevel, cpuVars, memVars, respVars
<1>2. LayerInv' /\ Waiting' = Waiting
  BY <1>0, ReleaseLayers
<1>3. WaitInv'
  BY <1>0, <1>1, <1>2 DEF WaitInv, iPort, dPort
<1>4. \A d \in CPU : Stage(d) = "none" /\ Stage(d)' = "none"
  BY <1>1, NoHandlerFacts, NoNextHandler
<1>5. \A d \in CPU : CPUInv(d)'
  BY <1>1, <1>4, OtherCPU DEF IInv, CPUInv
<1>6. ~(~memBusy /\ state = "IDLE") \/ (~memBusy' /\ state' = "IDLE")
  BY <1>0 DEF LayerRelease, ReleaseLayer, MemRelease, LayerInv
<1>7. IMCInv'
  BY <1>1, <1>4, <1>6, IMCKept
<1> QED
  BY <1>0, <1>1, <1>2, <1>3, <1>5, <1>7 DEF StepInv, NoAssertFails, IMCTakesEffect

-----------------------------------------------------------------------------
(* Draining.                                                               *)

\* Between handlers, the objects that drain() is asked of know of all there is
\* in flight.
LEMMA NothingLeft ==
    ASSUME IInv, call = None
    PROVE  MustDrain = {} /\ state = "IDLE" <=> InFlight = {}
<1>0. TypeInv /\ WaitInv /\ \A c \in CPU : FetchInv(c) /\ DataInv(c)
  BY DEF IInv
<1>1. ASSUME MustDrain = {}, state = "IDLE" PROVE InFlight = {}
  <2>1. \A c \in CPU : CPUDrained(c) /\ status[c] \in {"Idle", "Running"}
    BY <1>1 DEF MustDrain, CPUDrained
  <2>2. \A c \in CPU : /\ dcachePkt[c] = None /\ ~(outstanding[c] > 0)
                       /\ \A p \in {iPort(c), dPort(c)} : p \notin Waiting /\ ~(OnTheWay(p) > 0)
    BY <2>1, RunningFacts
  <2>3. \A p \in Src : p \notin Waiting /\ ~(OnTheWay(p) > 0)
    BY <2>2, PortFacts
  <2> QED
    BY <1>1, <2>1, <2>2, <2>3 DEF InFlight
<1>2. ASSUME InFlight = {} PROVE MustDrain = {} /\ state = "IDLE"
  <2>1. /\ state = "IDLE" /\ \A c \in CPU : CPUDrained(c)
        /\ \A p \in Src : ~(OnTheWay(p) > 0)
    BY <1>2 DEF InFlight
  <2>2. \A p \in Src : ~(pending[p] > 0) /\ ~(queued[p] > 0)
    BY <1>0, <2>1, OnTheWayFacts
  <2> QED
    BY <2>1, <2>2 DEF MustDrain
<1> QED
  BY <1>1, <1>2

\* A drained system.
LEMMA DrainedFacts ==
    ASSUME IInv, dmState = "Drained"
    PROVE  /\ call = None /\ state = "IDLE" /\ InFlight = {} /\ ~releaseEvent /\ ~memRetry
           /\ \A c \in CPU : status[c] \in {"Idle", "Running"} /\ ~fetchEvent[c]
           /\ \A p \in Src : pending[p] = 0 /\ queued[p] = 0 /\ p \notin answered
           /\ respRetry = {}
<1>0. TypeInv /\ LayerInv /\ \A c \in CPU : FetchInv(c)
  BY DEF IInv
<1>1. call = None /\ state = "IDLE" /\ MustDrain = {}
  BY DEF IInv, DrainedInv
<1>2. InFlight = {} /\ ~releaseEvent
  BY <1>0, <1>1, NothingLeft DEF LayerInv
<1>3. \A c \in CPU : status[c] \in {"Idle", "Running"} /\ ~fetchEvent[c]
  BY <1>0, <1>1 DEF MustDrain, CPUDrained, FetchInv
<1>4. \A p \in Src : pending[p] = 0 /\ queued[p] = 0 /\ p \notin answered /\ p \notin Waiting
  BY <1>3, RunningFacts, PortFacts
<1>5. ~memRetry
  <2>1. SUFFICES ASSUME memRetry PROVE FALSE
    OBVIOUS
  <2>2. waitingForPeer \in Src /\ waitingForPeer # None
    BY <1>0, <2>1 DEF TypeInv, PathInv, TypeOK, LayerTypeOK
  <2>3. waitingForPeer \in Waiting
    BY <2>2 DEF Waiting
  <2> QED
    BY <1>4, <2>2, <2>3
<1>6. respRetry = {}
  <2>1. \A c \in respRetry : c \in CPU /\ queued[dPort(c)] > 0
    BY <1>0 DEF TypeInv, TypeOK, PathInv
  <2>2. \A c \in CPU : queued[dPort(c)] = 0
    BY <1>4, PortFacts
  <2> QED
    BY <2>1, <2>2
<1> QED
  BY <1>1, <1>2, <1>3, <1>4, <1>5, <1>6

\* No handler is under way and no event but the controller's release is
\* scheduled in a drained system.
LEMMA DrainedIsQuiet ==
    ASSUME IInv,
           \/ \E c \in CPU :
                 \/ FetchEvent(c) \/ Fetch(c) \/ CompleteIfetch(c)
                 \/ ExecuteOther(c) \/ ExecuteIMC(c)
                 \/ ExecuteSyscall(c) \/ ExecuteFutexWait(c)
                 \/ ExecuteMem(c) \/ ExecuteSplit(c) \/ SendSecond(c)
                 \/ CompleteDataAccess(c)
                 \/ IcacheReqRetry(c) \/ DcacheReqRetry(c)
                 \/ IcacheResponse(c) \/ DcacheResponse(c) \/ DcacheRespRetry(c)
           \/ LayerRelease
           \/ \E p \in Src : MemRespond(p)
    PROVE  dmState # "Drained" /\ dmState' = dmState
<1>1. CASE \E c \in CPU : \/ Fetch(c) \/ ExecuteOther(c) \/ ExecuteIMC(c)
                          \/ ExecuteSyscall(c) \/ ExecuteFutexWait(c)
                          \/ ExecuteMem(c) \/ ExecuteSplit(c) \/ SendSecond(c)
  <2>1. PICK c \in CPU : \/ Fetch(c) \/ ExecuteOther(c) \/ ExecuteIMC(c)
                         \/ ExecuteSyscall(c) \/ ExecuteFutexWait(c)
                         \/ ExecuteMem(c) \/ ExecuteSplit(c) \/ SendSecond(c)
    BY <1>1
  <2>2. \E s \in Stages : call = <<s, c>>
    BY <2>1 DEF Fetch, ExecuteOther, ExecuteIMC, ExecuteSyscall, ExecuteFutexWait, ExecuteMem,
                ExecuteSplit, SendSecond, In, Stages
  <2>3. call # None
    BY <2>2, StageFacts
  <2>4. dmState' = dmState
    BY <2>1, AdvanceFacts DEF Fetch, ExecuteOther, ExecuteIMC, ExecuteSyscall,
         ExecuteFutexWait, ExecuteMem, ExecuteSplit, SendSecond, drainVars
  <2> QED
    BY <2>3, <2>4, DrainedFacts
<1>2. CASE \E c \in CPU : FetchEvent(c) \/ CompleteIfetch(c) \/ CompleteDataAccess(c)
  <2>1. PICK c \in CPU : FetchEvent(c) \/ CompleteIfetch(c) \/ CompleteDataAccess(c)
    BY <1>2
  <2>2. fetchEvent[c] \/ iPort(c) \in answered \/ dPort(c) \in answered
    BY <2>1 DEF FetchEvent, CompleteIfetch, CompleteDataAccess
  <2>3. dmState' = dmState
    BY <2>1, AdvanceFacts DEF FetchEvent, CompleteIfetch, CompleteDataAccess, drainVars
  <2> QED
    BY <2>2, <2>3, DrainedFacts, PortFacts
<1>3. CASE \E c \in CPU : \/ IcacheReqRetry(c) \/ DcacheReqRetry(c)
                          \/ IcacheResponse(c) \/ DcacheResponse(c) \/ DcacheRespRetry(c)
  <2>1. PICK c \in CPU : \/ IcacheReqRetry(c) \/ DcacheReqRetry(c)
                         \/ IcacheResponse(c) \/ DcacheResponse(c) \/ DcacheRespRetry(c)
    BY <1>3
  <2>2. state = "RETRY" \/ queued[iPort(c)] > 0 \/ queued[dPort(c)] > 0 \/ c \in respRetry
    BY <2>1 DEF IcacheReqRetry, DcacheReqRetry, IcacheResponse, DcacheResponse,
                DcacheRespRetry
  <2>3. dmState' = dmState
    BY <2>1 DEF IcacheReqRetry, DcacheReqRetry, IcacheResponse, DcacheResponse,
                DcacheRespRetry, drainVars
  <2> QED
    BY <2>2, <2>3, DrainedFacts, PortFacts
<1>4. CASE LayerRelease \/ \E p \in Src : MemRespond(p)
  <2>1. releaseEvent \/ \E p \in Src : pending[p] > 0
    BY <1>4 DEF LayerRelease, ReleaseLayer, MemRespond
  <2>2. dmState' = dmState
    BY <1>4 DEF LayerRelease, MemRespond, drainVars
  <2> QED
    BY <2>1, <2>2, DrainedFacts
<1> QED
  BY <1>1, <1>2, <1>3, <1>4

\* tryDrain() asks, and resume() restarts a quiet system.
LEMMA DrainStep ==
    ASSUME IInv, TryDrain \/ DrainResume
    PROVE  StepInv' /\ DrainedInv'
<1>0. /\ TypeInv /\ TypeInv' /\ LayerInv /\ WaitInv /\ IMCTakesEffect /\ NoAssertFails
      /\ \A c \in CPU : FetchInv(c)
  BY MachineTypes DEF IInv
<1>1. /\ call = None /\ failure = None /\ state # "RETRY"
      /\ UNCHANGED <<config, state, waitingForLayer, waitingForPeer, releaseEvent, retrying>>
      /\ UNCHANGED <<status, dcachePkt, outstanding, call, answered, memBusy, memRetry,
                     pending, queued, lost>>
  BY DEF TryDrain, DrainResume, DrainLayer, ResumeLayer, TopLevel, cpuVars, memVars, respVars
<1>2. LayerInv' /\ Waiting' = Waiting
  BY <1>0, <1>1 DEF LayerInv, Waiting
<1>3. WaitInv'
  BY <1>0, <1>1, <1>2 DEF WaitInv, iPort, dPort
<1>4. \A d \in CPU : Stage(d) = "none" /\ Stage(d)' = "none"
  BY <1>1, NoHandlerFacts, NoNextHandler
<1>5. IMCInv'
  BY <1>1, <1>4, IMCKept
<1>6. CASE TryDrain
  <2>1. UNCHANGED <<fetchEvent, failure>>
    BY <1>6 DEF TryDrain, cpuVars
  <2>2. \A d \in CPU : CPUInv(d)'
    BY <1>1, <1>4, <2>1, OtherCPU DEF IInv, CPUInv
  <2>3. dmState' = "Drained" => MustDrain = {} /\ state = "IDLE"
    BY <1>6 DEF TryDrain, DrainLayer
  <2>4. MustDrain' = MustDrain
    BY <1>1, <2>1 DEF MustDrain, CPUDrained
  <2>5. DrainedInv'
    BY <1>1, <2>3, <2>4 DEF DrainedInv
  <2> QED
    BY <1>0, <1>1, <1>2, <1>3, <1>5, <2>1, <2>2, <2>5 DEF StepInv, NoAssertFails, IMCTakesEffect
<1>7. CASE DrainResume
  <2>1. /\ dmState = "Drained" /\ dmState' = "Running"
        /\ failure' = IF \E c \in CPU : fetchEvent[c] THEN "fetch scheduled" ELSE None
        /\ fetchEvent' = [c \in CPU |-> status[c] = "Running"]
    BY <1>7 DEF DrainResume
  <2>2. failure' = None
    BY <2>1, DrainedFacts
  <2>3. ASSUME NEW d \in CPU PROVE CPUInv(d)'
    <3>1. status[d] \in {"Idle", "Running"} /\ (fetchEvent'[d] <=> status[d] = "Running")
      BY <2>1, DrainedFacts
    <3>2. /\ \A q \in {iPort(d), dPort(d)} :
                pending[q] = 0 /\ queued[q] = 0 /\ q \notin answered
          /\ dcachePkt[d] = None /\ outstanding[d] = 0
      BY <3>1, RunningFacts
    <3>3. d \notin config.cpus => status[d] = "Idle"
      BY <1>0 DEF FetchInv
    <3> QED
      BY <1>0, <1>1, <1>4, <3>1, <3>2, <3>3, QuietCPU
  <2>4. DrainedInv'
    BY <2>1 DEF DrainedInv
  <2> QED
    BY <1>0, <1>1, <1>2, <1>3, <1>5, <2>2, <2>3, <2>4 DEF StepInv, NoAssertFails, IMCTakesEffect
<1> QED
  BY <1>6, <1>7

-----------------------------------------------------------------------------
(* The invariant.                                                          *)

LEMMA InitIInv == Init /\ Suited => IInv
<1> SUFFICES ASSUME Init, Suited PROVE IInv
  OBVIOUS
<1>1. TypeInv
  BY InitTypeInv
<1>2. /\ call = None /\ failure = None /\ lost = FALSE /\ answered = {} /\ dmState = "Running"
      /\ memBusy = FALSE /\ memRetry = FALSE
      /\ state = "IDLE" /\ waitingForLayer = <<>> /\ waitingForPeer = None
      /\ releaseEvent = FALSE /\ retrying = None
  BY DEF Init, LayerInit
<1>3. ToSet(waitingForLayer) = {} /\ IsInjective(waitingForLayer)
  BY <1>2 DEF ToSet, IsInjective
<1>4. LayerInv
  BY <1>2, <1>3 DEF LayerInv
<1>5. Waiting = {}
  BY <1>2, <1>3 DEF Waiting
<1>6. \A c \in CPU : /\ status[c] = IF c \in config.cpus THEN "Running" ELSE "Idle"
                     /\ fetchEvent[c] <=> c \in config.cpus
                     /\ dcachePkt[c] = None /\ outstanding[c] = 0
  BY DEF Init
<1>7. WaitInv
  BY <1>5, <1>6 DEF WaitInv
<1>8. \A p \in Src : pending[p] = 0 /\ queued[p] = 0
  BY DEF Init
<1>9. \A d \in CPU : Stage(d) = "none"
  BY <1>2, NoHandlerFacts
<1>10. ASSUME NEW c \in CPU PROVE FetchInv(c) /\ DataInv(c)
  <2>1. /\ iPort(c) \in Src /\ dPort(c) \in Src
        /\ OnTheWay(iPort(c)) = 0 /\ OnTheWay(dPort(c)) = 0
    BY <1>1, <1>2, <1>8, PortFacts, OnTheWayFacts
  <2>2. ~InAccess(c) /\ Held(c) = 0
    BY <1>1, <1>6, TypeFacts DEF InAccess, Held
  <2>3. FetchInv(c)
    BY <1>6, <1>9, <2>1 DEF FetchInv
  <2>4. DataInv(c)
    BY <1>1, <1>6, <1>9, <2>1, <2>2, TypeFacts DEF DataInv
  <2> QED
    BY <2>3, <2>4
<1>11. IMCInv /\ DrainedInv /\ NoAssertFails /\ IMCTakesEffect
  BY <1>2 DEF IMCInv, DrainedInv, NoAssertFails, IMCTakesEffect
<1> QED
  BY <1>1, <1>4, <1>7, <1>10, <1>11 DEF IInv

LEMMA StutterStep ==
    ASSUME IInv, UNCHANGED vars
    PROVE  StepInv' /\ DrainedInv'
<1>0. LayerInv /\ WaitInv /\ IMCTakesEffect /\ NoAssertFails /\ DrainedInv
  BY DEF IInv
<1>1. /\ UNCHANGED <<config, layerVars, status, fetchEvent, dcachePkt, outstanding, call,
                     answered, memBusy, memRetry>>
      /\ UNCHANGED <<pending, queued, dmState, lost, failure>>
  BY DEF vars, cpuVars, memVars, respVars, drainVars
<1>2. LayerInv' /\ Waiting' = Waiting
  BY <1>0, <1>1, SameLayer
<1>3. WaitInv'
  BY <1>0, <1>1, <1>2 DEF WaitInv, iPort, dPort
<1>4. \A d \in CPU : Stage(d)' = Stage(d)
  BY <1>1 DEF Stage
<1>5. \A d \in CPU : CPUInv(d)'
  BY <1>1, <1>4, OtherCPU DEF IInv, CPUInv
<1>6. IMCInv'
  BY <1>1, <1>4, IMCKept DEF layerVars
<1>7. MustDrain' = MustDrain
  BY <1>1 DEF MustDrain, CPUDrained
<1>8. DrainedInv'
  BY <1>0, <1>1, <1>7 DEF DrainedInv, layerVars
<1> QED
  BY <1>0, <1>1, <1>2, <1>3, <1>5, <1>6, <1>8 DEF StepInv, NoAssertFails, IMCTakesEffect

LEMMA NextIInv == IInv /\ [Next]_vars => IInv'
<1> SUFFICES ASSUME IInv, [Next]_vars PROVE IInv'
  OBVIOUS
<1>1. TypeInv'
  BY NextTypeInv DEF IInv
<1>2. config' = config
  BY DEF Next, vars, FetchEvent, Fetch, CompleteIfetch, ExecuteOther, ExecuteIMC,
         ExecuteSyscall, ExecuteFutexWait, ExecuteMem, ExecuteSplit, SendSecond,
         CompleteDataAccess, IcacheReqRetry, DcacheReqRetry, IcacheResponse, DcacheResponse,
         DcacheRespRetry, LayerRelease, MemRelease, MemRespond, TryDrain, DrainResume
<1>3. Suited'
  BY <1>2 DEF IInv, Suited, Programmed
<1>4. StepInv'
  BY FetchEventStep, FetchStep, CompleteIfetchStep, ExecuteStep, ExecuteIMCStep,
     ExecuteMemStep, ExecuteSplitStep, SendSecondStep, CompleteDataAccessStep,
     IcacheReqRetryStep, DcacheReqRetryStep, ResponseStep, ReleaseStep, MemRespondStep,
     DrainStep, StutterStep
  DEF Next
<1>5. DrainedInv'
  <2>1. CASE MemRelease
    <3>1. UNCHANGED <<dmState, call, status, fetchEvent, pending, queued>>
      BY <2>1 DEF MemRelease, cpuVars, respVars, drainVars
    <3>2. MustDrain' = MustDrain
      BY <3>1 DEF MustDrain, CPUDrained
    <3>3. dmState = "Drained" => state' = state
      BY <2>1, DrainedFacts DEF MemRelease, layerVars
    <3> QED
      BY <3>1, <3>2, <3>3 DEF IInv, DrainedInv
  <2>2. CASE TryDrain \/ DrainResume
    BY <2>2, DrainStep
  <2>3. CASE UNCHANGED vars
    BY <2>3, StutterStep
  <2>4. CASE ~MemRelease /\ ~TryDrain /\ ~DrainResume /\ Next
    <3>1. dmState # "Drained" /\ dmState' = dmState
      BY <2>4, DrainedIsQuiet DEF Next
    <3> QED
      BY <3>1 DEF DrainedInv
  <2> QED
    BY <2>1, <2>2, <2>3, <2>4
<1> QED
  BY <1>1, <1>3, <1>4, <1>5 DEF IInv, StepInv, CPUInv

-----------------------------------------------------------------------------
(* The theorems about suited systems.                                      *)

\* The inductive invariant holds of every system whose memory suits its
\* programs, with any number of CPUs.
THEOREM SystemInvariance == Spec /\ Suited => []IInv
BY InitIInv, NextIInv, PTL DEF Spec

\* No assertion of TimingSimpleCPU and of the layer fails: no retry and no
\* response comes to a CPU that does not wait for it, no port queues twice, and
\* drainResume finds no fetch scheduled.
THEOREM AssertionsHold == Spec /\ Suited => []NoAssertFails
<1>1. IInv => NoAssertFails
  BY DEF IInv
<1> QED
  BY <1>1, SystemInvariance, PTL

\* The ports in the layer's waiting places are those whose CPU waits for
\* recvReqRetry: no CPU waits for a retry that nobody owes it.
THEOREM RetriesAreOwed == Spec /\ Suited => []RetriesMatch
<1>1. IInv => RetriesMatch
  BY DEF IInv, WaitInv, RetriesMatch
<1> QED
  BY <1>1, SystemInvariance, PTL

\* Every response a CPU waits for is held, pending, queued or about to be
\* processed, and there is no other.
THEOREM EveryResponseAwaited == Spec /\ Suited => []ResponsesAreAwaited
<1>1. ASSUME IInv PROVE ResponsesAreAwaited
  <2> SUFFICES ASSUME call = None, NEW c \in CPU
               PROVE  /\ OnTheWay(iPort(c)) = IF status[c] = "IcacheWaitResponse" THEN 1 ELSE 0
                      /\ OnTheWay(dPort(c)) + Held(c) =
                            IF status[c] \notin {"DcacheWaitResponse", "DcacheRetry"} THEN 0
                            ELSE IF outstanding[c] = 0 THEN 1 ELSE outstanding[c]
    BY DEF ResponsesAreAwaited
  <2>1. FetchInv(c) /\ DataInv(c) /\ Stage(c) = "none"
    BY <1>1, NoHandlerFacts DEF IInv
  <2> QED
    BY <2>1 DEF FetchInv, DataInv, InAccess
<1> QED
  BY <1>1, SystemInvariance, PTL

\* The request of an IMC instruction, whose result the CPU ignores, is never
\* refused.
THEOREM IMCIsNeverLost == Spec /\ Suited => []IMCTakesEffect
<1>1. IInv => IMCTakesEffect
  BY DEF IInv
<1> QED
  BY <1>1, SystemInvariance, PTL

-----------------------------------------------------------------------------
(* The refinement of Quiescence.                                           *)

\* Whatever is in flight is an activity of the abstract specification.
LEMMA InFlightIsActivity == InFlight \subseteq CPU \cup Src \cup {ReqLayer}
BY DEF InFlight

LEMMA QuietStep ==
    ASSUME IInv, [Next]_vars
    PROVE  [Quiet!Next]_(Quiet!vars)
<1> DEFINE Act == CPU \cup Src \cup {ReqLayer}
<1>1. InFlight \subseteq Act /\ InFlight' \subseteq Act
  <2>1. InFlight \subseteq Act
    BY InFlightIsActivity
  <2>2. InFlight' \subseteq Act
    BY DEF InFlight
  <2> QED
    BY <2>1, <2>2
<1>2. ASSUME dmState # "Drained", dmState' = dmState
      PROVE  Quiet!Next
  BY <1>1, <1>2 DEF Quiet!Next, Quiet!Work
<1>3. CASE TryDrain
  <2>1. call = None /\ dmState # "Drained"
    BY <1>3 DEF TryDrain, TopLevel
  <2>2. /\ UNCHANGED <<status, fetchEvent, dcachePkt, outstanding, answered, pending, queued>>
        /\ UNCHANGED <<state, waitingForLayer, waitingForPeer, retrying>>
    BY <1>3 DEF TryDrain, DrainLayer, cpuVars, memVars, respVars
  <2>3. InFlight' = InFlight
    BY <2>2 DEF InFlight, OnTheWay, Waiting, CPUDrained
  <2>4. dmState' = IF MustDrain = {} /\ state = "IDLE" THEN "Drained" ELSE "Draining"
    BY <1>3 DEF TryDrain, DrainLayer
  <2>5. dmState' = IF InFlight = {} THEN "Drained" ELSE "Draining"
    BY <2>1, <2>4, NothingLeft
  <2> QED
    BY <2>1, <2>3, <2>5 DEF Quiet!Next, Quiet!TryDrain
<1>4. CASE DrainResume
  BY <1>1, <1>4 DEF DrainResume, Quiet!Next, Quiet!Resume
<1>5. CASE MemRelease
  <2>1. dmState' = dmState
    BY <1>5 DEF MemRelease, drainVars
  <2>2. CASE dmState = "Drained"
    <3>1. /\ UNCHANGED <<status, fetchEvent, dcachePkt, outstanding, answered, pending, queued>>
          /\ UNCHANGED <<state, waitingForLayer, waitingForPeer, retrying>>
      BY <1>5, <2>2, DrainedFacts DEF MemRelease, cpuVars, respVars, layerVars
    <3>2. InFlight' = InFlight
      BY <3>1 DEF InFlight, OnTheWay, Waiting, CPUDrained
    <3> QED
      BY <2>1, <3>2 DEF Quiet!vars
  <2>3. CASE dmState # "Drained"
    BY <1>2, <2>1, <2>3
  <2> QED
    BY <2>2, <2>3
<1>6. CASE UNCHANGED vars
  <2>1. /\ UNCHANGED <<status, fetchEvent, dcachePkt, outstanding, answered, pending, queued>>
        /\ UNCHANGED <<state, waitingForLayer, waitingForPeer, retrying, dmState>>
    BY <1>6 DEF vars, cpuVars, memVars, respVars, layerVars, drainVars
  <2>2. InFlight' = InFlight
    BY <2>1 DEF InFlight, OnTheWay, Waiting, CPUDrained
  <2> QED
    BY <2>1, <2>2 DEF Quiet!vars
<1>7. CASE ~TryDrain /\ ~DrainResume /\ ~MemRelease /\ Next
  <2>1. dmState # "Drained" /\ dmState' = dmState
    BY <1>7, DrainedIsQuiet DEF Next
  <2> QED
    BY <1>2, <2>1
<1> QED
  BY <1>3, <1>4, <1>5, <1>6, <1>7

\* A suited system implements Quiescence: when tryDrain returns true nothing
\* is in flight, and nothing starts until resume().
THEOREM DrainedMeansQuiet == Spec /\ Suited => ImplementsQuiescence
<1>1. Init => Quiet!Init
  BY InFlightIsActivity DEF Init, Quiet!Init
<1>2. IInv /\ [Next]_vars => [Quiet!Next]_(Quiet!vars)
  BY QuietStep
<1> QED
  BY <1>1, <1>2, SystemInvariance, PTL DEF Spec, ImplementsQuiescence, Quiet!Spec

-----------------------------------------------------------------------------
(* The routing table.                                                      *)

RoutesInv == TypeInv /\ RoutesAreOwed /\ ~Programmed("IMC")

\* Of programs without IMC instructions, every entry of the crossbar's routing
\* table is taken out by a response (CoherentXBar::recvTimingResp): the table
\* leaks through IMC packets alone.
THEOREM RoutesOwedWithoutIMC == Spec /\ ~Programmed("IMC") => []RoutesAreOwed
<1>1. Init /\ ~Programmed("IMC") => RoutesInv
  BY InitTypeInv DEF Init, RoutesInv, RoutesAreOwed
<1>2. ASSUME RoutesInv, [Next]_vars PROVE RoutesInv'
  <2>1. TypeInv' /\ TypeInv /\ pending = routeTo /\ ~Programmed("IMC")
    BY <1>2, NextTypeInv DEF RoutesInv, RoutesAreOwed
  <2>2. ASSUME NEW p, AcceptedRequest(p) \/ Refused(p)
        PROVE  pending' = routeTo'
    BY <2>1, <2>2 DEF AcceptedRequest, Accepted, Refused, BusyLayer, BusyMemory, memVars, respVars
  <2>3. pending' = routeTo' /\ config' = config
    <3>1. CASE \E c \in CPU : \/ Fetch(c) \/ ExecuteMem(c) \/ ExecuteSplit(c) \/ SendSecond(c)
                              \/ IcacheReqRetry(c) \/ DcacheReqRetry(c)
      BY <2>1, <2>2, <3>1 DEF Fetch, ExecuteMem, ExecuteSplit, SendSecond, IcacheReqRetry,
           DcacheReqRetry, PacketSent, PacketKept, memVars, respVars
    <3>2. CASE \E c \in CPU : \/ FetchEvent(c) \/ CompleteIfetch(c) \/ ExecuteOther(c)
                              \/ ExecuteSyscall(c) \/ ExecuteFutexWait(c)
                              \/ CompleteDataAccess(c) \/ IcacheResponse(c)
                              \/ DcacheResponse(c) \/ DcacheRespRetry(c)
      BY <2>1, <3>2 DEF FetchEvent, CompleteIfetch, ExecuteOther, ExecuteSyscall,
           ExecuteFutexWait, CompleteDataAccess, IcacheResponse, DcacheResponse,
           DcacheRespRetry, memVars, respVars
    <3>3. CASE \E c \in CPU : ExecuteIMC(c)
      BY <2>1, <3>3 DEF ExecuteIMC
    <3>4. CASE LayerRelease \/ MemRelease \/ TryDrain \/ DrainResume \/ UNCHANGED vars
      BY <2>1, <3>4 DEF LayerRelease, MemRelease, TryDrain, DrainResume, vars, memVars, respVars
    <3>5. CASE \E p \in Src : MemRespond(p)
      BY <2>1, <3>5 DEF MemRespond
    <3> QED
      BY <1>2, <3>1, <3>2, <3>3, <3>4, <3>5 DEF Next
  <2> QED
    BY <2>1, <2>3 DEF RoutesInv, RoutesAreOwed, Programmed
<1>3. RoutesInv => RoutesAreOwed
  BY DEF RoutesInv
<1> QED
  BY <1>1, <1>2, <1>3, PTL DEF Spec

\* What a CPU has in the routing table at a time.
FewRoutes ==
    \A c \in CPU : routeTo[iPort(c)] + routeTo[dPort(c)] <= IF Programmed("Split") THEN 2 ELSE 1

(***************************************************************************)
(* Without IMC instructions a CPU has at most one entry in the routing     *)
(* table, and two where accesses are split: the fetch and the access of an *)
(* instruction are never outstanding together.  The limit that the         *)
(* crossbar checks (512) thus allows for 256 CPUs.                         *)
(***************************************************************************)
THEOREM RoutesAreFew == Spec /\ Suited /\ ~Programmed("IMC") => []FewRoutes
<1>1. ASSUME IInv, RoutesAreOwed PROVE FewRoutes
  <2> SUFFICES ASSUME NEW c \in CPU
               PROVE  routeTo[iPort(c)] + routeTo[dPort(c)] <=
                         IF Programmed("Split") THEN 2 ELSE 1
    BY DEF FewRoutes
  <2> DEFINE i == iPort(c)
             d == dPort(c)
  <2>1. /\ TypeInv /\ FetchInv(c) /\ DataInv(c)
        /\ i \in Src /\ d \in Src
    BY <1>1, PortFacts DEF IInv
  <2>2. routeTo[i] = pending[i] /\ routeTo[d] = pending[d]
    BY <1>1, <2>1 DEF RoutesAreOwed
  <2>3. /\ pending[i] \in Nat /\ OnTheWay(i) \in Nat /\ pending[i] <= OnTheWay(i)
        /\ pending[d] \in Nat /\ OnTheWay(d) \in Nat /\ pending[d] <= OnTheWay(d)
    BY <2>1, OnTheWayFacts, SMT
  <2>4. OnTheWay(i) = IF status[c] = "IcacheWaitResponse" THEN 1 ELSE 0
    BY <2>1 DEF FetchInv
  <2>5. /\ OnTheWay(d) + Held(c) = IF ~InAccess(c) THEN 0
                                   ELSE IF outstanding[c] = 0 \/ Stage(c) = "second" THEN 1
                                   ELSE outstanding[c]
        /\ outstanding[c] > 0 => Programmed("Split")
        /\ Stage(c) = "second" => outstanding[c] = 2
    BY <2>1 DEF DataInv
  <2>6. Held(c) \in Nat /\ outstanding[c] \in 0 .. 2
    BY <2>1, TypeFacts DEF Held
  <2>7. status[c] = "IcacheWaitResponse" => ~InAccess(c)
    BY DEF InAccess
  <2> HIDE DEF i, d
  <2>8. OnTheWay(i) + OnTheWay(d) <= IF Programmed("Split") THEN 2 ELSE 1
    BY <2>3, <2>4, <2>5, <2>6, <2>7, SMT
  <2>9. routeTo[i] + routeTo[d] <= IF Programmed("Split") THEN 2 ELSE 1
    BY <2>2, <2>3, <2>8, SMT
  <2> QED
    BY <2>9 DEF i, d
<1> QED
  BY <1>1, SystemInvariance, RoutesOwedWithoutIMC, PTL
=============================================================================
