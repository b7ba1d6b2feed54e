----------------------------- MODULE IMCSystem ------------------------------
(***************************************************************************)
(* The simulated system of configs/learning_gem5/part1/simple-riscv.py:    *)
(* timing CPUs whose instruction and data ports meet in the request layer  *)
(* of a crossbar in front of the PIM controller, the response path back to *)
(* them, and the drain manager that stops all of it for a checkpoint.  The *)
(* CPU fetches, then executes a load or store (one request it waits for,   *)
(* or two when the access crosses a line), an IMC instruction (a request   *)
(* it sends and forgets), a system call or another instruction, and        *)
(* fetches again.  The controller is reduced to what its peer sees: busy   *)
(* or not, retry owed or not, requests to answer (module PIMCtrl has the   *)
(* rest); a port's packet queue to the number of its responses (module     *)
(* PacketQueue has the rest).  The response layers only delay a response.  *)
(*                                                                         *)
(* The order of events is left open: latencies, bandwidth and clocks are   *)
(* parameters of the system.  What is fixed per system is in `config`,     *)
(* which never changes.  A handler of the CPU that sends several packets   *)
(* is split at the sends; `call` holds what it has left to do, and nothing *)
(* else runs meanwhile.                                                    *)
(***************************************************************************)
EXTENDS Integers, FiniteSets, XBarLayer

CONSTANTS
    CPU,         \* the CPUs
    Memory,      \* the controller, among the drainable objects
    ReqLayer,    \* the request layer, likewise
    Configs,     \* the systems looked at
    MaxRoutes    \* maxRoutingTableSizeCheck (512)

AllKinds == {"IMC", "Mem", "Split", "AMO", "Syscall", "FutexWait", "Other"}

\* The sources of the layer are the ports of the CPUs.
ASSUME PortsAssumption == Src = CPU \X {"i", "d"}
ASSUME MaxRoutesAssumption == MaxRoutes \in Nat

\* No handler, no packet and no failure is none of those there are.
ASSUME NoneIsNothing ==
    /\ None \notin {"fetch", "execute", "microop", "second"} \X CPU
    /\ None \notin {"whole", "low", "high"}
    /\ None \notin {"already waiting", "routing table", "fetch scheduled",
                    "unexpected response", "unexpected retry"}

(***************************************************************************)
(* cpus: the CPUs that have a thread.  kinds: the instructions of their    *)
(* programs.  fast: a CPU's requests are through before the first response *)
(* to them arrives, as with the latency and bandwidth of PIMCtrl.py and    *)
(* few CPUs.  drains: the script drains.                                   *)
(***************************************************************************)
ASSUME ConfigsAssumption ==
    \A cfg \in Configs : /\ cfg.cpus \subseteq CPU
                         /\ cfg.kinds \subseteq AllKinds
                         /\ cfg.fast \in BOOLEAN
                         /\ cfg.drains \in BOOLEAN

VARIABLES
    config,
    routeTo,     \* per port, entries in the crossbar's routing table
    \* the CPUs
    status,      \* _status
    fetchEvent,  \* the event is scheduled
    dcachePkt,   \* what dcache_pkt points to: "whole", "low", "high" or None
    outstanding, \* fragments of a split access that are not completed
    call,        \* <<stage, c>> or None
    answered,    \* ports whose response has arrived (tickEvent is scheduled)
    \* the controller and the response path
    memBusy, memRetry,
    pending,     \* per port, requests that the controller is to answer
    queued,      \* per port, responses in the crossbar port's packet queue
    respRetry,   \* CPUs that refused a response (retryRespEvent)
    \* draining
    dmState,     \* DrainManager::_state
    drainState,  \* of the CPUs, the controller and the packet queues
    \* observations
    lost,        \* an IMC request was refused and dropped
    failure      \* the assertion that stopped the simulator, or None

cpuVars == <<status, fetchEvent, dcachePkt, outstanding, call, answered>>
respVars == <<pending, queued, respRetry>>
memVars == <<memBusy, memRetry, respVars>>
drainVars == <<dmState, drainState>>
vars == <<config, layerVars, routeTo, cpuVars, memVars, drainVars, lost, failure>>

iPort(c) == <<c, "i">>
dPort(c) == <<c, "d">>

\* The drainable objects beside the layer: a port stands for its queue.
Drainable == CPU \cup Src \cup {Memory}

Init ==
    /\ config \in Configs
    /\ LayerInit
    /\ routeTo = [p \in Src |-> 0]
    /\ status = [c \in CPU |-> IF c \in config.cpus THEN "Running" ELSE "Idle"]
    /\ fetchEvent = [c \in CPU |-> c \in config.cpus]
    /\ dcachePkt = [c \in CPU |-> None]
    /\ outstanding = [c \in CPU |-> 0]
    /\ call = None
    /\ answered = {}
    /\ memBusy = FALSE /\ memRetry = FALSE
    /\ pending = [p \in Src |-> 0]
    /\ queued = [p \in Src |-> 0]
    /\ respRetry = {}
    /\ dmState = "Running"
    /\ drainState = [o \in Drainable |-> "Running"]
    /\ lost = FALSE
    /\ failure = None

\* The event loop starts the next handler.
TopLevel == failure = None /\ call = None /\ state # "RETRY"

\* A handler of c is under way, at the given stage.
In(stage, c) == failure = None /\ call = <<stage, c>>

Programmed(kind) == kind \in config.kinds

\* The ports in the layer's lists.
Waiting == ToSet(waitingForLayer) \cup ({waitingForPeer, retrying} \ {None})

\* The requests of c have reached the memory, and if they are the only ones
\* they do not occupy it any more.
RequestsThrough(c) ==
    /\ {iPort(c), dPort(c)} \cap Waiting = {}
    /\ config.cpus = {c} => ~memBusy /\ state = "IDLE"

-----------------------------------------------------------------------------
(***************************************************************************)
(* sendTimingReq on a port of a CPU: CoherentXBar::recvTimingReq and the   *)
(* early returns of PIMCtrl::recvTimingReq.                                *)
(***************************************************************************)
Routes == MapThenSumSet(LAMBDA p : routeTo[p], Src)

\* The layer is occupied.
BusyLayer(p) ==
    /\ TryTimingRefused(p)
    /\ failure' = IF p \in ToSet(waitingForLayer) THEN "already waiting" ELSE None
    /\ UNCHANGED <<routeTo, memVars>>

\* The controller is busy.
BusyMemory(p) ==
    /\ memBusy \/ memRetry
    /\ FailedTiming(p)
    /\ memRetry' = TRUE
    /\ UNCHANGED <<routeTo, memBusy, respVars, failure>>

Refused(p) == BusyLayer(p) \/ BusyMemory(p)

\* The controller takes the packet, and the crossbar expects a response.
Accepted(p) ==
    /\ ~memBusy /\ ~memRetry
    /\ SucceededTiming(p)
    /\ memBusy' \in BOOLEAN
    /\ routeTo' = [routeTo EXCEPT ![p] = @ + 1]
    /\ failure' = IF Routes + 1 > MaxRoutes THEN "routing table" ELSE None
    /\ UNCHANGED <<memRetry, queued, respRetry>>

\* A load, a store or a fetch: the controller will answer.
AcceptedRequest(p) == Accepted(p) /\ pending' = [pending EXCEPT ![p] = @ + 1]

\* An IMC packet: the controller computes and returns.
AcceptedIMC(p) == Accepted(p) /\ UNCHANGED pending

-----------------------------------------------------------------------------
(***************************************************************************)
(* The CPU                                                                 *)
(***************************************************************************)
SetStatus(c, s) == status' = [status EXCEPT ![c] = s]

\* The fetch event, which activateContext, a fault or drainResume scheduled.
FetchEvent(c) ==
    /\ TopLevel
    /\ fetchEvent[c]
    /\ fetchEvent' = [fetchEvent EXCEPT ![c] = FALSE]
    /\ SetStatus(c, "Running")
    /\ call' = <<"fetch", c>>
    /\ UNCHANGED <<config, layerVars, routeTo, dcachePkt, outstanding, answered,
                   memVars, drainVars, lost, failure>>

\* fetch() and sendFetch().
Fetch(c) ==
    /\ In("fetch", c)
    /\ \/ AcceptedRequest(iPort(c)) /\ SetStatus(c, "IcacheWaitResponse")
       \/ Refused(iPort(c)) /\ SetStatus(c, "IcacheRetry")
    /\ call' = None
    /\ UNCHANGED <<config, fetchEvent, dcachePkt, outstanding, answered,
                   drainVars, lost>>

\* completeIfetch(), up to the instruction.
CompleteIfetch(c) ==
    /\ TopLevel
    /\ iPort(c) \in answered
    /\ answered' = answered \ {iPort(c)}
    /\ failure' = IF status[c] = "IcacheWaitResponse" THEN None
                                                      ELSE "unexpected response"
    /\ SetStatus(c, "Running")
    /\ call' = <<"execute", c>>
    /\ UNCHANGED <<config, layerVars, routeTo, fetchEvent, dcachePkt, outstanding,
                   memVars, drainVars, lost>>

\* Faulty variant: the CPU fetches on while a drain waits for it.
Advance_NoDrain(c) ==
    /\ call' = <<"fetch", c>>
    /\ UNCHANGED drainVars

\* advanceInst() without a fault, at the end of an instruction: complete a
\* drain (tryCompleteDrain), or go on to fetch().
Advance(c) ==
    IF drainState[c] = "Draining"
    THEN /\ drainState' = [drainState EXCEPT ![c] = "Drained"]
         /\ call' = None
         /\ UNCHANGED dmState
    ELSE /\ call' = <<"fetch", c>>
         /\ UNCHANGED drainVars

\* A non-memory instruction, or the fence that ends a macro-op.
ExecuteOther(c) ==
    /\ \/ In("execute", c) /\ Programmed("Other")
       \/ In("microop", c)
    /\ Advance(c)
    /\ UNCHANGED <<config, layerVars, routeTo, status, fetchEvent, dcachePkt,
                   outstanding, answered, memVars, lost, failure>>

\* An IMC instruction: the result of sendTimingReq is ignored.
ExecuteIMC(c) ==
    /\ In("execute", c) /\ Programmed("IMC")
    /\ \/ AcceptedIMC(dPort(c)) /\ UNCHANGED lost
       \/ Refused(dPort(c)) /\ lost' = TRUE
    /\ Advance(c)
    /\ UNCHANGED <<config, status, fetchEvent, dcachePkt, outstanding, answered>>

\* advanceInst() with the fault of a system call, which may be a futex wake
\* that activates other CPUs (activateContext of each).
ExecuteSyscall(c) ==
    /\ In("execute", c) /\ Programmed("Syscall")
    /\ \E woken \in SUBSET {d \in config.cpus : status[d] = "Idle"} :
          /\ status' = [d \in CPU |-> IF d = c THEN "Faulting"
                                      ELSE IF d \in woken THEN "Running"
                                      ELSE status[d]]
          /\ fetchEvent' = [d \in CPU |-> fetchEvent[d] \/ d \in woken \cup {c}]
    /\ call' = None
    /\ UNCHANGED <<config, layerVars, routeTo, dcachePkt, outstanding, answered,
                   memVars, drainVars, lost, failure>>

\* The same with a futex wait, which suspends the CPU (suspendContext).  Some
\* CPU is left that can wake it.
ExecuteFutexWait(c) ==
    /\ In("execute", c) /\ Programmed("FutexWait")
    /\ \E d \in CPU \ {c} : status[d] # "Idle"
    /\ SetStatus(c, "Idle")
    /\ call' = None
    /\ UNCHANGED <<config, layerVars, routeTo, fetchEvent, dcachePkt, outstanding,
                   answered, memVars, drainVars, lost, failure>>

\* handleReadPacket or handleWritePacket of packet pkt.
PacketSent(c) ==
    /\ AcceptedRequest(dPort(c))
    /\ SetStatus(c, "DcacheWaitResponse")
    /\ dcachePkt' = [dcachePkt EXCEPT ![c] = None]

PacketKept(c, pkt) ==
    /\ Refused(dPort(c))
    /\ SetStatus(c, "DcacheRetry")
    /\ dcachePkt' = [dcachePkt EXCEPT ![c] = pkt]

\* A load or a store: sendData().
ExecuteMem(c) ==
    /\ In("execute", c) /\ Programmed("Mem")
    /\ PacketSent(c) \/ PacketKept(c, "whole")
    /\ call' = None
    /\ UNCHANGED <<config, fetchEvent, outstanding, answered, drainVars, lost>>

\* A load or a store that crosses a line: sendSplitData(), the low fragment.
ExecuteSplit(c) ==
    /\ In("execute", c) /\ Programmed("Split")
    /\ outstanding' = [outstanding EXCEPT ![c] = 2]
    /\ \/ PacketSent(c) /\ call' = <<"second", c>>
       \/ PacketKept(c, "low") /\ call' = None
    /\ UNCHANGED <<config, fetchEvent, answered, drainVars, lost>>

\* The high fragment, right after the low one was taken.
SendSecond(c) ==
    /\ In("second", c)
    /\ PacketSent(c) \/ PacketKept(c, "high")
    /\ call' = None
    /\ UNCHANGED <<config, fetchEvent, outstanding, answered, drainVars, lost>>

\* Faulty variant: the access completes with its first fragment.
FragmentLeft_Forgotten(c) == FALSE

\* Another fragment of the access is to be completed after this one.
FragmentLeft(c) == outstanding[c] = 2

\* completeDataAccess().  The access may be the middle of a macro-op.
CompleteDataAccess(c) ==
    /\ TopLevel
    /\ dPort(c) \in answered
    /\ answered' = answered \ {dPort(c)}
    /\ failure' = IF status[c] = "DcacheWaitResponse" THEN None
                                                      ELSE "unexpected response"
    /\ outstanding' = [outstanding EXCEPT ![c] = IF FragmentLeft(c) THEN 1 ELSE 0]
    /\ IF FragmentLeft(c)
       THEN UNCHANGED <<status, call, drainVars>>
       ELSE /\ SetStatus(c, "Running")
            /\ \/ Advance(c)
               \/ /\ Programmed("AMO")
                  /\ call' = <<"microop", c>>
                  /\ UNCHANGED drainVars
    /\ UNCHANGED <<config, layerVars, routeTo, fetchEvent, dcachePkt, memVars, lost>>

\* IcachePort::recvReqRetry.
IcacheReqRetry(c) ==
    /\ failure = None /\ state = "RETRY" /\ retrying = iPort(c)
    /\ IF status[c] # "IcacheRetry"
       THEN /\ failure' = "unexpected retry"
            /\ UNCHANGED <<layerVars, routeTo, memVars, status>>
       ELSE \/ AcceptedRequest(iPort(c)) /\ SetStatus(c, "IcacheWaitResponse")
            \/ Refused(iPort(c)) /\ UNCHANGED status
    /\ UNCHANGED <<config, fetchEvent, dcachePkt, outstanding, call, answered,
                   drainVars, lost>>

\* Faulty variant: the other fragment is not looked for.
OtherFragment_None(c) == FALSE

\* getPendingFragment() after this packet was sent: the high fragment is
\* still to be sent.
OtherFragment(c) == dcachePkt[c] = "low"

\* DcachePort::recvReqRetry.
DcacheReqRetry(c) ==
    /\ failure = None /\ state = "RETRY" /\ retrying = dPort(c)
    /\ IF dcachePkt[c] = None \/ status[c] # "DcacheRetry"
       THEN /\ failure' = "unexpected retry"
            /\ UNCHANGED <<layerVars, routeTo, memVars, status, dcachePkt, call>>
       ELSE \/ /\ PacketSent(c)
               /\ call' = IF OtherFragment(c) THEN <<"second", c>> ELSE None
            \/ PacketKept(c, dcachePkt[c]) /\ UNCHANGED call
    /\ UNCHANGED <<config, fetchEvent, outstanding, answered, drainVars, lost>>

-----------------------------------------------------------------------------
(***************************************************************************)
(* The crossbar and the controller                                         *)
(***************************************************************************)
LayerRelease ==
    /\ TopLevel
    /\ ReleaseLayer
    /\ UNCHANGED <<config, routeTo, cpuVars, memVars, drainVars, lost, failure>>

\* PIMCtrl::release(); its sendRetryReq is Layer::recvRetry.
MemRelease ==
    /\ TopLevel
    /\ memBusy
    /\ memBusy' = FALSE /\ memRetry' = FALSE
    /\ IF memRetry THEN RecvRetry ELSE UNCHANGED layerVars
    /\ UNCHANGED <<config, routeTo, cpuVars, respVars, drainVars, lost, failure>>

\* The drain state of an object that signals, if it was draining, because
\* nothing is left in it.
Signalled(o, nothingLeft) ==
    IF nothingLeft /\ drainState[o] = "Draining" THEN "Drained" ELSE drainState[o]

\* Faulty variant: the response is sent while the request still occupies the
\* controller.
MemRespond_Early(p) ==
    /\ TopLevel
    /\ pending[p] > 0
    /\ pending' = [pending EXCEPT ![p] = @ - 1]
    /\ routeTo' = [routeTo EXCEPT ![p] = @ - 1]
    /\ queued' = [queued EXCEPT ![p] = @ + 1]
    /\ drainState' = [drainState EXCEPT ![Memory] =
                         Signalled(Memory, \A q \in Src : pending'[q] = 0)]
    /\ UNCHANGED <<config, layerVars, cpuVars, memBusy, memRetry, respRetry,
                   dmState, lost, failure>>

\* PIMCtrl::dequeue() and CoherentXBar::recvTimingResp.
MemRespond(p) ==
    /\ TopLevel
    /\ pending[p] > 0
    /\ config.fast => RequestsThrough(p[1])
    /\ pending' = [pending EXCEPT ![p] = @ - 1]
    /\ routeTo' = [routeTo EXCEPT ![p] = @ - 1]
    /\ queued' = [queued EXCEPT ![p] = @ + 1]
    /\ drainState' = [drainState EXCEPT ![Memory] =
                         Signalled(Memory, \A q \in Src : pending'[q] = 0)]
    /\ UNCHANGED <<config, layerVars, cpuVars, memBusy, memRetry, respRetry,
                   dmState, lost, failure>>

\* sendDeferredPacket() of the port's queue, taken by the CPU.
DeliverResponse(p) ==
    /\ answered' = answered \cup {p}
    /\ queued' = [queued EXCEPT ![p] = @ - 1]
    /\ drainState' = [drainState EXCEPT ![p] = Signalled(p, queued'[p] = 0)]

\* Faulty variant: the tick event that processes the response is not
\* scheduled.
IcacheResponse_NoTickEvent(c) ==
    /\ TopLevel
    /\ queued[iPort(c)] > 0
    /\ queued' = [queued EXCEPT ![iPort(c)] = @ - 1]
    /\ drainState' = [drainState EXCEPT ![iPort(c)] =
                         Signalled(iPort(c), queued'[iPort(c)] = 0)]
    /\ UNCHANGED <<config, layerVars, routeTo, cpuVars, memBusy, memRetry, pending,
                   respRetry, dmState, lost, failure>>

\* The send event of an instruction port's queue, and
\* IcachePort::recvTimingResp, which takes every response.
IcacheResponse(c) ==
    /\ TopLevel
    /\ queued[iPort(c)] > 0
    /\ failure' = IF iPort(c) \in answered THEN "unexpected response" ELSE None
    /\ DeliverResponse(iPort(c))
    /\ UNCHANGED <<config, layerVars, routeTo, status, fetchEvent, dcachePkt,
                   outstanding, call, memBusy, memRetry, pending, respRetry,
                   dmState, lost>>

\* The send event of a data port's queue, and DcachePort::recvTimingResp,
\* which refuses a response while it holds another one.
DcacheResponse(c) ==
    /\ TopLevel
    /\ queued[dPort(c)] > 0 /\ c \notin respRetry
    /\ IF dPort(c) \notin answered
       THEN DeliverResponse(dPort(c)) /\ UNCHANGED respRetry
       ELSE /\ respRetry' = respRetry \cup {c}
            /\ UNCHANGED <<answered, queued, drainState>>
    /\ UNCHANGED <<config, layerVars, routeTo, status, fetchEvent, dcachePkt,
                   outstanding, call, memBusy, memRetry, pending, dmState, lost,
                   failure>>

\* retryRespEvent, a cycle after the tick event of the response that was in
\* the way: sendRetryResp and PacketQueue::retry().
DcacheRespRetry(c) ==
    /\ TopLevel
    /\ c \in respRetry /\ dPort(c) \notin answered
    /\ respRetry' = respRetry \ {c}
    /\ DeliverResponse(dPort(c))
    /\ UNCHANGED <<config, layerVars, routeTo, status, fetchEvent, dcachePkt,
                   outstanding, call, memBusy, memRetry, pending, dmState, lost,
                   failure>>

-----------------------------------------------------------------------------
(***************************************************************************)
(* Draining                                                                *)
(***************************************************************************)
\* TimingSimpleCPU::drain() returns Drained.
CPUDrained(c) == \/ status[c] = "Idle"
                 \/ status[c] = "Running" /\ ~fetchEvent[c]

\* DrainManager::_count, one for every object that is to signal.
Count == Cardinality({o \in Drainable : drainState[o] = "Draining"})
         + IF layerDrain = "Draining" THEN 1 ELSE 0

\* The objects whose drain() returns Draining.
MustDrain ==
    {c \in CPU : ~CPUDrained(c)}
    \cup {p \in Src : queued[p] > 0}
    \cup {o \in {Memory} : \E p \in Src : pending[p] > 0}

\* Faulty variant: the first cycle's answers are taken for good.
TryDrain_OneCycle ==
    /\ TopLevel
    /\ \/ dmState = "Running" /\ config.drains
       \/ dmState = "Draining" /\ Count = 0
    /\ drainState' = [o \in Drainable |-> IF o \in MustDrain THEN "Draining"
                                                             ELSE "Drained"]
    /\ DrainLayer
    /\ dmState' = IF dmState = "Draining" THEN "Drained" ELSE "Draining"
    /\ UNCHANGED <<config, routeTo, cpuVars, memVars, lost, failure>>

\* DrainManager::tryDrain(), called by the script, and called again when all
\* who were draining have signalled.
TryDrain ==
    /\ TopLevel
    /\ \/ dmState = "Running" /\ config.drains
       \/ dmState = "Draining" /\ Count = 0
    /\ drainState' = [o \in Drainable |-> IF o \in MustDrain THEN "Draining"
                                                             ELSE "Drained"]
    /\ DrainLayer
    /\ dmState' = IF MustDrain = {} /\ layerDrain' = "Drained" THEN "Drained"
                                                               ELSE "Draining"
    /\ UNCHANGED <<config, routeTo, cpuVars, memVars, lost, failure>>

\* DrainManager::resume() and TimingSimpleCPU::drainResume().
DrainResume ==
    /\ TopLevel
    /\ dmState = "Drained"
    /\ dmState' = "Running"
    /\ ResumeLayer
    /\ drainState' = [o \in Drainable |-> "Running"]
    /\ failure' = IF \E c \in CPU : fetchEvent[c] THEN "fetch scheduled" ELSE None
    /\ fetchEvent' = [c \in CPU |-> status[c] = "Running"]
    /\ UNCHANGED <<config, routeTo, status, dcachePkt, outstanding, call, answered,
                   memVars, lost>>

-----------------------------------------------------------------------------
Next ==
    \/ \E c \in CPU :
          \/ FetchEvent(c) \/ Fetch(c) \/ CompleteIfetch(c)
          \/ ExecuteOther(c) \/ ExecuteIMC(c)
          \/ ExecuteSyscall(c) \/ ExecuteFutexWait(c)
          \/ ExecuteMem(c) \/ ExecuteSplit(c) \/ SendSecond(c)
          \/ CompleteDataAccess(c)
          \/ IcacheReqRetry(c) \/ DcacheReqRetry(c)
          \/ IcacheResponse(c) \/ DcacheResponse(c) \/ DcacheRespRetry(c)
    \/ LayerRelease
    \/ MemRelease
    \/ \E p \in Src : MemRespond(p)
    \/ TryDrain
    \/ DrainResume

Spec == Init /\ [][Next]_vars

(***************************************************************************)
(* A handler runs to its end, and the event queue runs every event that is *)
(* scheduled: events run in the order of their ticks, so an event waits    *)
(* for finitely many others, although it cannot run while one of them is   *)
(* under way.  Less is assumed here: of the events that move a CPU's       *)
(* instructions on, some run, and so do some of the two release events.    *)
(* The programs do not consist of system calls alone.  The script does     *)
(* nothing else while it drains, and resumes.                              *)
(***************************************************************************)
Handlers(c) ==
    \/ Fetch(c) \/ ExecuteOther(c) \/ ExecuteIMC(c) \/ ExecuteSyscall(c)
    \/ ExecuteFutexWait(c) \/ ExecuteMem(c) \/ ExecuteSplit(c) \/ SendSecond(c)
    \/ IcacheReqRetry(c) \/ DcacheReqRetry(c)

\* The events on the way of an instruction through the system.
Events(c) ==
    \/ FetchEvent(c) \/ CompleteIfetch(c) \/ CompleteDataAccess(c)
    \/ MemRespond(iPort(c)) \/ MemRespond(dPort(c))
    \/ IcacheResponse(c) \/ DcacheResponse(c) \/ DcacheRespRetry(c)

\* Instructions that are not system calls.
Executes(c) == ExecuteOther(c) \/ ExecuteIMC(c) \/ ExecuteMem(c) \/ ExecuteSplit(c)

DrainLoop == dmState # "Running" /\ (TryDrain \/ DrainResume)

Fairness ==
    /\ WF_vars(\E c \in CPU : Handlers(c))
    /\ SF_vars(\E c \in CPU : Executes(c))
    /\ \A c \in CPU : SF_vars(Events(c))
    /\ SF_vars(LayerRelease \/ MemRelease)
    /\ SF_vars(DrainLoop)

FairSpec == Spec /\ Fairness

-----------------------------------------------------------------------------
TypeOK ==
    /\ config \in Configs
    /\ LayerTypeOK
    /\ routeTo \in [Src -> Nat]
    /\ status \in [CPU -> {"Idle", "Running", "Faulting",
                           "IcacheRetry", "IcacheWaitResponse",
                           "DcacheRetry", "DcacheWaitResponse"}]
    /\ fetchEvent \in [CPU -> BOOLEAN]
    /\ dcachePkt \in [CPU -> {"whole", "low", "high", None}]
    /\ outstanding \in [CPU -> 0 .. 2]
    /\ call \in ({"fetch", "execute", "microop", "second"} \X CPU) \cup {None}
    /\ answered \subseteq Src /\ respRetry \subseteq CPU
    /\ pending \in [Src -> Nat] /\ queued \in [Src -> Nat]
    /\ memBusy \in BOOLEAN /\ memRetry \in BOOLEAN /\ lost \in BOOLEAN
    /\ dmState \in {"Running", "Draining", "Drained"}
    /\ drainState \in [Drainable -> {"Running", "Draining", "Drained"}]
    /\ failure \in {None, "already waiting", "routing table", "fetch scheduled",
                    "unexpected response", "unexpected retry"}

(***************************************************************************)
(* Every entry of the crossbar's routing table belongs to a request whose  *)
(* response is still to come ("remember where to route the normal response *)
(* to"): the table cannot fill up.                                         *)
(***************************************************************************)
RoutesAreOwed == routeTo = pending

(***************************************************************************)
(* "we shouldn't get a retry unless we have a packet that we're waiting to *)
(* transmit", "the port should not be waiting already", responses come     *)
(* only to a CPU that waits, for the one thing it waits for, and a drained *)
(* CPU has no fetch scheduled: none of the asserts of CPU and layer fails. *)
(***************************************************************************)
NoAssertFails == failure \in {None, "routing table"}

(***************************************************************************)
(* A port is in the layer's lists exactly while its CPU holds a packet for *)
(* it: no CPU waits for a retry that nobody owes it.                       *)
(***************************************************************************)
RetriesMatch ==
    (failure = None /\ (call = None \/ call[1] # "second")) =>
        \A c \in CPU : /\ iPort(c) \in Waiting <=> status[c] = "IcacheRetry"
                       /\ dPort(c) \in Waiting <=> status[c] = "DcacheRetry"

(***************************************************************************)
(* Every response a CPU waits for is somewhere: the fragments of a split   *)
(* access that are not completed are held by the CPU, at the controller,   *)
(* in the port's queue or about to be processed, and no response travels   *)
(* to a CPU that does not wait for it.                                     *)
(***************************************************************************)
OnTheWay(p) == pending[p] + queued[p] + IF p \in answered THEN 1 ELSE 0

Held(c) == IF dcachePkt[c] = "low" THEN 2 ELSE IF dcachePkt[c] = None THEN 0 ELSE 1

ResponsesAreAwaited ==
    (failure = None /\ call = None) => \A c \in CPU :
        /\ OnTheWay(iPort(c)) = IF status[c] = "IcacheWaitResponse" THEN 1 ELSE 0
        /\ OnTheWay(dPort(c)) + Held(c) =
              IF status[c] \notin {"DcacheWaitResponse", "DcacheRetry"} THEN 0
              ELSE IF outstanding[c] = 0 THEN 1 ELSE outstanding[c]

(***************************************************************************)
(* No IMC instruction is dropped: its request reaches the controller       *)
(* before the CPU goes on.                                                 *)
(***************************************************************************)
IMCTakesEffect == ~lost

(***************************************************************************)
(* Every CPU that has a running thread goes on fetching instructions for   *)
(* ever, through all drains (of programs that suspend threads, outside of  *)
(* drains): infinitely many of its fetches reach the controller, and the   *)
(* CPU stops waiting for each of them before it sends the next.            *)
(***************************************************************************)
SendsFetch(c) ==
    status[c] # "IcacheWaitResponse" /\ status'[c] = "IcacheWaitResponse"

MayRest(c) ==
    \/ status[c] = "Idle"
    \/ Programmed("FutexWait") /\ dmState = "Draining"
    \/ failure # None

CPUsProgress ==
    \A c \in CPU : []<>MayRest(c) \/ []<><<SendsFetch(c)>>_status

(***************************************************************************)
(* "Check if any object still needs draining, if so repeat": the loop of   *)
(* drain cycles ends, although objects that reported Drained get new work  *)
(* from objects that are still draining.  (Of programs whose threads are   *)
(* not suspended.)                                                         *)
(***************************************************************************)
DrainEnds ==
    dmState = "Draining" ~> \/ dmState = "Drained"
                            \/ Programmed("FutexWait")
                            \/ failure # None

(***************************************************************************)
(* "simulation stops when the set of non-drained objects becomes empty":   *)
(* the drain loop ends, whatever the programs do.                          *)
(***************************************************************************)
DrainCompletes ==
    dmState = "Draining" ~> (dmState = "Drained" \/ failure # None)

(***************************************************************************)
(* The system implements Quiescence: tryDrain returns true only when no    *)
(* CPU is inside an instruction, no packet is held, waits, is processed or *)
(* travels back, and nothing starts before the system is resumed; although *)
(* the layer itself reports Drained while a port waits for the controller. *)
(***************************************************************************)
InFlight ==
    {p \in Src : OnTheWay(p) > 0 \/ p \in Waiting}
    \cup {c \in CPU : ~CPUDrained(c) \/ dcachePkt[c] # None \/ outstanding[c] > 0}
    \cup {o \in {ReqLayer} : state # "IDLE"}

Quiet == INSTANCE Quiescence WITH
    Activity <- CPU \cup Src \cup {ReqLayer},
    phase <- dmState,
    inFlight <- InFlight

ImplementsQuiescence == Quiet!Spec

-----------------------------------------------------------------------------
(***************************************************************************)
(* The inductive invariant behind the safety properties, for the systems   *)
(* whose memory suits their programs: split accesses need the requests of  *)
(* a CPU to be through before the first response, and IMC instructions a   *)
(* CPU that has the memory for itself as well (the two counterexamples of  *)
(* NoAssertFails are systems of the other kind).                           *)
(***************************************************************************)
Suited ==
    /\ Programmed("Split") => config.fast
    /\ Programmed("IMC") => config.fast /\ \E c \in CPU : config.cpus = {c}

\* The controller and the layer agree on who is owed a retry, and nobody is
\* in two of the layer's places.
LayerInv ==
    /\ state = "BUSY" <=> releaseEvent
    /\ state = "RETRY" <=> retrying # None
    /\ retrying # None => waitingForPeer = None /\ call = None
    /\ waitingForPeer # None => memRetry
    /\ memRetry => memBusy
    /\ IsInjective(waitingForLayer)
    /\ waitingForPeer \notin ToSet(waitingForLayer)
    /\ retrying \notin ToSet(waitingForLayer)

\* A request the controller is to answer has its entry in the routing table,
\* a refused response is still in its queue, and a controller that owes a
\* retry owes it to somebody.  With the types, this is inductive in every
\* system.
PathInv ==
    /\ \A p \in Src : pending[p] <= routeTo[p]
    /\ \A c \in respRetry : queued[dPort(c)] > 0
    /\ memRetry => waitingForPeer # None

TypeInv == TypeOK /\ PathInv

\* The ports that wait are those whose CPU waits for a retry.
WaitInv ==
    \A c \in CPU : /\ iPort(c) \in Waiting <=> status[c] = "IcacheRetry"
                   /\ dPort(c) \in Waiting <=> status[c] = "DcacheRetry"

\* The handler of c that is under way, if there is one.
StageIn(handler, c) == IF handler # None /\ handler[2] = c THEN handler[1] ELSE "none"
Stage(c) == StageIn(call, c)

\* A CPU is fetching, executing, or between instructions; it waits for the one
\* response to its fetch.
FetchInv(c) ==
    /\ Stage(c) \in {"fetch", "execute", "microop"} =>
          status[c] = "Running" /\ ~fetchEvent[c]
    /\ fetchEvent[c] => status[c] \in {"Running", "Faulting"}
    /\ status[c] = "Faulting" => fetchEvent[c]
    /\ c \notin config.cpus => status[c] = "Idle"
    /\ OnTheWay(iPort(c)) = IF status[c] = "IcacheWaitResponse" THEN 1 ELSE 0

InAccess(c) == status[c] \in {"DcacheWaitResponse", "DcacheRetry"}

\* The fragments of the access are all accounted for; while one is held, or is
\* about to be sent, none of them has been answered.
DataInv(c) ==
    /\ dcachePkt[c] # None <=> status[c] = "DcacheRetry"
    /\ outstanding[c] > 0 => InAccess(c) /\ Programmed("Split")
    /\ dcachePkt[c] = "whole" => outstanding[c] = 0
    /\ dcachePkt[c] \in {"low", "high"} => outstanding[c] = 2
    /\ Stage(c) = "second" => status[c] = "DcacheWaitResponse" /\ outstanding[c] = 2
    /\ status[c] = "DcacheRetry" \/ Stage(c) = "second" =>
          queued[dPort(c)] = 0 /\ dPort(c) \notin answered
    /\ OnTheWay(dPort(c)) + Held(c) = IF ~InAccess(c) THEN 0
                                      ELSE IF outstanding[c] = 0 \/ Stage(c) = "second" THEN 1
                                      ELSE outstanding[c]

\* Where there are IMC instructions, the memory is free from the response to
\* a fetch to the end of the instruction.
IMCInv ==
    Programmed("IMC") =>
        \A c \in config.cpus :
            (queued[iPort(c)] > 0 \/ iPort(c) \in answered \/ Stage(c) = "execute") =>
                ~memBusy /\ state = "IDLE"

\* A drained system stays drained.
DrainedInv ==
    dmState = "Drained" => MustDrain = {} /\ state = "IDLE" /\ call = None

IInv ==
    /\ TypeInv /\ Suited /\ LayerInv /\ WaitInv
    /\ \A c \in CPU : FetchInv(c) /\ DataInv(c)
    /\ IMCInv /\ DrainedInv
    /\ NoAssertFails /\ IMCTakesEffect
=============================================================================
