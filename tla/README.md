# A verification project for IMC-Gem5

IMC-Gem5 is a gem5 simulator extended with in-memory computing (IMC): six
RISC-V instructions (`addmod`, `submod`, `mulmod`, `mulimc`, `invmod`,
`cmpimc`) send a flagged request to a memory controller, `PIMCtrl`, that
computes on words of its backing store and writes the result back.  Two test
programs run the same ECDSA computation with and without the instructions.
This directory holds TLA+ models of the parts of the simulator that carry out
such an instruction, model-checked with TLC, and proofs for TLAPS.

Paths below are relative to `src/gem5/src/` unless they start with `src/`.

## 1. The system

| Part | State | Operations | Talks to |
|---|---|---|---|
| PIM controller, `mem/pim_mem.cc` | `isBusy`, `retryReq`, `retryResp`, `packetQueue`, `releaseEvent`, `dequeueEvent`, drain state | `recvTimingReq`, `release`, `dequeue`, `recvRespRetry`, `recvFunctional`, `drain` | one port, the event queue, the drain manager |
| IMC arithmetic, the flagged branches of `recvTimingReq` | none (words of the backing store) | ADDMOD, SUBMOD, MULMOD, MULIMC, INVMOD, CMPIMC | the backing store |
| `AbstractMemory`, `mem/abstract_mem.cc` | backing store, `lockedAddrList` | `access`, `functionalAccess`, `trackLoadLocked`, `checkLockedAddrList` | base class of the controller |
| Crossbar layer, `mem/xbar.cc` | `state`, `waitingForLayer`, `waitingForPeer`, `releaseEvent`, drain state | `tryTiming`, `succeededTiming`, `failedTiming`, `releaseLayer`, `retryWaiting`, `recvRetry`, `drain` | source ports, one destination |
| `CoherentXBar`, `mem/coherent_xbar.cc` | `routeTo` and the layers | `recvTimingReq`, `recvTimingResp`, ... | CPU ports, controller |
| Packet queues, `mem/packet_queue.cc` | `transmitList`, `sendEvent`, `waitingOnRetry`, drain state | `schedSendTiming`, `processSendEvent`, `retry`, `drain` | one port of the crossbar, and its peer |
| `TimingSimpleCPU`, `cpu/simple/timing.cc` | `_status`, `ifetch_pkt`, `dcache_pkt`, the fragments of a split access, `fetchEvent`, tick events | `fetch`, `completeIfetch`, `sendData`, `sendSplitData`, `completeDataAccess`, `advanceInst`, `suspendContext`, `activateContext`, the ports' `recvReqRetry` and `recvTimingResp`, `drain`, `drainResume` | crossbar |
| IMC instructions, `arch/riscv/isa/decoder.isa` | none | translate the operands, send the packet, go on | the CPU's data port |
| Drain protocol, `sim/drain.cc` | drain state of each object, the manager's count | `tryDrain`, `signalDrainDone`, `resume` | every drainable object |
| Event queue, `sim/eventq.cc` | scheduled events | `serviceOne` | everything |
| ECDSA programs, `src/tests/*.c` | residues in memory | chains of modular operations | the instructions |

The simulator is single-threaded.  What is hard about it is not data races but
the order of events and callbacks: a request may be refused at two levels
(layer, controller), each of which owes a callback; a callback may re-enter its
caller; responses leave in the order of due times but may not be reordered at
one address; a drain may begin between any two events, and while it lasts the
objects that are still busy give new work to those that have reported.  The arithmetic mixes
`uint64_t`, `int64_t` and `int`.  The hazards are listed one by one, with the
line where each bites and the properties aimed at it, in `PROJECT.json`.

What makes each part correct:

* controller: no refused requestor is forgotten; each queued response has exactly
  one trigger; latency and per-address order are kept; a drain is signalled;
* arithmetic: results are the exact residues below a stated bound of the modulus;
* reservations: no store-conditional succeeds after an intervening store;
* layer: nobody who waits is forgotten, called without a packet or passed; a
  drain ends only when the layer is quiet;
* packet queue: a packet in it has exactly one trigger, leaves on time, never
  passes an older one of its address, and a drain is signalled when it is empty;
* system: no assertion of the retry protocol fails, no IMC instruction is lost,
  every response is awaited and none is missing, every CPU goes on, the routing
  table empties;
* draining: the loop of drain cycles ends, and a drained system has nothing in
  flight and starts nothing before it is resumed.

## 2. The modules

| Module | What it models |
|---|---|
| `Words` | machine integers and C++ conversions; the sizes are constants |
| `IMCArith` | the six operations as operators, and the divisions that trap |
| `InvmodLoop` | the INVMOD branch as a state machine, one step per iteration |
| `ResidueChain` | programs that chain the modular operations on one residue, INVMOD through `InvmodLoop` |
| `ResidueChainProofs` | the theorems about `ResidueChain`, `InvmodLoop` and the operators of `IMCArith` |
| `AbstractMemory` | backing store and reservations |
| `AbstractMemoryProofs` | the theorems about reservations |
| `PIMCtrl` | the controller in timing mode, on top of `AbstractMemory` and `IMCArith` |
| `OrderedMemory` | the abstract specification that `PIMCtrl` implements |
| `PIMCtrlProofs` | the theorems about `PIMCtrl` |
| `PIMCtrlRefinement` | the proof that `PIMCtrl` implements `OrderedMemory` |
| `XBarLayer` | one crossbar layer: its variables and one action per function |
| `XBar` | a layer between sources and a destination that obey the port protocol |
| `XBarProofs` | the theorems about `XBar` |
| `PacketQueue` | the packet queue of a crossbar port |
| `PacketQueueProofs` | the theorems about `PacketQueue` |
| `IMCSystem` | CPUs, the request layer (`XBarLayer`), routing table, controller, response path and drain manager composed |
| `Quiescence` | the abstract specification of draining that `IMCSystem` implements |
| `IMCSystemProofs` | the theorems about `IMCSystem` |
| `SequenceLemmas` | the facts about sequences and numbers that the proofs share |
| `MC*` | instances for TLC |

**State and actions.** Variables keep the names of the members they model.  One
action is one handler; the few handlers that call out to a peer and go on
afterwards are split at that call, and a variable says that the call is under
way (`sending` in `PIMCtrl` and `PacketQueue`, `state = "RETRY"` with `retrying` in `XBarLayer`,
`call` in `IMCSystem`).  While it is, only what the peer may do from within the
call is enabled.  Operators whose name has a suffix after an underscore
(`Release_NoCall`) are *faulty variants*: they are used by no specification, and
serve to show that a property notices the fault.

**Time.** `PIMCtrl` and `PacketQueue` keep ticks relative to the present: event
variables count down, `Tick` lets time pass when no event is due, so handlers run
in the order of their ticks as in `EventQueue::serviceOne`.  Event variables are
never in the past, which is what `schedule()` asserts and `TypeOK` checks; a response
or packet that waits behind a refused one may be, and its tick is `Past` then, for
the code only ever compares such ticks with later ones.  `XBarLayer` and
`IMCSystem` leave the duration of events open, and so the order of events: every
clock, latency and bandwidth is covered at once.  A configuration of `IMCSystem`
with `fast` restricts this to systems in which a CPU's requests are through
before the first response to them is sent, and have left layer and controller
free if no other CPU is there; the parameters of `PIMCtrl.py` (30 ns, 12.8 GiB/s,
some 5 ns for a line) give this for a few CPUs.

**The composed system.** `config` is a record chosen initially and never changed:
the CPUs with a thread, the kinds of instruction in their programs, `fast`, and
whether the script drains.  One module and one run thus cover several systems.
An instruction is one of: another (no memory), a load or store, a split one, a
macro-op with an access in the middle (atomics), an IMC instruction, a system call
(the fault path of `advanceInst`, waking any number of suspended CPUs), and a
futex wait (the same, suspending the CPU).  The controller is there as its peer
sees it, the packet queue of a port as the number of its responses; `PIMCtrl` and
`PacketQueue` have the rest.  `TryDrain` asks all objects in one step, as
`DrainManager::tryDrain` does, and is repeated by the script when the count is
back at zero; `DrainResume` includes the CPUs' `drainResume`.

**Data.** Addresses are word numbers, an access is one aligned word, packets are
identities.  Machine integers keep their width: `WordSize` and `IntSize` stand
for 2^64 and 2^32, with the same conversions.  Signed overflow is modelled as
wrap-around (what the compiled code does with run-time operands), and a division
the host traps on ends the simulation (`trapped`).  In `RecvIMC` the stored
result is bound as a `Word` (the code's `uint64_t result`), so that the type
theorem does not depend on what INVMOD computes; the theorem `ResultIsWord` says
that every operation that does not trap results in one, so the binding never
disables the action.

**What the controller's peer may do.** It sends at any time, also after a refusal
(the code says of the CPU that it "violates this rule"), refuses responses, asks
again only after having refused, and may call `recvTimingReq` from within
`sendTimingResp`; if such a nested request is accepted it takes the response.
The last point is an assumption: a peer that got a request accepted and then
refused would find `dequeueEvent` and `retryResp` both set.  No peer in the
repository does so: crossbar ports queue responses and send from events.
`matchAddr` compares base addresses, which at word granularity is equality.

## 3. What TLC checks

All passing runs explore the complete state space of their instance.

| Run | Instance | Shows |
|---|---|---|
| `arithmetic` | 6-bit words, 5-bit `int`, every word and modulus | chains of operations stay exact as long as each is used below its bound (`AddmodBound`, ... in the module): 2(n-1) < 2^64 for ADDMOD, 2n <= 2^63 for SUBMOD, (n-1)^2 < 2^64 for MULMOD, n < 2^31 for INVMOD; INVMOD's loop ends for all pairs of words, and for a modulus that fits `int` it keeps the Bezout relation, no `int` overflows, what is stored is the inverse and the host traps only on values that share a factor with the modulus (0 stores 1) |
| `reservations` | 3 contexts, 3 words (2 granules) | loads, stores and store-conditionals keep reservations fresh, and lose them only to stores |
| `pim_ctrl` | 3 packets, latencies 0 and 2, swaps, functional writes, CMPIMC | latency and order of the responses; `PIMCtrl` implements `OrderedMemory` |
| `pim_ctrl_live` | 3 packets, latencies 1 and 3, the bandwidth limit, ADDMOD with traps | every accepted request is answered, every refused requestor called back, and the safety properties behind it |
| `xbar` | 4 sources, drains | bookkeeping, wake-ups, order of service and drain of a layer; every refused source is served |
| `packet_queue` | 4 packets, 2 addresses, ticks 0 and 2, list limit 2, with and without `forceOrder` | the queue is armed exactly when it holds something, also after being entered from within its own calls; packets leave on time and in a justified order; drains are signalled; every packet leaves |
| `system` | five configurations: 3 CPUs with loads, stores and atomics at any timing; 2 CPUs with loads and stores that suspend and wake each other at any timing; 3 CPUs that only suspend and wake each other, one or several at a time; 2 CPUs with split accesses and 1 CPU with every kind of instruction, `fast`; drains in all but the third | CPU, layer and controller agree on who waits for a retry; every response is awaited and on its way; no assertion fails; in the shipped single-CPU system no IMC request is refused; a drain ends, `IMCSystem` implements `Quiescence`, and every CPU with a running thread sends infinitely many fetches (`CPUsProgress`), ceasing to wait for each before the next |

Five runs show a disagreement between the code and what its own comments or
assertions say (details and quotations in `PROJECT.json`):

| Run | Shows |
|---|---|
| `reservations_imc` | an IMC operation stores without clearing reservations (`writeOK` is to be called on *all* stores) |
| `system_contention` | IMC instructions ignore the result of `sendTimingReq`; with a second CPU a request can be refused, is lost, and the later retry fails the assertion in `DcachePort::recvReqRetry` |
| `system_routes` | each IMC request leaves an entry in `routeTo` for ever, because the controller sends no response although a `WriteReq` needs one; the sanity check at 512 entries panics in the end |
| `system_split` | with a memory slow to take requests, the response to the low half of a split access arrives while the high half is refused, and `completeDataAccess` fails its assertion on `_status` |
| `system_suspend` | a CPU that has reported Draining and is then suspended by a futex wait never signals: the fault path of `advanceInst` returns before `tryCompleteDrain`, the CPUs that could wake it are drained, and the script waits for ever |

`Layer::drain` reports Drained for an idle layer on which a source still waits for
the destination's retry, although its comment says that nobody may be waiting.
`ImplementsQuiescence` shows that this does no harm to the system: the CPU of that
source is not drained, and the drain cycle is repeated.  The repetition
is needed: the mutant that stops after one cycle leaves packets in flight.

A `SwapReq` (an atomic read-modify-write, `mem/abstract_mem.cc:398`) does not call
`writeOK` either: with `"Swap"` as the only store in `Cmds` of
`MCPIMCtrlReservations.cfg` and no IMC operation, TLC finds
`ReservationsAreFresh` violated in the same way.  The passing run `reservations`
has the stores that go through `writeOK`.  The theorem `OnlyIMCAndSwapsSpoil`
closes the case for the stores of programs: without these two the controller keeps
reservations fresh.  Functional writes (`mem/abstract_mem.cc:494`) bypass `writeOK` as
well; they are in the model, but the history `dirtied` behind `ReservationsAreFresh`
leaves them out, so neither the runs nor the theorem say anything about them.

**Bounds.** Three packets are the fewest for which one response overtakes a
second while a third is sent; two latencies, the smaller 0, give equal due
times, overtaking and responses due at once; durations 0 (`pim_ctrl`) and 1
(`pim_ctrl_live`) are the two branches of the bandwidth limit.  The runs of the
controller divide the data paths between them: swaps, stores, write-backs,
load-locked and store-conditional, and IMC operations that trap or not; for
the safety invariants the theorems cover every mixture.  Two words share one reservation granule;
`reservations` takes three, for a second granule.  In the system runs `MaxRoutes` stands for
512 and is not below the number of outstanding requests of CPUs that wait for
their responses.  Three CPUs are the fewest for which one waits for the peer and
another for the layer while a third occupies it; split accesses and suspension need two CPUs to
meet.  In `packet_queue` the list limit (128 in the code) is within reach of the
four packets, so that the panic happens too.  The arithmetic run keeps `int`
narrower than the word, so that every conversion truncates for some operand.
`SYMMETRY` is used only in runs
without liveness, on packets and contexts, which the model treats alike.
Deadlock checking is off where the simulator may stop: after a trap (`PIMCtrl`), a
failed assertion or panic (`IMCSystem` with IMC instructions, `PacketQueue`).
A chain of operations (`ResidueChain`) ends with a trap.

**Fairness.** The event loop runs every scheduled event (`serviceOne` takes the
event with the least tick), hence weak fairness of `Tick`, `Release`,
`DequeueOnEvent` in `PIMCtrl` and `Release` in `XBar`.  The port protocol obliges
a peer that refused to call back: weak fairness of `RecvRespRetry` and
`PeerRetry`.  That it does not refuse one and the same packet for ever is an
assumption about the peer, stated as strong fairness of `DequeueAccepted` and
of the called source's step in `XBar`.  `PacketQueue` has the same
assumptions for `Tick`, `ProcessSendEvent`, `Retry` and `SendTaken`.  `IMCSystem` has no
ticks; a scheduled event is preceded by finitely many others, but it is disabled
while a handler is under way and enabled again after it, so the event steps have
strong fairness: for each CPU, of the events that move its instructions on; of the
two release events; and of the script's drain loop.  A handler that has begun is
finished (weak fairness), and programs do not consist of system calls alone
(strong fairness of the other instructions).
Latencies in `pim_ctrl_live` are at least 1, as overtaking without end
would otherwise be possible in zero time.

## 4. What TLAPS proves

Every invariant and every safety action property that a passing run checks, and
both refinements, are theorems for all values of the constants.  The runs show
that the statements hold on an instance in which the interesting cases happen;
the theorems that nothing depends on the size of that instance.

What is assumed of the constants is named in the module that declares them:
`WordSize` is even and positive and `IntSize` even and at least 4 (any width of
two's complement integers); there is a word of memory; delays and durations are
naturals; the commands, operations and kinds of instruction are among those the
code has; `None` is not a source, a packet, a handler or a failure; the ports of
`IMCSystem` are an instruction and a data port of each CPU.

No theorem rests on an induction theorem of the library.  Where an argument is by
induction over data, `SequenceLemmas` has it for *sets*: a set of numbers that holds 0
and, with each k below n, also k + 1, holds 0 .. n (`UpToInduction`), and a
non-empty set of naturals has a least element (`NatMinimum`).  A proof defines the
set of numbers of which its claim is true and applies one of these.

### Reservations (`AbstractMemoryProofs`)

| Theorem | Statement |
|---|---|
| `MemTypeCorrect` | `MemSpec => []MemTypeOK` |
| `NoStaleReservation` | `MemSpec => []ReservationsAreFresh` |
| `ReservationsAreKept` | `MemSpec => LocksLostOnlyToStores` |
| `MemInvariance` | `MemSpec => []MemInv` |

`ReservationsAreFresh` is not inductive: with two records of one context a store
could erase one and leave the other, now stale.  `OnePerContext`, what
`trackLoadLocked` is for, is the strengthening.

### Arithmetic (`ResidueChainProofs`)

| Theorem | Statement |
|---|---|
| `ChainTypeCorrect` | `Spec => []TypeOK` |
| `RowsStayMultiples` | `Spec => []Bezout` |
| `IntsSuffice` | `Spec => []NoIntOverflow` |
| `InverseIsStored` | `Spec => []StoresInverse` |
| `ChainsAreExact` | `Spec => []AccIsExact` |
| `InvmodIsInverse` | what `Invmod`, the function that the controller's action uses, returns, and when the host traps |
| `LoopShrinks` | each iteration decreases `val_b`, a natural number |
| `ResultIsWord` | operations that do not trap result in words |
| `ChainInvariance` | `Spec => []IInv` |

Thus the claims for 6-bit words hold for 2^64 and 2^32.  `EuclidInv` is the
invariant of the INVMOD loop under a modulus m that fits `int`: each row is a
multiple of the value modulo m (the Bezout relation); the coefficients `x0` and `x1`
have opposite signs and, weighted with the other row, magnitudes that add up to m
(`Balanced`), which bounds them and makes `int` wide enough; `x1` stays within half of m, so
that one addition of m is enough to reduce it; and no common divisor appears that
value and modulus do not have (`KeepsDivisors`), so a trap means a common factor.
`InvmodIsInverse` and `ResultIsWord` speak of the recursive function `InvmodWhile`
and need that it is defined on all states of the loop, the truncated ones included;
this follows from `LoopShrinks`' measure.

### Controller (`PIMCtrlProofs`, `PIMCtrlRefinement`)

| Theorem | Statement |
|---|---|
| `TypeCorrect` | `Spec => []TypeOK` |
| `NoLostRetry` | `Spec => []RetryIsOwed` |
| `DeliveryIsArmed` | `Spec => []DeliveryArmedOnce` |
| `NeverSentEarly` | `Spec => []NeverEarly` |
| `ResponseOrder` | `Spec => []OvertakingIsJustified` |
| `DrainCompletes` | `Spec => []DrainWillBeSignalled` |
| `Invariance` | `Spec => []IInv` |
| `OnlyIMCAndSwapsSpoil` | `Spec => []ReservationsAreFresh`, if there are neither IMC operations nor swaps |
| `RefinesOrderedMemory` | `Spec => ImplementsOrderedMemory` |

None of the invariants is inductive alone.  `IInv` adds what holds *during* the call of
`sendTimingResp` (`CallInv`: the peer is not blocked, and the event is scheduled
only by a nested request, which then stands behind the response being sent), that
a refused response is due (`HeadIsDue`), that packets in the queue are distinct
(`PacketsDistinct`) and that the acceptance history speaks of queued packets only
(`HistoryInv`).  The proof goes in three layers: types; `CtrlInv`, the relation of
flags, events and the head of the queue; `QueueInv`, the order of the queue
against the order of acceptance.  The key lemma is `InsertAtLemma` (what the
insertion loop leaves where), used with the loop's stopping condition: every
response it passes has another address and is due later.

For the refinement, the abstract queue of an address is the filter of
`packetQueue` by that address (`DueAmong`, a recursive function on prefixes).  The
lemmas say what the insertion, the removal of the head, the passing of time and a
functional write do to the filter of each address, by induction on prefixes: the
insertion loop never passes a response of its own address, so for
that address it appends, and for the others nothing changes.

### Crossbar layer (`XBarProofs`)

| Theorem | Statement |
|---|---|
| `LayerTypeCorrect` | `Spec => []TypeOK` |
| `NobodyForgotten` | `Spec => []WaitersAreKnown` |
| `WakeupIsOwed` | `Spec => []NoLostWakeup` |
| `FirstRefusedFirstServed` | `Spec => ServedInOrder` |
| `SignalledWhenQuiet` | `Spec => SignalMeansQuiet` |
| `LayerInvariance` | `Spec => []IInv` |

The strengthening is `LineInv`: `waitingForPeer` (or the port being called)
followed by `waitingForLayer` *is* the line of refused sources, in the order in
which they were first refused.  Without it neither the order of service nor the
fact that a layer lets a packet through only when nobody waits, or to the one it
calls (`FreeLemma`), is inductive.  The proof has one lemma per action on top of
four facts about sequences (append, first and rest, empty, removal of the first).

### Packet queue (`PacketQueueProofs`)

| Theorem | Statement |
|---|---|
| `QueueTypeCorrect` | `Spec => []TypeOK` |
| `AlwaysArmed` | `Spec => []SendIsArmed` |
| `NeverSentEarlyNorLate` | `Spec => []SentOnTime` |
| `SendOrder` | `Spec => []OvertakingIsJustified` |
| `RefusedIsNext` | `Spec => RefusedGoesFirst` |
| `DrainSignalledOnce` | `Spec => DrainIsSignalled` |
| `QueueInvariance` | `Spec => []IInv` |

The invariant speaks of the *line*: the packet in the call, then the list.  During the
call the event is scheduled only by packets queued from within it, and for the
head (`CallInv`); a packet that waits for a retry is due, so that a packet
inserted by tick cannot get in front of it; a draining queue has somebody in line.

### Composed system (`IMCSystemProofs`)

| Theorem | Statement |
|---|---|
| `SystemTypeCorrect` | `Spec => []TypeOK` |
| `AssertionsHold` | `Spec /\ Suited => []NoAssertFails` |
| `RetriesAreOwed` | `Spec /\ Suited => []RetriesMatch` |
| `EveryResponseAwaited` | `Spec /\ Suited => []ResponsesAreAwaited` |
| `IMCIsNeverLost` | `Spec /\ Suited => []IMCTakesEffect` |
| `DrainedMeansQuiet` | `Spec /\ Suited => ImplementsQuiescence` |
| `RoutesOwedWithoutIMC` | `Spec /\ ~Programmed("IMC") => []RoutesAreOwed` |
| `RoutesAreFew` | `Spec /\ Suited /\ ~Programmed("IMC") => []FewRoutes` |
| `SystemInvariance` | `Spec /\ Suited => []IInv` |

`Suited` says of a configuration that programs with split accesses run on a `fast`
system, and programs with IMC instructions on a `fast` one with a single CPU.  All
five configurations of the run `system` are suited, the shipped script's system
among them.  The hypothesis is not a convenience: `system_split` and
`system_contention` are the counterexamples without it.  Programs of loads, stores,
atomics, system calls and futex waits need no hypothesis, with any number of CPUs.

The invariant has five parts.  `LayerInv`: layer and controller agree on who is owed a
retry, and nobody is in two of the layer's places.  `WaitInv`: the ports that wait
there are those of the CPUs in a retry state.  `FetchInv` and `DataInv` do
the books of each CPU: how many fragments of its access are held, pending, queued or
about to be processed, in each of its states and at each point within a
handler; the clause that matters is that none is answered while another is
held.  `IMCInv`: from the response to a fetch to the end of the instruction the memory
and the layer are free.  `DrainedInv`: a drained system stays drained, from which the
refinement follows step by step.  The types need less (`PathInv`) and hold of
every system.  `RoutesOwedWithoutIMC` and `RoutesAreFew` are the other side of
`system_routes`: the routing table leaks through IMC packets alone.

### Only model-checked

Liveness under fairness is out of the prover's reach: `Terminates`,
`EveryRequestAnswered`, `EveryRefusalRetried`, `EveryWaiterServed`, `EveryPacketSent`,
`CPUsProgress`, `DrainEnds`.  For `Terminates` the measure is proved (`LoopShrinks`); for
the others the theorems that a callback or an event is owed (`NoLostRetry`,
`WakeupIsOwed`, `AlwaysArmed`, `RetriesAreOwed`) are the safety part.  `NoAssertFails`
leaves the panic of the routing table aside.  `RoutesAreFew` bounds the entries of
each CPU by 2; that the table, their sum over the CPUs, then has at most twice
as many entries as there are CPUs is an induction over a fold and is left to the reader.

## 5. Not modelled

Atomic mode, back doors, functional reads and statistics; caches, snooping and the
delay of the crossbar's response layers; translation and its faults (the fault
branches of `sendFetch` and of the IMC instructions included), several
threads on one CPU, switching out and transactional memory of the CPU;
`recvFunctional` of `mem/simple_mem.cc`, whose IMC branches no request reaches (the
rest of that file from `recvTimingReq` on is the code of `PIMCtrl` under another
class name); the flag word of requests (two IMC flags share bits with flags that
nothing in this system sets); `mem/imc_sram.*`, `mem/IMCMemory.*`,
`arch/riscv/insts/addmod.*`, which no build file names; the rest of gem5 (other
CPU models, caches, Ruby, devices, other ISAs) and the vendored toolchain, which
are upstream code outside of the path of an IMC instruction.

## 6. Plan

Done: `Words`, `IMCArith`, `InvmodLoop`, `ResidueChain`, `AbstractMemory`, `PIMCtrl`,
`OrderedMemory`, `XBarLayer`, `XBar`, `PacketQueue`, `IMCSystem` with split accesses,
suspension and drains, `Quiescence`, and the proofs of all their safety properties.  Next:

1. The ECDSA programs: the point arithmetic of the IMC program and of the plain
   one against the group law on a small curve.
