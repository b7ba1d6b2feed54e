--------------------------- MODULE OrderedMemory ----------------------------
(***************************************************************************)
(* What the PIM controller promises its peer, without bandwidth, latency,  *)
(* retries or events: requests and IMC operations take effect one at a     *)
(* time in the order they are accepted, every accepted request that needs  *)
(* a response gets exactly one, carrying what the access returned, and the *)
(* responses of one address come back in the order of the requests.        *)
(* Responses of different addresses come back in any order.                *)
(***************************************************************************)
EXTENDS AbstractMemory, IMCArith, Sequences

CONSTANTS Pkt, ImcOps

VARIABLE pending  \* per address, the responses that are due, oldest first

omVars == <<memVars, pending>>

Response(p, cmd, data) == [pkt |-> p, cmd |-> cmd, data |-> data]

Outstanding ==
    UNION {{pending[a][k].pkt : k \in DOMAIN pending[a]} : a \in Addr}

OmInit == MemInit /\ pending = [a \in Addr |-> <<>>]

\* A load or store takes effect and its response joins its address's queue.
Request(p, cmd, c, a, v) ==
    /\ NeedsResponse(cmd)
    /\ Access(cmd, c, a, v)
    /\ pending' = [pending EXCEPT ![a] =
                      Append(@, Response(p, cmd, AccessData(cmd, c, a)))]
    /\ p \notin Outstanding

\* A store that is not answered takes effect.
Post(cmd, c, a, v) ==
    /\ ~NeedsResponse(cmd)
    /\ Access(cmd, c, a, v)
    /\ UNCHANGED pending

\* An IMC operation takes effect; nothing is answered.
Compute(op, a, b, c, d) ==
    /\ ~Traps(op, mem[a], mem[b], mem[c])
    /\ mem' = [mem EXCEPT ![d] = Result(op, mem[a], mem[b], mem[c])]
    /\ dirtied' = dirtied \cup Holders(d)
    /\ UNCHANGED <<lockedAddrList, pending>>

\* The oldest response of an address is delivered.
Answer(a) ==
    /\ pending[a] # <<>>
    /\ pending' = [pending EXCEPT ![a] = Tail(@)]
    /\ UNCHANGED memVars

\* A functional write changes the word everywhere it is found.
Poke(a, v) ==
    /\ FunctionalStore(a, v)
    /\ pending' = [pending EXCEPT ![a] =
                      [k \in DOMAIN @ |-> IF ResponseHasData(@[k].cmd)
                                          THEN [@[k] EXCEPT !.data = v]
                                          ELSE @[k]]]

OmNext ==
    \/ \E a \in Addr : Answer(a)
    \/ \E op \in ImcOps, a, b, c, d \in Addr : Compute(op, a, b, c, d)
    \/ \E a \in Addr, v \in Word : Poke(a, v)
    \/ \E cmd \in Cmds, c \in Ctx, a \in Addr, v \in Word : Post(cmd, c, a, v)
    \/ \E p \in Pkt, cmd \in Cmds, c \in Ctx, a \in Addr, v \in Word :
          Request(p, cmd, c, a, v)

OmSpec == OmInit /\ [][OmNext]_omVars
=============================================================================
