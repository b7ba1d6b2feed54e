------------------------- MODULE PIMCtrlRefinement --------------------------
(***************************************************************************)
(* The controller implements OrderedMemory, for every number of words,     *)
(* packets, contexts, delays and durations.  The abstract queue of an      *)
(* address is a filter of the packet queue; the lemmas say what each       *)
(* change of the packet queue does to it, by induction on its prefixes.    *)
(***************************************************************************)
EXTENDS PIMCtrlProofs

DueResponse == [pkt: Pkt, cmd: AllCmds, data: Word]

\* D holds the filtered prefixes of q.
IsDueAmong(D, q, a) ==
    /\ D[0] = <<>>
    /\ \A i \in 1 .. Len(q) :
          D[i] = IF q[i].addr = a THEN Append(D[i - 1], Due(q[i])) ELSE D[i - 1]
    /\ \A i \in 0 .. Len(q) : D[i] \in Seq(DueResponse)

LEMMA DueType == \A e \in DeferredPacket : Due(e) \in DueResponse
  BY DEF Due, DueResponse, DeferredPacket

-----------------------------------------------------------------------------
\* The recursion of DueAmong has a solution.
LEMMA DueAmongDefined ==
    ASSUME NEW q \in Seq(DeferredPacket), NEW a
    PROVE  IsDueAmong(DueAmong(q, a), q, a)
  <1> DEFINE n == Len(q)
             Step(i, s) == IF q[i].addr = a THEN Append(s, Due(q[i])) ELSE s
             Eqn(f, k) == f = [i \in 0 .. k |-> IF i = 0 THEN <<>> ELSE Step(i, f[i - 1])]
             T == {k \in 0 .. n : \E f : Eqn(f, k)}
  <1>0. n \in Nat
    OBVIOUS
  <1> HIDE DEF n, Step
  <1>1. 0 \in T
    <2>1. Eqn([i \in 0 .. 0 |-> <<>>], 0)
      BY SMT
    <2>2. 0 \in 0 .. n
      BY <1>0
    <2> QED
      BY <2>1, <2>2, Zenon
  <1>2. ASSUME NEW k \in 0 .. (n - 1), k \in T PROVE k + 1 \in T
    <2>1. PICK f : Eqn(f, k)
      BY <1>2
    <2> DEFINE g == [i \in 0 .. (k + 1) |-> IF i = k + 1 THEN Step(k + 1, f[k]) ELSE f[i]]
    <2>2. \A i \in 0 .. k : f[i] = IF i = 0 THEN <<>> ELSE Step(i, f[i - 1])
      <3> HIDE DEF g
      <3> QED
        BY <2>1
    <2>3. \A i \in 0 .. (k + 1) : g[i] = IF i = 0 THEN <<>> ELSE Step(i, g[i - 1])
      <3> SUFFICES ASSUME NEW i \in 0 .. (k + 1)
                   PROVE  g[i] = IF i = 0 THEN <<>> ELSE Step(i, g[i - 1])
        OBVIOUS
      <3>1. CASE i = k + 1
        <4>1. i # 0 /\ i - 1 = k /\ k \in 0 .. (k + 1) /\ k # k + 1
          BY <1>0, <3>1, SMT
        <4> QED
          BY <3>1, <4>1
      <3>2. CASE i \in 0 .. k
        <4>1. i # k + 1
          BY <3>2, SMT
        <4>2. i # 0 => i - 1 \in 0 .. (k + 1) /\ i - 1 # k + 1
          BY <3>2, SMT
        <4> QED
          BY <2>2, <3>2, <4>1, <4>2
      <3> QED
        BY <1>0, <3>1, <3>2, SMT
    <2>4. Eqn(g, k + 1)
      BY <2>3
    <2>5. k + 1 \in 0 .. n
      BY <1>0, SMT
    <2> QED
      BY <2>4, <2>5
  <1>3. \E f : Eqn(f, n)
    <2>1. n \in 0 .. n
      BY <1>0
    <2> HIDE DEF T
    <2>2. 0 .. n \subseteq T
      BY <1>0, <1>1, <1>2, UpToInduction
    <2>3. n \in T
      BY <2>1, <2>2
    <2> QED
      BY <2>3 DEF T
  <1> DEFINE D == DueAmong(q, a)
  <1>4. D = CHOOSE f : Eqn(f, n)
    BY DEF DueAmong, n, Step
  <1>5. Eqn(D, n)
    <2> HIDE DEF D
    <2> QED
      BY <1>3, <1>4
  <1> HIDE DEF D
  <1>6. \A i \in 0 .. n : D[i] = IF i = 0 THEN <<>> ELSE Step(i, D[i - 1])
    BY <1>5
  <1>7. D[0] = <<>> /\ \A i \in 1 .. n : D[i] = Step(i, D[i - 1])
    <2>1. 0 \in 0 .. n /\ \A i \in 1 .. n : i \in 0 .. n /\ i # 0
      BY <1>0, SMT
    <2> QED
      BY <1>6, <2>1, Zenon
  <1>8. \A i \in 0 .. n : D[i] \in Seq(DueResponse)
    <2> DEFINE S == {i \in 0 .. n : D[i] \in Seq(DueResponse)}
    <2>1. 0 \in S
      <3>1. 0 \in 0 .. n /\ <<>> \in Seq(DueResponse)
        BY <1>0
      <3> QED
        BY <1>7, <3>1, Zenon
    <2>2. ASSUME NEW i \in 0 .. (n - 1), i \in S PROVE i + 1 \in S
      <3>1. i + 1 \in 1 .. n /\ i + 1 \in 0 .. n /\ (i + 1) - 1 = i
        BY <1>0, SMT
      <3>2. D[i + 1] = Step(i + 1, D[i])
        BY <1>7, <3>1
      <3>3. Due(q[i + 1]) \in DueResponse
        BY <3>1, DueType DEF n
      <3>4. Step(i + 1, D[i]) \in Seq(DueResponse)
        BY <2>2, <3>3 DEF Step
      <3> QED
        BY <3>1, <3>2, <3>4
    <2> HIDE DEF S
    <2>3. 0 .. n \subseteq S
      BY <1>0, <2>1, <2>2, UpToInduction
    <2> QED
      BY <2>3 DEF S
  <1> QED
    BY <1>7, <1>8 DEF IsDueAmong, D, n, Step

\* A filtered prefix has an element only where the queue has one.
LEMMA DueIsQueued ==
    ASSUME NEW q \in Seq(DeferredPacket), NEW a, NEW D, IsDueAmong(D, q, a)
    PROVE  \A i \in 0 .. Len(q) : \A k \in DOMAIN D[i] :
              \E j \in 1 .. Len(q) : D[i][k].pkt = q[j].pkt
  <1> DEFINE n == Len(q)
             Known(s) == \A k \in DOMAIN s : \E j \in 1 .. n : s[k].pkt = q[j].pkt
             S == {i \in 0 .. n : Known(D[i])}
  <1>0. n \in Nat
    OBVIOUS
  <1> HIDE DEF n
  <1>1. D[0] = <<>> /\ \A i \in 0 .. n : D[i] \in Seq(DueResponse)
    BY DEF IsDueAmong, n
  <1>2. \A i \in 1 .. n :
          D[i] = IF q[i].addr = a THEN Append(D[i - 1], Due(q[i])) ELSE D[i - 1]
    BY DEF IsDueAmong, n
  <1>3. 0 \in S
    <2>1. 0 \in 0 .. n
      BY <1>0
    <2>2. DOMAIN <<>> = {}
      BY SMT
    <2> QED
      BY <1>1, <2>1, <2>2, Zenon
  <1>4. ASSUME NEW i \in 0 .. (n - 1), i \in S PROVE i + 1 \in S
    <2>1. i + 1 \in 1 .. n /\ i + 1 \in 0 .. n /\ (i + 1) - 1 = i /\ i \in 0 .. n
      BY <1>0, SMT
    <2>2. D[i + 1] = IF q[i + 1].addr = a THEN Append(D[i], Due(q[i + 1])) ELSE D[i]
      BY <1>2, <2>1
    <2>3. Known(D[i]) /\ D[i] \in Seq(DueResponse)
      BY <1>1, <1>4, <2>1
    <2>4. Known(Append(D[i], Due(q[i + 1])))
      <3> DEFINE s == D[i]
                 d == Due(q[i + 1])
      <3>1. d.pkt = q[i + 1].pkt
        BY DEF Due
      <3> HIDE DEF s, d
      <3>2. s \in Seq(DueResponse)
        BY <2>3 DEF s
      <3>3. /\ DOMAIN Append(s, d) = DOMAIN s \cup {Len(s) + 1}
            /\ Append(s, d)[Len(s) + 1] = d
            /\ \A k \in DOMAIN s : Append(s, d)[k] = s[k]
        BY <3>2, SMT
      <3>4. Known(s)
        BY <2>3 DEF s
      <3>5. Known(Append(s, d))
        BY <2>1, <3>1, <3>3, <3>4, Zenon
      <3> QED
        BY <3>5 DEF s, d
    <2> QED
      BY <2>1, <2>2, <2>3, <2>4, Zenon
  <1> HIDE DEF S
  <1>5. 0 .. n \subseteq S
    BY <1>0, <1>3, <1>4, UpToInduction
  <1> QED
    BY <1>5 DEF S, n

\* A response inserted behind all those of its address joins their end; the
\* filters of the other addresses do not see it.
LEMMA DueOfInsertion ==
    ASSUME NEW q \in Seq(DeferredPacket), NEW r, NEW e \in DeferredPacket, NEW a,
           NEW k \in 0 .. Len(q), IsInsertion(r, q, k, e, DeferredPacket),
           \A j \in (k + 1) .. Len(q) : q[j].addr # e.addr,
           NEW D, IsDueAmong(D, q, a), NEW E, IsDueAmong(E, r, a)
    PROVE  E[Len(r)] = IF e.addr = a THEN Append(D[Len(q)], Due(e)) ELSE D[Len(q)]
  <1> DEFINE n == Len(q)
             Grow(s, x) == IF x.addr = a THEN Append(s, Due(x)) ELSE s
  <1>0. n \in Nat
    OBVIOUS
  <1>1. /\ Len(r) = n + 1
        /\ \A i \in 1 .. (n + 1) :
              r[i] = IF i <= k THEN q[i] ELSE IF i = k + 1 THEN e ELSE q[i - 1]
    BY DEF IsInsertion
  <1>2. D[0] = <<>> /\ \A i \in 1 .. n : D[i] = Grow(D[i - 1], q[i])
    BY DEF IsDueAmong
  <1>3. E[0] = <<>> /\ \A i \in 1 .. (n + 1) : E[i] = Grow(E[i - 1], r[i])
    BY <1>1 DEF IsDueAmong
  <1>4. k \in 0 .. n /\ \A j \in (k + 1) .. n : q[j].addr # e.addr
    OBVIOUS
  <1>5. Len(r) = n + 1
    BY <1>1
  <1> HIDE DEF n, Grow
  <1>6. E[k] = D[k]
    <2> DEFINE S == {i \in 0 .. k : E[i] = D[i]}
    <2>1. k \in Nat /\ 0 \in 0 .. k
      BY <1>0, <1>4, SMT
    <2>2. 0 \in S
      BY <1>2, <1>3, <2>1, Zenon
    <2>3. ASSUME NEW i \in 0 .. (k - 1), i \in S PROVE i + 1 \in S
      <3>1. /\ i + 1 \in 1 .. n /\ i + 1 \in 1 .. (n + 1) /\ i + 1 \in 0 .. k
            /\ i + 1 <= k /\ (i + 1) - 1 = i
        BY <1>0, <1>4, SMT
      <3>2. D[i + 1] = Grow(D[i], q[i + 1]) /\ E[i + 1] = Grow(E[i], r[i + 1])
        BY <1>2, <1>3, <3>1
      <3>3. r[i + 1] = q[i + 1] /\ E[i] = D[i]
        BY <1>1, <2>3, <3>1
      <3> QED
        BY <3>1, <3>2, <3>3, Zenon
    <2> HIDE DEF S
    <2>4. 0 .. k \subseteq S
      BY <2>1, <2>2, <2>3, UpToInduction
    <2>5. k \in 0 .. k
      BY <2>1
    <2> QED
      BY <2>4, <2>5 DEF S
  <1>7. E[k + 1] = Grow(D[k], e)
    <2>1. k + 1 \in 1 .. (n + 1) /\ ~(k + 1 <= k) /\ (k + 1) - 1 = k
      BY <1>0, <1>4, SMT
    <2> QED
      BY <1>1, <1>3, <1>6, <2>1
  <1>8. E[n + 1] = Grow(D[n], e)
    <2> DEFINE S == {i \in 0 .. (n - k) : E[(k + i) + 1] = Grow(D[k + i], e)}
    <2>1. n - k \in Nat /\ 0 \in 0 .. (n - k) /\ k + 0 = k
      BY <1>0, <1>4, SMT
    <2>2. 0 \in S
      BY <1>7, <2>1
    <2>3. ASSUME NEW i \in 0 .. ((n - k) - 1), i \in S PROVE i + 1 \in S
      <3> DEFINE j == (k + i) + 1
      <3>1. /\ j \in 1 .. n /\ j + 1 \in 1 .. (n + 1) /\ j \in (k + 1) .. n
            /\ i + 1 \in 0 .. (n - k) /\ j = k + (i + 1)
            /\ j - 1 = k + i /\ (j + 1) - 1 = j /\ ~(j + 1 <= k) /\ j + 1 # k + 1
        BY <1>0, <1>4, SMT
      <3> HIDE DEF j
      <3>2. D[j] = Grow(D[k + i], q[j]) /\ E[j + 1] = Grow(E[j], r[j + 1])
        BY <1>2, <1>3, <3>1
      <3>3. r[j + 1] = q[j] /\ q[j].addr # e.addr
        BY <1>1, <1>4, <3>1
      <3>4. E[j] = Grow(D[k + i], e)
        BY <2>3 DEF j
      <3>5. Grow(Grow(D[k + i], e), q[j]) = Grow(Grow(D[k + i], q[j]), e)
        BY <3>3 DEF Grow
      <3>6. E[j + 1] = Grow(D[j], e)
        BY <3>2, <3>3, <3>4, <3>5
      <3> QED
        BY <3>1, <3>6
    <2> HIDE DEF S
    <2>4. 0 .. (n - k) \subseteq S
      BY <2>1, <2>2, <2>3, UpToInduction
    <2>5. n - k \in 0 .. (n - k) /\ k + (n - k) = n
      BY <1>0, <1>4, <2>1, SMT
    <2> QED
      BY <2>4, <2>5 DEF S
  <1> QED
    BY <1>5, <1>8 DEF Grow, n

\* The departure of the first response is that of the first of its address.
LEMMA DueOfTail ==
    ASSUME NEW q \in Seq(DeferredPacket), q # <<>>, NEW a,
           NEW D, IsDueAmong(D, q, a), NEW E, IsDueAmong(E, Tail(q), a)
    PROVE  IF q[1].addr = a
           THEN D[Len(q)] # <<>> /\ E[Len(Tail(q))] = Tail(D[Len(q)])
           ELSE E[Len(Tail(q))] = D[Len(q)]
  <1> DEFINE n == Len(q)
             r == Tail(q)
             Grow(s, x) == IF x.addr = a THEN Append(s, Due(x)) ELSE s
             Rest(s, t) == IF q[1].addr = a THEN s # <<>> /\ t = Tail(s) ELSE t = s
  <1>0. n \in Nat /\ n >= 1
    OBVIOUS
  <1>1. Len(r) = n - 1 /\ \A i \in 1 .. (n - 1) : r[i] = q[i + 1]
    OBVIOUS
  <1>2. /\ D[0] = <<>> /\ \A i \in 1 .. n : D[i] = Grow(D[i - 1], q[i])
        /\ \A i \in 0 .. n : D[i] \in Seq(DueResponse)
    BY DEF IsDueAmong
  <1>3. E[0] = <<>> /\ \A i \in 1 .. (n - 1) : E[i] = Grow(E[i - 1], r[i])
    BY <1>1 DEF IsDueAmong
  <1>4. \A i \in 1 .. n : Due(q[i]) \in DueResponse
    BY DueType
  <1> HIDE DEF n, r
  <1> DEFINE S == {i \in 0 .. (n - 1) : Rest(D[i + 1], E[i])}
  <1>5. 0 \in S
    <2>1. 0 \in 0 .. (n - 1) /\ 1 \in 1 .. n /\ 0 + 1 = 1 /\ 1 - 1 = 0
      BY <1>0, SMT
    <2>2. D[1] = Grow(<<>>, q[1])
      BY <1>2, <2>1
    <2>3. Rest(Grow(<<>>, q[1]), <<>>)
      BY <1>4, <2>1, SMT
    <2> QED
      BY <1>3, <2>1, <2>2, <2>3
  <1>6. ASSUME NEW i \in 0 .. ((n - 1) - 1), i \in S PROVE i + 1 \in S
    <2> DEFINE j == i + 1
    <2>1. /\ j \in 1 .. (n - 1) /\ j + 1 \in 1 .. n /\ (j + 1) - 1 = j /\ j - 1 = i
          /\ j \in 0 .. n /\ j \in 0 .. (n - 1)
      BY <1>0, SMT
    <2>2. Rest(D[j], E[i])
      BY <1>6
    <2> HIDE DEF j
    <2>3. D[j + 1] = Grow(D[j], q[j + 1]) /\ E[j] = Grow(E[i], q[j + 1])
      BY <1>1, <1>2, <1>3, <2>1
    <2>4. D[j] \in Seq(DueResponse) /\ Due(q[j + 1]) \in DueResponse
      BY <1>2, <1>4, <2>1
    <2>5. Rest(Grow(D[j], q[j + 1]), Grow(E[i], q[j + 1]))
      <3> DEFINE s == D[j]
                 t == E[i]
                 d == Due(q[j + 1])
      <3>1. s \in Seq(DueResponse) /\ d \in DueResponse /\ Rest(s, t)
        BY <2>2, <2>4
      <3> HIDE DEF s, t, d
      <3>0. s \in Seq(DueResponse) /\ d \in DueResponse
        BY <3>1
      <3>2. s # <<>> => Tail(Append(s, d)) = Append(Tail(s), d)
        BY <3>0, SMT
      <3>3. Append(s, d) # <<>>
        BY <3>0, AppendProperties
      <3>4. Rest(Append(s, d), Append(t, d))
        BY <3>1, <3>2, <3>3
      <3> QED
        BY <3>1, <3>4 DEF s, t, d
    <2>6. Rest(D[j + 1], E[j])
      <3> HIDE DEF Rest, Grow
      <3> QED
        BY <2>3, <2>5
    <2> QED
      BY <2>1, <2>6 DEF j
  <1> HIDE DEF S
  <1>7. 0 .. (n - 1) \subseteq S
    <2>1. n - 1 \in Nat
      BY <1>0
    <2> QED
      BY <1>5, <1>6, <2>1, UpToInduction
  <1>8. n - 1 \in 0 .. (n - 1) /\ (n - 1) + 1 = n
    BY <1>0
  <1>9. Rest(D[n], E[n - 1])
    BY <1>7, <1>8 DEF S
  <1> QED
    BY <1>1, <1>9 DEF n, r

\* A change of the queue in place that keeps addresses and what is due, as the
\* passing of time does, keeps the filters.
LEMMA DueOfTicks ==
    ASSUME NEW q, NEW r, Len(r) = Len(q), Len(q) \in Nat,
           \A i \in 1 .. Len(q) : r[i].addr = q[i].addr /\ Due(r[i]) = Due(q[i]),
           NEW a, NEW D, IsDueAmong(D, q, a), NEW E, IsDueAmong(E, r, a)
    PROVE  E[Len(r)] = D[Len(q)]
  <1> DEFINE n == Len(q)
             S == {i \in 0 .. n : E[i] = D[i]}
  <1>1. n \in Nat /\ n \in 0 .. n /\ 0 \in 0 .. n
    OBVIOUS
  <1>2. 0 \in S
    BY <1>1 DEF IsDueAmong
  <1>3. ASSUME NEW i \in 0 .. (n - 1), i \in S PROVE i + 1 \in S
    <2>1. i + 1 \in 1 .. n /\ i + 1 \in 0 .. n /\ (i + 1) - 1 = i
      BY <1>1, SMT
    <2>2. D[i + 1] = IF q[i + 1].addr = a THEN Append(D[i], Due(q[i + 1])) ELSE D[i]
      BY <2>1 DEF IsDueAmong
    <2>3. E[i + 1] = IF r[i + 1].addr = a THEN Append(E[i], Due(r[i + 1])) ELSE E[i]
      BY <2>1 DEF IsDueAmong
    <2> QED
      BY <1>3, <2>1, <2>2, <2>3
  <1> HIDE DEF n, S
  <1>4. 0 .. n \subseteq S
    BY <1>1, <1>2, <1>3, UpToInduction
  <1> QED
    BY <1>1, <1>4 DEF S, n

\* What Poke does to a response that is due.
Poked(d, v) == IF ResponseHasData(d.cmd) THEN [d EXCEPT !.data = v] ELSE d

\* A functional write changes the data of the responses of its address, in
\* the queue and in the filter alike.
LEMMA DueOfFunctional ==
    ASSUME NEW q \in Seq(DeferredPacket), NEW r, Len(r) = Len(q), NEW w \in Addr, NEW v \in Word,
           \A i \in 1 .. Len(q) : r[i] = SatisfyFunctional(q[i], w, v),
           NEW a, NEW D, IsDueAmong(D, q, a), NEW E, IsDueAmong(E, r, a)
    PROVE  E[Len(r)] = IF a = w THEN [k \in DOMAIN D[Len(q)] |-> Poked(D[Len(q)][k], v)]
                                ELSE D[Len(q)]
  <1> DEFINE n == Len(q)
             Change(s) == IF a = w THEN [k \in DOMAIN s |-> Poked(s[k], v)] ELSE s
             S == {i \in 0 .. n : E[i] = Change(D[i])}
  <1>0. n \in Nat
    OBVIOUS
  <1>1. /\ D[0] = <<>>
        /\ \A i \in 1 .. n :
              D[i] = IF q[i].addr = a THEN Append(D[i - 1], Due(q[i])) ELSE D[i - 1]
        /\ \A i \in 0 .. n : D[i] \in Seq(DueResponse)
    BY DEF IsDueAmong
  <1>2. /\ E[0] = <<>>
        /\ \A i \in 1 .. n :
              E[i] = IF r[i].addr = a THEN Append(E[i - 1], Due(r[i])) ELSE E[i - 1]
    BY DEF IsDueAmong
  <1>3. \A i \in 1 .. n : /\ r[i].addr = q[i].addr
                          /\ q[i].addr # w => Due(r[i]) = Due(q[i])
                          /\ q[i].addr = w => Due(r[i]) = Poked(Due(q[i]), v)
                          /\ Due(q[i]) \in DueResponse
    <2> SUFFICES ASSUME NEW i \in 1 .. n
                 PROVE  /\ r[i].addr = q[i].addr
                        /\ q[i].addr # w => Due(r[i]) = Due(q[i])
                        /\ q[i].addr = w => Due(r[i]) = Poked(Due(q[i]), v)
                        /\ Due(q[i]) \in DueResponse
      OBVIOUS
    <2>1. q[i] \in DeferredPacket /\ r[i] = SatisfyFunctional(q[i], w, v)
      OBVIOUS
    <2> HIDE DEF n
    <2>2. Due(q[i]) \in DueResponse
      BY <2>1, DueType
    <2> QED
      BY <2>1, <2>2 DEF SatisfyFunctional, Poked, Due, DeferredPacket
  <1> HIDE DEF n
  <1>4. 0 \in S
    <2>1. 0 \in 0 .. n
      BY <1>0
    <2>2. Change(<<>>) = <<>>
      BY SMT
    <2> QED
      BY <1>1, <1>2, <2>1, <2>2
  <1>5. ASSUME NEW i \in 0 .. (n - 1), i \in S PROVE i + 1 \in S
    <2>1. i + 1 \in 1 .. n /\ i + 1 \in 0 .. n /\ (i + 1) - 1 = i /\ i \in 0 .. n
      BY <1>0, SMT
    <2> DEFINE s == D[i]
               d == Due(q[i + 1])
               x == Due(r[i + 1])
    <2>2. D[i + 1] = IF q[i + 1].addr = a THEN Append(s, d) ELSE s
      BY <1>1, <2>1
    <2>3. E[i + 1] = IF q[i + 1].addr = a THEN Append(Change(s), x) ELSE Change(s)
      BY <1>2, <1>3, <1>5, <2>1
    <2>4. s \in Seq(DueResponse) /\ d \in DueResponse
      BY <1>1, <1>3, <2>1
    <2>5. q[i + 1].addr = a => x = IF a = w THEN Poked(d, v) ELSE d
      BY <1>3, <2>1
    <2> HIDE DEF s, d, x
    <2>6. q[i + 1].addr = a => Append(Change(s), x) = Change(Append(s, d))
      <3> SUFFICES ASSUME q[i + 1].addr = a PROVE Append(Change(s), x) = Change(Append(s, d))
        OBVIOUS
      <3>1. CASE a # w
        BY <2>5, <3>1
      <3>2. CASE a = w
        <4> DEFINE m == Len(s)
                   c == [k \in DOMAIN s |-> Poked(s[k], v)]
        <4>1. m \in Nat /\ DOMAIN s = 1 .. m /\ \A k \in 1 .. m : s[k] \in DueResponse
          BY <2>4
        <4>2. \A y \in DueResponse : Poked(y, v) \in DueResponse
          BY DEF Poked, DueResponse
        <4>3. c \in Seq(DueResponse) /\ Len(c) = m /\ \A k \in 1 .. m : c[k] = Poked(s[k], v)
          <5>1. c \in [1 .. m -> DueResponse]
            BY <4>1, <4>2
          <5>2. c \in Seq(DueResponse) /\ Len(c) = m
            <6> HIDE DEF c, m
            <6> QED
              BY <4>1, <5>1
          <5> QED
            BY <4>1, <5>2
        <4>4. x = Poked(d, v) /\ x \in DueResponse
          BY <2>4, <2>5, <3>2, <4>2
        <4>5. Change(Append(s, d)) = [k \in DOMAIN Append(s, d) |-> Poked(Append(s, d)[k], v)]
          BY <3>2
        <4>6. Change(s) = c
          BY <3>2
        <4>7. /\ DOMAIN Append(s, d) = 1 .. (m + 1)
              /\ \A k \in 1 .. (m + 1) : Append(s, d)[k] = IF k = m + 1 THEN d ELSE s[k]
          BY <2>4, <4>1
        <4> HIDE DEF c, m
        <4>8. Append(c, x) = [k \in 1 .. (m + 1) |-> IF k = m + 1 THEN x ELSE c[k]]
          <5> DEFINE f == Append(c, x)
          <5>0. f \in Seq(DueResponse) /\ Len(f) = m + 1
            BY <4>3, <4>4, AppendProperties
          <5>1. f \in [1 .. (m + 1) -> DueResponse]
            <6> HIDE DEF f
            <6> QED
              BY <5>0, LenProperties
          <5>2. \A k \in 1 .. (m + 1) : f[k] = IF k = m + 1 THEN x ELSE c[k]
            BY <4>1, <4>3, <4>4, SMT
          <5> HIDE DEF f
          <5>3. f = [k \in 1 .. (m + 1) |-> IF k = m + 1 THEN x ELSE c[k]]
            BY <5>1, <5>2, SMT
          <5> QED
            BY <5>3 DEF f
        <4>9. \A k \in 1 .. (m + 1) : (IF k = m + 1 THEN x ELSE c[k]) = Poked(Append(s, d)[k], v)
          BY <4>1, <4>3, <4>4, <4>7, SMT
        <4>10. [k \in 1 .. (m + 1) |-> IF k = m + 1 THEN x ELSE c[k]]
                 = [k \in DOMAIN Append(s, d) |-> Poked(Append(s, d)[k], v)]
          BY <4>7, <4>9, Zenon
        <4> QED
          BY <4>5, <4>6, <4>8, <4>10, Zenon
      <3> QED
        BY <3>1, <3>2
    <2>7. E[i + 1] = Change(D[i + 1])
      <3> HIDE DEF Change
      <3> QED
        BY <2>2, <2>3, <2>6
    <2> QED
      BY <2>1, <2>7
  <1> HIDE DEF S
  <1>6. 0 .. n \subseteq S
    BY <1>0, <1>4, <1>5, UpToInduction
  <1>7. n \in 0 .. n
    BY <1>0
  <1> QED
    BY <1>6, <1>7 DEF S, n

-----------------------------------------------------------------------------
(* The abstract memory is the controller's own.                            *)

LEMMA SameAccess ==
    ASSUME NEW cmd, NEW c, NEW a, NEW v
    PROVE  /\ Ordered!NeedsResponse(cmd) = NeedsResponse(cmd)
           /\ Ordered!AccessData(cmd, c, a) = AccessData(cmd, c, a)
           /\ Ordered!Access(cmd, c, a, v) <=> Access(cmd, c, a, v)
  <1>1. Ordered!NeedsResponse(cmd) = NeedsResponse(cmd)
    BY DEF Ordered!NeedsResponse, NeedsResponse
  <1>2. Ordered!AccessData(cmd, c, a) = AccessData(cmd, c, a)
    BY DEF Ordered!AccessData, AccessData, Ordered!ResponseHasData, ResponseHasData,
           Ordered!WriteOK, WriteOK, Ordered!LockMask, LockMask
  <1>3. Ordered!AccessLoad(cmd, c, a) <=> AccessLoad(cmd, c, a)
    BY DEF Ordered!AccessLoad, AccessLoad, Ordered!TrackLoadLocked, TrackLoadLocked,
           Ordered!LockMask, LockMask
  <1>4. Ordered!AccessStore(cmd, c, a, v) <=> AccessStore(cmd, c, a, v)
    BY DEF Ordered!AccessStore, AccessStore, Ordered!WriteOK, WriteOK, Ordered!EraseLocks,
           EraseLocks, Ordered!Holders, Holders, Ordered!LockMask, LockMask,
           Ordered!memVars, memVars
  <1>5. Ordered!AccessSwap(cmd, c, a, v) <=> AccessSwap(cmd, c, a, v)
    BY DEF Ordered!AccessSwap, AccessSwap, Ordered!Holders, Holders, Ordered!LockMask, LockMask
  <1> QED
    BY <1>1, <1>2, <1>3, <1>4, <1>5 DEF Ordered!Access, Access

LEMMA SameInvmod == Ordered!InvmodWhile = InvmodWhile
  BY DEF Ordered!InvmodWhile, InvmodWhile, Ordered!InvmodState, InvmodState, Ordered!InvmodGoes,
         InvmodGoes, Ordered!InvmodStep, InvmodStep, Ordered!InvmodTrapped, InvmodTrapped,
         Ordered!InvmodRunning, InvmodRunning, Ordered!ToInt, ToInt, Ordered!ToWord, ToWord,
         Ordered!ToSigned, ToSigned, Ordered!Word, Word

LEMMA SameArithmetic ==
    ASSUME NEW op, NEW x, NEW y, NEW z
    PROVE  /\ Ordered!Traps(op, x, y, z) = Traps(op, x, y, z)
           /\ Ordered!Result(op, x, y, z) = Result(op, x, y, z)
  <1> USE DEF Ordered!ToInt, ToInt, Ordered!ToInt64, ToInt64, Ordered!ToWord, ToWord,
              Ordered!ToSigned, ToSigned, Ordered!CRem, CRem, Ordered!SubmodDiff, SubmodDiff
  <1>1. Ordered!InvmodEnd(x, y) = InvmodEnd(x, y)
    BY SameInvmod DEF Ordered!InvmodEnd, InvmodEnd, Ordered!InvmodStart, InvmodStart
  <1>2. Ordered!Invmod(x, y) = Invmod(x, y)
    BY <1>1 DEF Ordered!Invmod, Invmod, Ordered!InvmodResult, InvmodResult
  <1>3. /\ Ordered!Addmod(x, y, z) = Addmod(x, y, z)
        /\ Ordered!Submod(x, y, z) = Submod(x, y, z)
        /\ Ordered!Mulmod(x, y, z) = Mulmod(x, y, z)
        /\ Ordered!Mulimc(x, y) = Mulimc(x, y)
        /\ Ordered!Cmpimc(x, y) = Cmpimc(x, y)
    BY DEF Ordered!Addmod, Addmod, Ordered!Submod, Submod, Ordered!Mulmod, Mulmod,
           Ordered!Mulimc, Mulimc, Ordered!Cmpimc, Cmpimc
  <1>4. Ordered!InvmodTrapped(InvmodEnd(x, y)) = InvmodTrapped(InvmodEnd(x, y))
    BY DEF Ordered!InvmodTrapped, InvmodTrapped, Ordered!InvmodRunning, InvmodRunning
  <1> QED
    BY <1>1, <1>2, <1>3, <1>4 DEF Ordered!Traps, Traps, Ordered!Result, Result, Ordered!MinInt64,
                                  MinInt64

-----------------------------------------------------------------------------
(* The steps.  P is the abstract queue, before and after a step.           *)

P == [a \in Addr |-> PendingAt(a)]

LEMMA PendingFacts ==
    ASSUME TypeOK, TypeOK'
    PROVE  /\ \A a : IsDueAmong(DueAmong(packetQueue, a), packetQueue, a)
           /\ \A a : IsDueAmong(DueAmong(packetQueue', a), packetQueue', a)
           /\ \A a \in Addr : P[a] = DueAmong(packetQueue, a)[Len(packetQueue)]
           /\ \A a \in Addr : P'[a] = DueAmong(packetQueue', a)[Len(packetQueue')]
           /\ \A a \in Addr : P[a] \in Seq(DueResponse)
  <1>1. packetQueue \in Seq(DeferredPacket) /\ packetQueue' \in Seq(DeferredPacket)
    BY DEF TypeOK
  <1>2. /\ \A a : IsDueAmong(DueAmong(packetQueue, a), packetQueue, a)
        /\ \A a : IsDueAmong(DueAmong(packetQueue', a), packetQueue', a)
    BY <1>1, DueAmongDefined
  <1>3. Len(packetQueue) \in 0 .. Len(packetQueue)
    BY <1>1
  <1>4. \A a : DueAmong(packetQueue, a)[Len(packetQueue)] \in Seq(DueResponse)
    BY <1>2, <1>3, Zenon DEF IsDueAmong
  <1> QED
    BY <1>2, <1>4, Zenon DEF P, PendingAt

\* A step that changes neither the memory nor the queue is a stutter.
LEMMA QueueKept ==
    ASSUME UNCHANGED packetQueue
    PROVE  P' = P
  BY DEF P, PendingAt

LEMMA TickIsStutter ==
    ASSUME TypeOK, TypeOK', Tick
    PROVE  P' = P
  <1>1. packetQueue \in Seq(DeferredPacket) /\ DOMAIN packetQueue = 1 .. Len(packetQueue)
        /\ Len(packetQueue) \in Nat
    BY DEF TypeOK
  <1>2. packetQueue' = [k \in DOMAIN packetQueue |->
                           [packetQueue[k] EXCEPT !.tick = Age(@)]]
    BY DEF Tick
  <1>3. packetQueue' \in Seq(DeferredPacket)
    BY DEF TypeOK
  <1>4. Len(packetQueue') = Len(packetQueue)
    BY <1>1, <1>2, <1>3
  <1>5. \A i \in 1 .. Len(packetQueue) :
           /\ packetQueue'[i].addr = packetQueue[i].addr
           /\ Due(packetQueue'[i]) = Due(packetQueue[i])
    <2> SUFFICES ASSUME NEW i \in 1 .. Len(packetQueue)
                 PROVE  /\ packetQueue'[i].addr = packetQueue[i].addr
                        /\ Due(packetQueue'[i]) = Due(packetQueue[i])
      OBVIOUS
    <2>1. packetQueue[i] \in DeferredPacket
      BY <1>1
    <2>2. packetQueue'[i] = [packetQueue[i] EXCEPT !.tick = Age(@)]
      BY <1>1, <1>2
    <2> QED
      BY <2>1, <2>2 DEF Due, DeferredPacket
  <1>6. \A a \in Addr : P'[a] = P[a]
    <2> SUFFICES ASSUME NEW a \in Addr PROVE P'[a] = P[a]
      OBVIOUS
    <2> DEFINE D == DueAmong(packetQueue, a)
               E == DueAmong(packetQueue', a)
    <2>1. IsDueAmong(D, packetQueue, a) /\ IsDueAmong(E, packetQueue', a)
      BY PendingFacts
    <2>2. P[a] = D[Len(packetQueue)] /\ P'[a] = E[Len(packetQueue')]
      BY PendingFacts
    <2> HIDE DEF D, E
    <2>3. E[Len(packetQueue')] = D[Len(packetQueue)]
      BY <1>1, <1>4, <1>5, <2>1, DueOfTicks
    <2> QED
      BY <2>2, <2>3, Zenon
  <1> QED
    BY <1>6 DEF P

LEMMA DequeueIsAnswer ==
    ASSUME IInv, TypeOK', DequeueAccepted
    PROVE  Ordered!Answer(packetQueue[1].addr) /\ packetQueue[1].addr \in Addr
  <1> DEFINE b == packetQueue[1].addr
  <1>1. /\ packetQueue \in Seq(DeferredPacket) /\ packetQueue # <<>>
        /\ packetQueue' = Tail(packetQueue) /\ TypeOK
    BY DEF IInv, TypeOK, NeverEarly, DequeueAccepted
  <1>2. packetQueue[1] \in DeferredPacket
    BY <1>1
  <1>3. b \in Addr
    BY <1>2 DEF DeferredPacket
  <1>4. \A a \in Addr : IF b = a THEN P[a] # <<>> /\ P'[a] = Tail(P[a]) ELSE P'[a] = P[a]
    <2> SUFFICES ASSUME NEW a \in Addr
                 PROVE  IF b = a THEN P[a] # <<>> /\ P'[a] = Tail(P[a]) ELSE P'[a] = P[a]
      OBVIOUS
    <2> DEFINE D == DueAmong(packetQueue, a)
               E == DueAmong(packetQueue', a)
    <2>1. IsDueAmong(D, packetQueue, a) /\ IsDueAmong(E, Tail(packetQueue), a)
      BY <1>1, PendingFacts
    <2>2. P[a] = D[Len(packetQueue)] /\ P'[a] = E[Len(Tail(packetQueue))]
      BY <1>1, PendingFacts
    <2> HIDE DEF D, E
    <2>3. IF b = a
          THEN D[Len(packetQueue)] # <<>> /\ E[Len(Tail(packetQueue))] = Tail(D[Len(packetQueue)])
          ELSE E[Len(Tail(packetQueue))] = D[Len(packetQueue)]
      BY <1>1, <2>1, DueOfTail
    <2> QED
      BY <2>2, <2>3, Zenon
  <1>5. P' = [P EXCEPT ![b] = Tail(@)]
    <2>1. /\ DOMAIN P = Addr /\ P = [a \in Addr |-> P[a]]
          /\ DOMAIN P' = Addr /\ P' = [a \in Addr |-> P'[a]]
      BY DEF P
    <2> QED
      BY <1>3, <1>4, <2>1, Zenon
  <1>6. UNCHANGED memVars
    BY DEF DequeueAccepted
  <1> QED
    BY <1>3, <1>4, <1>5, <1>6 DEF P, Ordered!Answer, Ordered!memVars, memVars, Ordered!Addr, Addr

LEMMA FunctionalIsPoke ==
    ASSUME TypeOK, TypeOK', NEW w \in Addr, NEW v \in Word, RecvFunctionalWrite(w, v)
    PROVE  Ordered!Poke(w, v)
  <1>1. packetQueue \in Seq(DeferredPacket) /\ DOMAIN packetQueue = 1 .. Len(packetQueue)
        /\ Len(packetQueue) \in Nat
    BY DEF TypeOK
  <1>2. packetQueue' = [k \in DOMAIN packetQueue |-> SatisfyFunctional(packetQueue[k], w, v)]
    BY DEF RecvFunctionalWrite
  <1>3. packetQueue' \in Seq(DeferredPacket)
    BY DEF TypeOK
  <1>4. Len(packetQueue') = Len(packetQueue)
    BY <1>1, <1>2, <1>3
  <1>5. \A i \in 1 .. Len(packetQueue) :
           packetQueue'[i] = SatisfyFunctional(packetQueue[i], w, v)
    BY <1>1, <1>2
  <1>6. \A a \in Addr : P'[a] = IF a = w THEN [k \in DOMAIN P[a] |-> Poked(P[a][k], v)] ELSE P[a]
    <2> SUFFICES ASSUME NEW a \in Addr
                 PROVE  P'[a] = IF a = w THEN [k \in DOMAIN P[a] |-> Poked(P[a][k], v)] ELSE P[a]
      OBVIOUS
    <2> DEFINE D == DueAmong(packetQueue, a)
               E == DueAmong(packetQueue', a)
    <2>1. IsDueAmong(D, packetQueue, a) /\ IsDueAmong(E, packetQueue', a)
      BY PendingFacts
    <2>2. P[a] = D[Len(packetQueue)] /\ P'[a] = E[Len(packetQueue')]
      BY PendingFacts
    <2> HIDE DEF D, E
    <2>3. E[Len(packetQueue')] =
             IF a = w THEN [k \in DOMAIN D[Len(packetQueue)] |-> Poked(D[Len(packetQueue)][k], v)]
                      ELSE D[Len(packetQueue)]
      BY <1>1, <1>4, <1>5, <2>1, DueOfFunctional
    <2> QED
      BY <2>2, <2>3, Zenon
  <1>7. P' = [P EXCEPT ![w] = [k \in DOMAIN @ |-> Poked(@[k], v)]]
    <2>1. /\ DOMAIN P = Addr /\ P = [a \in Addr |-> P[a]]
          /\ DOMAIN P' = Addr /\ P' = [a \in Addr |-> P'[a]]
      BY DEF P
    <2> QED
      BY <1>6, <2>1, Zenon
  <1>8. FunctionalStore(w, v)
    BY DEF RecvFunctionalWrite
  <1> QED
    BY <1>7, <1>8 DEF P, Poked, Ordered!Poke, Ordered!FunctionalStore, FunctionalStore,
                      Ordered!ResponseHasData, ResponseHasData

LEMMA RequestIsRequest ==
    ASSUME IInv, TypeOK', NEW p \in Pkt, NEW cmd \in Cmds, NEW c \in Ctx, NEW b \in Addr,
           NEW v \in Word, NEW when \in Delays, NEW dur \in Durations,
           RecvRequest(p, cmd, c, b, v, when, dur)
    PROVE  Ordered!Request(p, cmd, c, b, v)
  <1> DEFINE data == AccessData(cmd, c, b)
             e == Deferred(p, cmd, b, data, when)
  <1>1. packetQueue \in Seq(DeferredPacket) /\ TypeOK /\ Len(packetQueue) \in Nat
    BY DEF IInv, TypeOK
  <1>2. cmd \in AllCmds /\ data \in Word /\ when \in Nat
    BY <1>1, CmdsAssumption, DelaysAssumption, AccessDataType DEF TypeOK
  <1>3. Enqueue(p, cmd, b, data, when) /\ p \notin Queued
    BY DEF RecvRequest, Enqueue
  <1> HIDE DEF data
  <1>4. PICK k \in 0 .. Len(packetQueue) :
           /\ InsertsBehind(k, b, when)
           /\ IsInsertion(packetQueue', packetQueue, k, e, DeferredPacket)
    BY <1>1, <1>2, <1>3, EnqueueInserts
  <1>5. e \in DeferredPacket /\ e.addr = b /\ Due(e) = Ordered!Response(p, cmd, data)
    BY <1>2 DEF Deferred, DeferredPacket, Due, Ordered!Response
  <1>6. \A j \in (k + 1) .. Len(packetQueue) : packetQueue[j].addr # e.addr
    <2> SUFFICES ASSUME NEW j \in (k + 1) .. Len(packetQueue) PROVE packetQueue[j].addr # b
      BY <1>5
    <2>1. j \in DOMAIN packetQueue /\ j > k /\ packetQueue # <<>>
      BY <1>1, SMT
    <2> QED
      BY <1>4, <2>1 DEF InsertsBehind, StopsAt
  <1> HIDE DEF e
  <1>7. \A a \in Addr : P'[a] = IF a = b THEN Append(P[a], Due(e)) ELSE P[a]
    <2> SUFFICES ASSUME NEW a \in Addr
                 PROVE  P'[a] = IF a = b THEN Append(P[a], Due(e)) ELSE P[a]
      OBVIOUS
    <2> DEFINE D == DueAmong(packetQueue, a)
               E == DueAmong(packetQueue', a)
    <2>1. IsDueAmong(D, packetQueue, a) /\ IsDueAmong(E, packetQueue', a)
      BY <1>1, PendingFacts
    <2>2. P[a] = D[Len(packetQueue)] /\ P'[a] = E[Len(packetQueue')]
      BY <1>1, PendingFacts
    <2> HIDE DEF D, E
    <2>3. E[Len(packetQueue')] = IF e.addr = a THEN Append(D[Len(packetQueue)], Due(e))
                                               ELSE D[Len(packetQueue)]
      BY <1>1, <1>4, <1>5, <1>6, <2>1, DueOfInsertion
    <2> QED
      BY <1>5, <2>2, <2>3
  <1>8. P' = [P EXCEPT ![b] = Append(@, Due(e))]
    <2>1. /\ DOMAIN P = Addr /\ P = [a \in Addr |-> P[a]]
          /\ DOMAIN P' = Addr /\ P' = [a \in Addr |-> P'[a]]
      BY DEF P
    <2> QED
      BY <1>7, <2>1, Zenon
  <1>9. ASSUME NEW a \in Addr, NEW i \in DOMAIN P[a] PROVE P[a][i].pkt # p
    <2> DEFINE D == DueAmong(packetQueue, a)
    <2>1. IsDueAmong(D, packetQueue, a) /\ P[a] = D[Len(packetQueue)]
      BY <1>1, PendingFacts
    <2> HIDE DEF D
    <2>2. Len(packetQueue) \in 0 .. Len(packetQueue)
      BY <1>1
    <2>3. PICK j \in 1 .. Len(packetQueue) : P[a][i].pkt = packetQueue[j].pkt
      BY <1>1, <1>9, <2>1, <2>2, DueIsQueued
    <2>4. j \in DOMAIN packetQueue
      BY <1>1
    <2> QED
      BY <1>3, <2>3, <2>4, Zenon DEF Queued
  <1>10. p \notin Ordered!Outstanding
    BY <1>9, Zenon DEF P, Ordered!Outstanding, Ordered!Addr, Addr
  <1>11. NeedsResponse(cmd) /\ Access(cmd, c, b, v)
    BY DEF RecvRequest
  <1>12. Ordered!NeedsResponse(cmd) /\ Ordered!Access(cmd, c, b, v)
    BY <1>11, SameAccess
  <1>13. Ordered!AccessData(cmd, c, b) = data
    BY SameAccess DEF data
  <1>14. P' = [P EXCEPT ![b] = Append(@, Ordered!Response(p, cmd, Ordered!AccessData(cmd, c, b)))]
    BY <1>5, <1>8, <1>13
  <1> QED
    BY <1>10, <1>12, <1>14 DEF P, Ordered!Request

\* Every step of the controller is a step of OrderedMemory, or changes nothing
\* that OrderedMemory sees.
LEMMA StepRefines ==
    ASSUME IInv, TypeOK', [Next]_vars
    PROVE  [Ordered!OmNext]_(Ordered!omVars)
  <1>0. TypeOK
    BY DEF IInv
  <1>1. ASSUME UNCHANGED memVars, P' = P PROVE UNCHANGED Ordered!omVars
    BY <1>1 DEF P, Ordered!omVars, Ordered!memVars, memVars
  <1>2. ASSUME UNCHANGED <<memVars, packetQueue>> PROVE UNCHANGED Ordered!omVars
    BY <1>1, <1>2, QueueKept
  <1>3. CASE UNCHANGED vars
    BY <1>2, <1>3 DEF vars, ctrlVars
  <1>4. CASE RecvRefuse \/ Release \/ DequeueOnEvent \/ RecvRespRetry \/ DequeueRefused
             \/ Drain \/ DrainResume
    BY <1>2, <1>4 DEF RecvRefuse, Release, DequeueOnEvent, RecvRespRetry, DequeueRefused,
                      Drain, DrainResume
  <1>5. CASE Tick
    BY <1>0, <1>1, <1>5, TickIsStutter DEF Tick
  <1>6. CASE DequeueAccepted
    BY <1>6, DequeueIsAnswer DEF Ordered!OmNext, Ordered!Addr, Addr
  <1>7. ASSUME NEW a \in Addr, NEW v \in Word, RecvFunctionalWrite(a, v)
        PROVE  Ordered!OmNext
    BY <1>0, <1>7, FunctionalIsPoke DEF Ordered!OmNext, Ordered!Addr, Addr, Ordered!Word, Word
  <1>8. ASSUME NEW p \in Pkt, NEW cmd \in Cmds, NEW c \in Ctx, NEW a \in Addr,
               NEW v \in Word, NEW when \in Delays, NEW dur \in Durations,
               RecvRequest(p, cmd, c, a, v, when, dur)
        PROVE  Ordered!OmNext
    <2>1. Ordered!Request(p, cmd, c, a, v)
      BY <1>8, RequestIsRequest
    <2> QED
      BY <2>1 DEF Ordered!OmNext, Ordered!Addr, Addr, Ordered!Word, Word
  <1>9. ASSUME NEW cmd \in Cmds, NEW c \in Ctx, NEW a \in Addr, NEW v \in Word,
               NEW dur \in Durations, RecvWriteback(cmd, c, a, v, dur)
        PROVE  Ordered!OmNext
    <2>1. ~NeedsResponse(cmd) /\ Access(cmd, c, a, v) /\ P' = P
      BY <1>9, QueueKept DEF RecvWriteback
    <2>2. Ordered!Post(cmd, c, a, v)
      BY <2>1, SameAccess DEF Ordered!Post, P
    <2> QED
      BY <2>2 DEF Ordered!OmNext, Ordered!Addr, Addr, Ordered!Word, Word
  <1>10. ASSUME NEW op \in ImcOps, NEW a \in Addr, NEW b \in Addr, NEW c \in Addr, NEW d \in Addr,
                NEW dur \in Durations, RecvIMC(op, a, b, c, d, dur)
         PROVE  Ordered!OmNext \/ UNCHANGED Ordered!omVars
    <2>1. UNCHANGED packetQueue /\ P' = P
      BY <1>10, QueueKept DEF RecvIMC
    <2>2. CASE Traps(op, mem[a], mem[b], mem[c])
      BY <1>2, <1>10, <2>1, <2>2 DEF RecvIMC
    <2>3. CASE ~Traps(op, mem[a], mem[b], mem[c])
      <3>1. /\ mem' = [mem EXCEPT ![d] = Result(op, mem[a], mem[b], mem[c])]
            /\ dirtied' = dirtied \cup Holders(d)
            /\ UNCHANGED lockedAddrList
        BY <1>10, <2>3 DEF RecvIMC
      <3>2. Ordered!Holders(d) = Holders(d)
        BY DEF Ordered!Holders, Holders, Ordered!LockMask, LockMask
      <3>3. /\ ~Ordered!Traps(op, mem[a], mem[b], mem[c])
            /\ Ordered!Result(op, mem[a], mem[b], mem[c]) = Result(op, mem[a], mem[b], mem[c])
        BY <2>3, SameArithmetic
      <3>4. Ordered!Compute(op, a, b, c, d)
        BY <2>1, <3>1, <3>2, <3>3 DEF Ordered!Compute, P
      <3> QED
        BY <3>4 DEF Ordered!OmNext, Ordered!Addr, Addr
    <2> QED
      BY <2>2, <2>3
  <1> QED
    BY <1>3, <1>4, <1>5, <1>6, <1>7, <1>8, <1>9, <1>10 DEF Next

(***************************************************************************)
(* PIMCtrl::recvTimingReq, dequeue() and recvFunctional() keep the promise *)
(* of OrderedMemory: requests and IMC operations take effect in the order  *)
(* of acceptance, and the responses of one address are answered exactly    *)
(* once, in order, with what the access returned.                          *)
(***************************************************************************)
THEOREM RefinesOrderedMemory == Spec => ImplementsOrderedMemory
  <1>1. Init => Ordered!OmInit
    <2> SUFFICES ASSUME Init PROVE Ordered!OmInit
      OBVIOUS
    <2>1. packetQueue = <<>> /\ MemInit
      BY DEF Init
    <2>2. \A a : PendingAt(a) = <<>>
      <3>1. <<>> \in Seq(DeferredPacket) /\ Len(<<>>) = 0
        OBVIOUS
      <3>2. \A a : DueAmong(<<>>, a)[0] = <<>>
        BY <3>1, DueAmongDefined DEF IsDueAmong
      <3> QED
        BY <2>1, <3>1, <3>2, Zenon DEF PendingAt
    <2> QED
      BY <2>1, <2>2 DEF Ordered!OmInit, Ordered!MemInit, MemInit, Ordered!Addr, Addr
  <1>2. ASSUME IInv, IInv', [Next]_vars PROVE [Ordered!OmNext]_(Ordered!omVars)
    <2>1. TypeOK'
      BY <1>2 DEF IInv
    <2> QED
      BY <1>2, <2>1, StepRefines
  <1> QED
    BY <1>1, <1>2, Invariance, PTL DEF Spec, ImplementsOrderedMemory, Ordered!OmSpec
=============================================================================
