--------------------------- MODULE SequenceLemmas ---------------------------
(***************************************************************************)
(* Facts about the sequences the models keep their queues in: what an      *)
(* insertion, a map over the elements, an arrival at the end and a         *)
(* departure from the front leave behind.  Before them, induction on the   *)
(* natural numbers in a form the provers can use: about a set of numbers,  *)
(* where the library's theorems are about a predicate.                     *)
(***************************************************************************)
EXTENDS Integers, Sequences, SequencesExt, SequenceTheorems, WellFoundedInduction, TLAPS

\* A set of natural numbers that is not empty has a least element.
LEMMA NatMinimum ==
    ASSUME NEW T \in SUBSET Nat, T # {}
    PROVE  \E x \in T : \A y \in T : x <= y
<1>1. IsWellFoundedOn(OpToRel(<, Nat), Nat)
  BY NatLessThanWellFounded, Zenon
<1>2. PICK x \in T : \A y \in T : ~(<<y, x>> \in OpToRel(<, Nat))
  BY <1>1, WFMin, Zenon
<1>3. \A u, v \in Nat : <<v, u>> \in OpToRel(<, Nat) <=> v < u
  BY Zenon DEF OpToRel
<1>4. \A y \in T : ~(y < x)
  BY <1>2, <1>3, Zenon
<1>5. \A y \in T : x <= y
  BY <1>4, SMT
<1> QED
  BY <1>5

\* A set that holds 0 and the successors of its elements, up to n, holds
\* every number up to n.
LEMMA UpToInduction ==
    ASSUME NEW n \in Nat, NEW S, 0 \in S, \A i \in 0 .. (n - 1) : i \in S => i + 1 \in S
    PROVE  0 .. n \subseteq S
<1> SUFFICES ASSUME ~(0 .. n \subseteq S) PROVE FALSE
  OBVIOUS
<1> DEFINE T == (0 .. n) \ S
<1>1. T \in SUBSET Nat /\ T # {}
  BY SMT
<1> HIDE DEF T
<1>2. PICK x \in T : \A y \in T : x <= y
  BY <1>1, NatMinimum
<1>3. x \in 0 .. n /\ x \notin S /\ x # 0
  BY <1>2 DEF T
<1>4. x - 1 \in 0 .. (n - 1) /\ x - 1 \in 0 .. n /\ (x - 1) + 1 = x /\ ~(x <= x - 1)
  BY <1>3, SMT
<1>5. x - 1 \in S
  BY <1>2, <1>4 DEF T
<1> QED
  BY <1>3, <1>4, <1>5, Zenon

\* r is q with e inserted behind position k.
IsInsertion(r, q, k, e, S) ==
    /\ r \in Seq(S)
    /\ Len(r) = Len(q) + 1
    /\ \A i \in 1 .. (Len(q) + 1) :
          r[i] = IF i <= k THEN q[i] ELSE IF i = k + 1 THEN e ELSE q[i - 1]

\* InsertAt(q, k+1, e), the insertion the loop of a deferred packet's queue ends with,
\* keeps the first k elements, then e, then the rest one place further.
LEMMA InsertAtLemma ==
    ASSUME NEW S, NEW q \in Seq(S), NEW e \in S, NEW k \in 0 .. Len(q)
    PROVE  IsInsertion(InsertAt(q, k + 1, e), q, k, e, S)
<1> DEFINE l == SubSeq(q, 1, k)
           r == SubSeq(q, k + 1, Len(q))
           m == l \o <<e>>
<1>1. InsertAt(q, k + 1, e) = m \o r
  <2>1. (k + 1) - 1 = k
    OBVIOUS
  <2> QED
    BY <2>1 DEF InsertAt
<1>2. /\ l \in Seq(S) /\ Len(l) = k
      /\ \A i \in 1 .. k : l[i] = q[i]
  BY SubSeqProperties, SMT
<1>3. /\ r \in Seq(S) /\ Len(r) = Len(q) - k
      /\ \A i \in 1 .. (Len(q) - k) : r[i] = q[k + i]
  BY SubSeqProperties, SMT
<1>4. /\ m \in Seq(S) /\ Len(m) = k + 1
      /\ \A i \in 1 .. k : m[i] = q[i]
      /\ m[k + 1] = e
  <2> HIDE DEF l
  <2> QED BY <1>2
<1> HIDE DEF m, r
<1>5. /\ m \o r \in Seq(S)
      /\ Len(m \o r) = Len(m) + Len(r)
      /\ \A i \in 1 .. Len(m) + Len(r) :
            (m \o r)[i] = IF i <= Len(m) THEN m[i] ELSE r[i - Len(m)]
  BY <1>3, <1>4, ConcatProperties
<1>6. Len(q) \in Nat /\ k \in Nat
  OBVIOUS
<1>7. ASSUME NEW i \in 1 .. (Len(q) + 1)
      PROVE  (m \o r)[i] = IF i <= k THEN q[i]
                           ELSE IF i = k + 1 THEN e
                           ELSE q[i - 1]
  <2>0. i \in Nat
    BY <1>6
  <2>1. CASE i <= k + 1
    BY <2>0, <2>1, <1>3, <1>4, <1>5, <1>6
  <2>2. CASE i > k + 1
    <3>1. i - (k + 1) \in 1 .. (Len(q) - k) /\ k + (i - (k + 1)) = i - 1
      BY <2>2, <1>6
    <3> QED
      <4>1. ~(i <= k + 1) /\ i \in 1 .. (Len(m) + Len(r))
        BY <2>2, <1>3, <1>4, <1>6
      <4>2. (m \o r)[i] = r[i - (k + 1)]
        BY <4>1, <1>4, <1>5
      <4>3. r[i - (k + 1)] = q[i - 1]
        BY <3>1, <1>3
      <4> QED
        BY <2>2, <4>1, <4>2, <4>3, <1>6, <2>0
  <2>3. i <= k + 1 \/ i > k + 1
    BY <2>0, <1>6
  <2> QED
    BY <2>1, <2>2, <2>3
<1>8. Len(m \o r) = Len(q) + 1
  BY <1>3, <1>4, <1>5, <1>6
<1> QED
  BY <1>1, <1>5, <1>7, <1>8 DEF IsInsertion

\* A function on the domain of a sequence is a sequence of the same length
\* (the form of Tick and of a functional write).
LEMMA MapLemma ==
    ASSUME NEW S, NEW T, NEW q \in Seq(S), NEW f \in [DOMAIN q -> T]
    PROVE  f \in Seq(T) /\ Len(f) = Len(q) /\ DOMAIN f = DOMAIN q
<1>1. Len(q) \in Nat /\ DOMAIN q = 1 .. Len(q)
  OBVIOUS
<1>2. f \in [1 .. Len(q) -> T]
  BY <1>1
<1>3. f \in Seq(T)
  BY <1>1, <1>2, SeqDef
<1> QED
  BY <1>1, <1>2, <1>3

-----------------------------------------------------------------------------
\* Whoever joins a line without duplicates stands behind it, once.
LEMMA AppendLemma ==
    ASSUME NEW S, NEW s \in Seq(S), NEW p \in S, p \notin ToSet(s), IsInjective(s)
    PROVE  /\ Append(s, p) \in Seq(S)
           /\ Append(s, p) # <<>>
           /\ IsInjective(Append(s, p))
           /\ ToSet(Append(s, p)) = ToSet(s) \cup {p}
           /\ s # <<>> => /\ Head(Append(s, p)) = Head(s)
                          /\ Tail(Append(s, p)) = Append(Tail(s), p)
           /\ s = <<>> => /\ Head(Append(s, p)) = p
                          /\ Tail(Append(s, p)) = <<>>
<1> DEFINE t == Append(s, p)
<1>1. /\ t \in Seq(S) /\ Len(t) = Len(s) + 1 /\ t # <<>>
      /\ \A k \in 1 .. Len(s) : t[k] = s[k]
      /\ t[Len(s) + 1] = p
  OBVIOUS
<1>2. Len(s) \in Nat
  OBVIOUS
<1>3. \A k \in 1 .. Len(s) : s[k] # p
  BY DEF ToSet
<1> HIDE DEF t
<1>4. IsInjective(t)
  BY <1>1, <1>2, <1>3 DEF IsInjective
<1>5. ToSet(t) = ToSet(s) \cup {p}
  BY <1>1, <1>2 DEF ToSet
<1>6. ASSUME s # <<>>
      PROVE  Head(t) = Head(s) /\ Tail(t) = Append(Tail(s), p)
  BY <1>6 DEF t
<1>7. ASSUME s = <<>>
      PROVE  Head(t) = p /\ Tail(t) = <<>>
  BY <1>7 DEF t
<1> QED
  BY <1>1, <1>4, <1>5, <1>6, <1>7 DEF t

\* The first one of a line without duplicates is not among the others.
LEMMA TailLemma ==
    ASSUME NEW S, NEW s \in Seq(S), s # <<>>, IsInjective(s)
    PROVE  /\ Head(s) \in S /\ Tail(s) \in Seq(S)
           /\ IsInjective(Tail(s))
           /\ Head(s) \notin ToSet(Tail(s))
           /\ ToSet(s) = ToSet(Tail(s)) \cup {Head(s)}
           /\ <<Head(s)>> \o Tail(s) = s
           /\ \A k \in DOMAIN s : s[k] = Head(s) => k = 1
<1>1. /\ Tail(s) \in Seq(S) /\ Len(Tail(s)) = Len(s) - 1
      /\ \A k \in 1 .. Len(s) - 1 : Tail(s)[k] = s[k + 1]
      /\ Head(s) = s[1] /\ Head(s) \in S
      /\ Len(s) \in Nat /\ Len(s) >= 1
  OBVIOUS
<1>2. IsInjective(Tail(s))
  BY <1>1 DEF IsInjective
<1>3. Head(s) \notin ToSet(Tail(s))
  BY <1>1 DEF IsInjective, ToSet
<1>4. ToSet(s) = ToSet(Tail(s)) \cup {Head(s)}
  <2>1. \A x \in ToSet(s) : x \in ToSet(Tail(s)) \cup {Head(s)}
    <3>1. SUFFICES ASSUME NEW k \in 1 .. Len(s)
                   PROVE  s[k] \in ToSet(Tail(s)) \cup {Head(s)}
      BY DEF ToSet
    <3>2. CASE k = 1
      BY <3>2, <1>1
    <3>3. CASE k # 1
      <4>1. k - 1 \in 1 .. Len(s) - 1 /\ Tail(s)[k - 1] = s[k]
        BY <3>3, <1>1
      <4>2. DOMAIN Tail(s) = 1 .. Len(s) - 1
        BY <1>1
      <4>3. Tail(s)[k - 1] \in ToSet(Tail(s))
        BY <4>1, <4>2 DEF ToSet
      <4> QED
        BY <4>1, <4>3
    <3> QED
      BY <3>2, <3>3
  <2>2. \A x \in ToSet(Tail(s)) \cup {Head(s)} : x \in ToSet(s)
    BY <1>1 DEF ToSet
  <2> QED
    BY <2>1, <2>2
<1>5. <<Head(s)>> \o Tail(s) = s
  OBVIOUS
<1>6. \A k \in DOMAIN s : s[k] = Head(s) => k = 1
  BY <1>1 DEF IsInjective
<1> QED
  BY <1>1, <1>2, <1>3, <1>4, <1>5, <1>6

\* A line in which nobody stands is empty.
LEMMA EmptyLemma ==
    ASSUME NEW S, NEW s \in Seq(S), ToSet(s) = {}
    PROVE  s = <<>>
<1>1. \A k \in 1 .. Len(s) : s[k] \in ToSet(s)
  BY DEF ToSet
<1> QED
  BY <1>1

\* An arrival at the front of an injective sequence of others.
LEMMA PushLemma ==
    ASSUME NEW S, NEW s \in Seq(S), NEW p \in S, p \notin ToSet(s), IsInjective(s)
    PROVE  /\ IsInjective(<<p>> \o s)
           /\ ToSet(<<p>> \o s) = ToSet(s) \cup {p}
<1> DEFINE t == <<p>> \o s
<1>1. /\ t \in Seq(S) /\ Len(t) = Len(s) + 1 /\ Len(s) \in Nat
      /\ t[1] = p /\ \A k \in 2 .. (Len(s) + 1) : t[k] = s[k - 1]
  OBVIOUS
<1>2. DOMAIN t = 1 .. (Len(s) + 1) /\ DOMAIN s = 1 .. Len(s)
  BY <1>1
<1>3. \A k \in 1 .. Len(s) : t[k + 1] = s[k] /\ s[k] # p
  BY <1>1, <1>2 DEF ToSet
<1> HIDE DEF t
<1>4. ToSet(t) = ToSet(s) \cup {p}
  <2>1. ASSUME NEW k \in DOMAIN t PROVE t[k] \in ToSet(s) \cup {p}
    <3>1. CASE k = 1
      BY <1>1, <3>1
    <3>2. CASE k # 1
      <4>1. k - 1 \in DOMAIN s /\ t[k] = s[k - 1]
        BY <1>1, <1>2, <3>2
      <4> QED
        BY <4>1 DEF ToSet
    <3> QED
      BY <3>1, <3>2
  <2>2. \A x \in ToSet(s) : x \in ToSet(t)
    BY <1>1, <1>2, <1>3 DEF ToSet
  <2>3. p \in ToSet(t)
    BY <1>1, <1>2 DEF ToSet
  <2> QED
    BY <2>1, <2>2, <2>3 DEF ToSet
<1>5. IsInjective(t)
  <2>1. \A i, j \in 1 .. Len(s) : s[i] = s[j] => i = j
    BY <1>2 DEF IsInjective
  <2>2. \A i \in 2 .. (Len(s) + 1) : i - 1 \in 1 .. Len(s) /\ t[i] = s[i - 1] /\ t[i] # p
    BY <1>1, <1>3
  <2>3. ASSUME NEW i \in 1 .. (Len(s) + 1), NEW j \in 1 .. (Len(s) + 1), t[i] = t[j]
        PROVE  i = j
    <3>1. CASE i = 1 \/ j = 1
      <4>1. \A k \in 1 .. (Len(s) + 1) : t[k] = p => k = 1
        BY <1>1, <2>2
      <4> QED
        BY <1>1, <2>3, <3>1, <4>1
    <3>2. CASE i # 1 /\ j # 1
      <4>1. /\ i - 1 \in 1 .. Len(s) /\ t[i] = s[i - 1]
            /\ j - 1 \in 1 .. Len(s) /\ t[j] = s[j - 1]
        BY <1>1, <2>2, <3>2
      <4>2. i - 1 = j - 1
        BY <2>1, <2>3, <4>1
      <4> QED
        BY <4>2
    <3> QED
      BY <3>1, <3>2
  <2> QED
    BY <1>2, <2>3 DEF IsInjective
<1> QED
  BY <1>4, <1>5 DEF t

\* Removing the first one leaves the others.
LEMMA RemoveFirstLemma ==
    ASSUME NEW S, NEW s \in Seq(S), s # <<>>
    PROVE  RemoveAt(s, 1) = Tail(s)
BY DEF RemoveAt

=============================================================================
