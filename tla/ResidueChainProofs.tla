------------------------- MODULE ResidueChainProofs -------------------------
(***************************************************************************)
(* Proofs about the IMC arithmetic, for every even size of the word and of *)
(* the int.  The first part is integer division; the second, machine       *)
(* integers; the third, one iteration of the INVMOD loop; the last, the    *)
(* chain of operations.                                                    *)
(***************************************************************************)
EXTENDS ResidueChain, SequenceLemmas, TLAPS

-----------------------------------------------------------------------------
(* Integer division.                                                       *)

\* A product with a factor of at least 1 is no smaller than the other factor.
LEMMA ProductGrows == \A k, d \in Int : k >= 1 /\ d >= 0 => k * d >= d
  BY SMT

\* The product of two non-negative numbers is monotone in both.
LEMMA ProductMonotone ==
    \A a, b, c, d \in Int : (0 <= a /\ a <= c /\ 0 <= b /\ b <= d) => a * b <= c * d
  <1>1. \A a, b, c \in Int : (a <= c /\ 0 <= b) => a * b <= c * b
    BY SMT
  <1>2. \A b, c, d \in Int : (b <= d /\ 0 <= c) => c * b <= c * d
    BY SMT
  <1> QED
    BY <1>1, <1>2, SMT

LEMMA DivMod ==
    \A a \in Int, d \in Nat \ {0} :
        /\ a \div d \in Int
        /\ (a % d) \in 0 .. (d - 1)
        /\ a = d * (a \div d) + (a % d)
  BY SMT

\* The remainder is the only one: what is added to a multiple of d.
LEMMA RemainderUnique ==
    \A q, r \in Int, d \in Nat \ {0} : (0 <= r /\ r < d) => (d * q + r) % d = r
  BY SMT

LEMMA SmallRemainder == \A a \in Int, d \in Nat : (0 <= a /\ a < d) => a % d = a
  BY SMT

\* Divides, defined with the remainder, is having an integer quotient.
LEMMA DividesWitness ==
    \A d \in Nat \ {0}, n \in Int : Divides(d, n) <=> \E k \in Int : n = d * k
  <1> SUFFICES ASSUME NEW d \in Nat \ {0}, NEW n \in Int
               PROVE  Divides(d, n) <=> \E k \in Int : n = d * k
    OBVIOUS
  <1>1. ASSUME Divides(d, n) PROVE \E k \in Int : n = d * k
    <2>1. n \div d \in Int /\ n = d * (n \div d) + 0
      BY <1>1, DivMod DEF Divides
    <2> QED
      BY <2>1
  <1>2. ASSUME NEW k \in Int, n = d * k PROVE Divides(d, n)
    <2>1. (d * k + 0) % d = 0
      BY RemainderUnique
    <2>2. d * k + 0 = n
      BY <1>2
    <2> QED
      BY <2>1, <2>2 DEF Divides
  <1> QED
    BY <1>1, <1>2

\* A combination of multiples is a multiple.
LEMMA DividesCombination ==
    ASSUME NEW d \in Nat \ {0}, NEW a \in Int, NEW b \in Int, NEW k \in Int,
           Divides(d, a), Divides(d, b)
    PROVE  Divides(d, a + k * b)
  <1>1. PICK i \in Int : a = d * i
    BY DividesWitness
  <1>2. PICK j \in Int : b = d * j
    BY DividesWitness
  <1>3. /\ a + k * b = d * (i + k * j)
        /\ i + k * j \in Int
        /\ a + k * b \in Int
    BY <1>1, <1>2, SMT
  <1> QED
    BY <1>3, DividesWitness

\* A multiple that is smaller than the divisor is 0.
LEMMA SmallMultiple ==
    ASSUME NEW d \in Nat \ {0}, NEW n \in Int, Divides(d, n), -d < n, n < d
    PROVE  n = 0
  <1>1. PICK k \in Int : n = d * k
    BY DividesWitness
  <1>2. ~(k >= 1)
    BY <1>1, ProductGrows, SMT
  <1>3. ~(-k >= 1)
    <2> SUFFICES ASSUME -k >= 1 PROVE FALSE
      OBVIOUS
    <2>1. (-k) * d >= d
      BY ProductGrows
    <2> QED
      BY <1>1, <2>1, SMT
  <1> QED
    BY <1>1, <1>2, <1>3, SMT

-----------------------------------------------------------------------------
(* Machine integers.                                                       *)

LEMMA SizeFacts ==
    /\ WordSize \in Nat /\ WordSize >= 2 /\ WordSize = 2 * (WordSize \div 2)
    /\ IntSize \in Nat /\ IntSize >= 4 /\ IntSize = 2 * (IntSize \div 2)
    /\ MaxInt \in Nat /\ MaxInt >= 1 /\ MaxInt = (IntSize \div 2) - 1
  BY WordSizeAssumption, IntSizeAssumption, SMT DEF MaxInt

LEMMA WordConversions ==
    /\ Word \subseteq Nat
    /\ \A x \in Int : ToWord(x) \in Word
    /\ \A x \in Word : ToWord(x) = x
  BY WordSizeAssumption, SMT DEF ToWord, Word

LEMMA IntFacts ==
    /\ ToInt(IntSize \div 2) = -(IntSize \div 2)
    /\ \A x \in Int : ToInt(x) \in -(IntSize \div 2) .. MaxInt
    /\ \A x \in Int : -MaxInt <= x /\ x <= MaxInt => ToInt(x) = x
  BY IntSizeAssumption, SMT DEF ToInt, ToSigned, MaxInt

\* A signed 64-bit type represents what lies between its bounds.
LEMMA Int64Small ==
    \A x \in Int : -(WordSize \div 2) <= x /\ x < WordSize \div 2 => ToInt64(x) = x
  BY WordSizeAssumption, SMT DEF ToInt64, ToSigned

-----------------------------------------------------------------------------
(* The operations, below their bounds.                                     *)

LEMMA AddmodExact ==
    ASSUME NEW n \in Word, NEW a \in Residues(n), NEW b \in Residues(n), AddmodBound(n)
    PROVE  Addmod(a, b, n) = (a + b) % n
  <1>1. a + b \in Word
    BY WordSizeAssumption, SMT DEF Word, Residues, AddmodBound
  <1> QED
    BY <1>1, WordConversions DEF Addmod

LEMMA SubmodExact ==
    ASSUME NEW n \in Word, NEW a \in Residues(n), NEW b \in Residues(n), SubmodBound(n)
    PROVE  Submod(a, b, n) = (a - b) % n
  <1>0. /\ n \in Nat \ {0} /\ a \in Int /\ b \in Int
        /\ 0 <= a /\ a < n /\ 0 <= b /\ b < n /\ 2 * n <= WordSize \div 2
    BY SMT DEF Word, Residues, SubmodBound
  <1>1. ToInt64(a) = a /\ ToInt64(b) = b /\ ToInt64(n) = n /\ ToInt64(a - b) = a - b
    BY <1>0, SizeFacts, Int64Small, SMT
  <1>2. SubmodDiff(a, b) = a - b
    BY <1>1 DEF SubmodDiff
  <1>3. CRem(a - b, n) = a - b
    BY <1>0, SMT DEF CRem
  <1>4. ToInt64((a - b) + n) = (a - b) + n
    BY <1>0, SizeFacts, Int64Small, SMT
  <1>5. CRem((a - b) + n, n) = ((a - b) + n) % n
    BY <1>0, SMT DEF CRem
  <1>6. ((a - b) + n) % n = (a - b) % n
    <2>0. a - b \in Int
      BY <1>0
    <2>1. /\ (a - b) \div n \in Int
          /\ ((a - b) % n) \in 0 .. (n - 1)
          /\ a - b = n * ((a - b) \div n) + ((a - b) % n)
      BY <1>0, <2>0, DivMod, Zenon
    <2> DEFINE q == (a - b) \div n
               r == (a - b) % n
    <2> HIDE DEF q, r
    <2>2. q \in Int /\ r \in Int /\ 0 <= r /\ r < n /\ a - b = n * q + r
      BY <2>1, <1>0, SMT DEF q, r
    <2>3. (a - b) + n = n * (q + 1) + r /\ q + 1 \in Int
      BY <2>2, <1>0, SMT
    <2>4. (n * (q + 1) + r) % n = r
      BY <2>2, <2>3, <1>0, RemainderUnique
    <2> QED
      BY <2>3, <2>4 DEF r
  <1>7. (a - b) % n \in Word
    <2>0. a - b \in Int
      BY <1>0
    <2>1. (a - b) % n \in 0 .. (n - 1)
      BY <1>0, <2>0, DivMod, Zenon
    <2> QED
      BY <2>1, <1>0, SizeFacts, SMT DEF Word
  <1> QED
    BY <1>1, <1>2, <1>3, <1>4, <1>5, <1>6, <1>7, WordConversions DEF Submod

LEMMA MulmodExact ==
    ASSUME NEW n \in Word, NEW a \in Residues(n), NEW b \in Residues(n), MulmodBound(n)
    PROVE  Mulmod(a, b, n) = (a * b) % n
  <1>1. /\ n - 1 \in Int /\ a \in Int /\ b \in Int
        /\ 0 <= a /\ a <= n - 1 /\ 0 <= b /\ b <= n - 1
    BY SMT DEF Word, Residues
  <1>2. a * b <= (n - 1) * (n - 1)
    BY <1>1, ProductMonotone
  <1>3. a * b \in Int /\ 0 <= a * b /\ (n - 1) * (n - 1) \in Int
    BY <1>1, SMT
  <1>4. a * b \in Word
    BY <1>2, <1>3, SizeFacts, SMT DEF Word, MulmodBound
  <1> QED
    BY <1>4, WordConversions DEF Mulmod

-----------------------------------------------------------------------------
(* One iteration of the loop.                                              *)

\* The values of the loop variables.
LoopState(s) ==
    /\ s.val_a \in Word /\ s.val_b \in Word
    /\ s.x0 \in -(IntSize \div 2) .. MaxInt
    /\ s.x1 \in -(IntSize \div 2) .. MaxInt

LEMMA StartIsState == \A v, m \in Word : LoopState(InvmodStart(v, m))
  BY SizeFacts, SMT DEF LoopState, InvmodStart

\* An iteration keeps the types, whatever it truncates.
LEMMA StepIsState ==
    ASSUME NEW s, LoopState(s), s.val_b # 0
    PROVE  LoopState(InvmodStep(s))
  <1> DEFINE q == ToInt(s.val_a \div s.val_b)
  <1>1. /\ s.val_a \in Nat /\ s.val_b \in Nat \ {0}
        /\ s.x0 \in Int /\ s.x1 \in Int
    BY SizeFacts, SMT DEF LoopState, Word
  <1>2. s.val_a \div s.val_b \in Int
    BY <1>1, SMT
  <1>3. q \in Int /\ ToInt(s.val_b) \in Int
    BY <1>1, <1>2, IntFacts, SizeFacts, SMT
  <1>4. ToInt(q * s.x0) \in Int
    BY <1>1, <1>3, IntFacts, SizeFacts, SMT
  <1>5. s.x1 - ToInt(q * s.x0) \in Int
    BY <1>1, <1>4
  <1>6. ToInt(s.x1 - ToInt(q * s.x0)) \in -(IntSize \div 2) .. MaxInt
    BY <1>5, IntFacts
  <1>7. ToWord(ToInt(s.val_b)) \in Word
    BY <1>3, WordConversions
  <1>8. s.val_a % s.val_b \in Word
    BY <1>1, SizeFacts, SMT DEF LoopState, Word
  <1> QED
    BY <1>6, <1>7, <1>8 DEF InvmodStep, LoopState

\* The sizes of the two rows' coefficients, from the balance.
LEMMA BalanceBounds ==
    ASSUME NEW a \in Nat, NEW b \in Nat, NEW x0 \in Int, NEW x1 \in Int, NEW m \in Nat,
           \/ x1 >= 0 /\ x0 <= 0 /\ x1 * b - x0 * a = m
           \/ x1 <= 0 /\ x0 >= 0 /\ x0 * a - x1 * b = m
    PROVE  /\ a >= 1 => -m <= x0 /\ x0 <= m
           /\ a >= 2 => -m <= 2 * x0 /\ 2 * x0 <= m
           /\ b >= 1 => -m <= x1 /\ x1 <= m
  <1>1. \A x, y, c, d \in Int : (0 <= x /\ 0 <= y /\ 0 <= c /\ 0 <= d /\ x * c + y * d = m)
                                   => /\ c >= 1 => x <= m
                                      /\ c >= 2 => 2 * x <= m
    <2> SUFFICES ASSUME NEW x \in Int, NEW y \in Int, NEW c \in Int, NEW d \in Int,
                        0 <= x, 0 <= y, 0 <= c, 0 <= d, x * c + y * d = m
                 PROVE  /\ c >= 1 => x <= m
                        /\ c >= 2 => 2 * x <= m
      OBVIOUS
    <2>1. 0 <= y * d /\ y * d \in Int /\ x * c \in Int
      BY SMT
    <2>2. x * c <= m
      BY <2>1, SMT
    <2>3. c >= 1 => x * 1 <= x * c
      BY ProductMonotone
    <2>4. c >= 2 => x * 2 <= x * c
      BY ProductMonotone
    <2> QED
      BY <2>1, <2>2, <2>3, <2>4, SMT
  <1>2. CASE x1 >= 0 /\ x0 <= 0 /\ x1 * b - x0 * a = m
    <2>1. (-x0) * a + x1 * b = m /\ x1 * b + (-x0) * a = m
      BY <1>2, SMT
    <2>2. 0 <= -x0 /\ 0 <= x1 /\ -x0 \in Int
      BY <1>2
    <2>3. (a >= 1 => -x0 <= m) /\ (a >= 2 => 2 * (-x0) <= m)
      BY <1>1, <2>1, <2>2
    <2>4. b >= 1 => x1 <= m
      BY <1>1, <2>1, <2>2
    <2> QED
      BY <1>2, <2>3, <2>4, SMT
  <1>3. CASE x1 <= 0 /\ x0 >= 0 /\ x0 * a - x1 * b = m
    <2>1. x0 * a + (-x1) * b = m /\ (-x1) * b + x0 * a = m
      BY <1>3, SMT
    <2>2. 0 <= -x1 /\ 0 <= x0 /\ -x1 \in Int
      BY <1>3
    <2>3. (a >= 1 => x0 <= m) /\ (a >= 2 => 2 * x0 <= m)
      BY <1>1, <2>1, <2>2
    <2>4. b >= 1 => -x1 <= m
      BY <1>1, <2>1, <2>2
    <2> QED
      BY <1>3, <2>3, <2>4, SMT
  <1> QED
    BY <1>2, <1>3

(***************************************************************************)
(* While the modulus fits an int, an iteration that does not trap computes *)
(* without wrap-around: the machine values are the exact ones.             *)
(***************************************************************************)
LEMMA StepIsExact ==
    ASSUME NEW s, NEW v \in Word, NEW m \in 1 .. MaxInt, LoopState(s), EuclidInv(s, v, m),
           InvmodRunning(s), s.val_b # 0,
           NEW q, q = s.val_a \div s.val_b
    PROVE  /\ q \in Nat
           /\ s.x0 # 0 => q <= m
           /\ q * s.x0 \in -m .. m
           /\ s.x1 - q * s.x0 \in -m .. m
           /\ InvmodStep(s).val_a = s.val_b
           /\ InvmodStep(s).val_b = s.val_a - q * s.val_b
           /\ 0 <= s.val_a - q * s.val_b /\ s.val_a - q * s.val_b < s.val_b
           /\ InvmodStep(s).x0 = s.x1 - q * s.x0
           /\ InvmodStep(s).x1 = s.x0
           /\ Balanced(InvmodStep(s), m)
  <1> DEFINE a == s.val_a
             b == s.val_b
             x0 == s.x0
             x1 == s.x1
             x == x1 - q * x0
             r == a - q * b
  <1> HIDE DEF a, b, x0, x1, x, r
  <1>1. /\ a \in Nat /\ b \in Nat \ {0} /\ x0 \in Int /\ x1 \in Int /\ m \in Nat \ {0}
        /\ a >= 2 /\ b <= m /\ m <= MaxInt /\ b \in Word
    BY SizeFacts, SMT DEF a, b, x0, x1, LoopState, Word, EuclidInv, InvmodRunning
  <1>2. /\ q \in Nat /\ a % b = r /\ 0 <= r /\ r < b /\ r \in Int /\ x \in Int
    <2>1. q = a \div b
      BY DEF a, b
    <2>2. /\ q \in Int /\ a % b \in 0 .. (b - 1) /\ a = b * q + (a % b)
      <3>1. a \in Int
        BY <1>1
      <3> QED
        BY <1>1, <2>1, <3>1, DivMod, Zenon
    <2>3. q \in Nat
      BY <1>1, <2>1, SMT
    <2>4. a % b = a - q * b
      BY <1>1, <2>2, SMT
    <2> QED
      BY <1>1, <2>2, <2>3, <2>4, SMT DEF r, x
  <1>3. \/ x1 >= 0 /\ x0 <= 0 /\ x1 * b - x0 * a = m
        \/ x1 <= 0 /\ x0 >= 0 /\ x0 * a - x1 * b = m
    BY DEF EuclidInv, Balanced, a, b, x0, x1
  <1>4. \/ x0 >= 0 /\ x <= 0 /\ x0 * r - x * b = m
        \/ x0 <= 0 /\ x >= 0 /\ x * b - x0 * r = m
    <2>1. x0 * r - x * b = x0 * a - x1 * b
      BY <1>1, <1>2, SMT DEF x, r
    <2>2. CASE x1 >= 0 /\ x0 <= 0 /\ x1 * b - x0 * a = m
      <3>1. q * (-x0) >= 0 /\ q * x0 = -(q * (-x0)) /\ q * x0 \in Int /\ q * (-x0) \in Int
        BY <1>1, <1>2, <2>2, SMT
      <3>2. x >= 0
        BY <1>1, <2>2, <3>1, SMT DEF x
      <3>3. x * b - x0 * r = m
        BY <1>1, <1>2, <2>1, <2>2, SMT
      <3> QED
        BY <2>2, <3>2, <3>3
    <2>3. CASE x1 <= 0 /\ x0 >= 0 /\ x0 * a - x1 * b = m
      <3>1. q * x0 >= 0 /\ q * x0 \in Int
        BY <1>1, <1>2, <2>3, SMT
      <3>2. x <= 0
        BY <1>1, <2>3, <3>1, SMT DEF x
      <3> QED
        BY <2>1, <2>3, <3>2
    <2> QED
      BY <1>3, <2>2, <2>3
  <1>5. -m <= x /\ x <= m
    BY <1>1, <1>2, <1>4, BalanceBounds, SMT
  <1>6. q * x0 \in Int /\ -m <= q * x0 /\ q * x0 <= m
    <2>1. q * x0 \in Int /\ q * x0 = x1 - x
      BY <1>1, <1>2, SMT DEF x
    <2>2. (x1 >= 0 /\ x0 <= 0 /\ x >= 0) \/ (x1 <= 0 /\ x0 >= 0 /\ x <= 0)
      <3>1. (x0 <= 0 => q * x0 <= 0) /\ (x0 >= 0 => q * x0 >= 0)
        BY <1>1, <1>2, SMT
      <3> QED
        BY <1>1, <1>2, <1>3, <2>1, <3>1, SMT
    <2>3. (x0 <= 0 => q * x0 <= 0) /\ (x0 >= 0 => q * x0 >= 0)
      BY <1>1, <1>2, SMT
    <2> QED
      BY <1>1, <1>2, <1>5, <2>1, <2>2, <2>3, SMT
  <1>7. x0 # 0 => q <= m
    <2>1. x0 >= 1 => q * 1 <= q * x0
      BY <1>1, <1>2, ProductMonotone
    <2>2. -x0 >= 1 => q * 1 <= q * (-x0)
      BY <1>1, <1>2, ProductMonotone
    <2>3. q * (-x0) = -(q * x0)
      BY <1>1, <1>2, SMT
    <2> QED
      BY <1>1, <1>2, <1>6, <2>1, <2>2, <2>3, SMT
  <1>8. /\ InvmodStep(s).val_a = b
        /\ InvmodStep(s).val_b = r
        /\ InvmodStep(s).x0 = x
        /\ InvmodStep(s).x1 = x0
    <2>1. ToInt(b) = b /\ ToWord(b) = b
      BY <1>1, SizeFacts, IntFacts, WordConversions, SMT
    <2>2. ToInt(ToInt(q) * x0) = q * x0
      <3>1. CASE x0 = 0
        <4>1. ToInt(q) \in Int
          BY <1>2, IntFacts, SizeFacts, SMT
        <4>2. ToInt(q) * x0 = 0 /\ q * x0 = 0
          BY <4>1, <1>2, <3>1, SMT
        <4>3. ToInt(0) = 0
          BY IntFacts, SizeFacts, SMT
        <4> QED
          BY <4>2, <4>3
      <3>2. CASE x0 # 0
        <4>1. ToInt(q) = q
          BY <1>1, <1>2, <1>7, <3>2, IntFacts, SizeFacts, SMT
        <4>2. ToInt(q * x0) = q * x0
          BY <1>1, <1>6, IntFacts, SizeFacts, SMT
        <4> QED
          BY <4>1, <4>2
      <3> QED
        BY <3>1, <3>2
    <2>3. ToInt(x1 - q * x0) = x
      <3>1. x1 - q * x0 = x
        BY DEF x
      <3>2. ToInt(x) = x
        BY <1>1, <1>2, <1>5, IntFacts, SizeFacts, SMT
      <3> QED
        BY <3>1, <3>2
    <2>4. s.val_a % s.val_b = r
      BY <1>2 DEF a, b
    <2>5. InvmodStep(s) = [val_a |-> ToWord(ToInt(b)), val_b |-> a % b,
                           x0 |-> ToInt(x1 - ToInt(ToInt(q) * x0)), x1 |-> x0]
      BY DEF InvmodStep, a, b, x0, x1
    <2> QED
      BY <1>2, <2>1, <2>2, <2>3, <2>5
  <1>9. Balanced(InvmodStep(s), m)
    BY <1>4, <1>8 DEF Balanced
  <1>10. x \in -m .. m /\ q * x0 \in -m .. m
    BY <1>1, <1>2, <1>5, <1>6, SMT
  <1> QED
    BY <1>2, <1>7, <1>8, <1>9, <1>10 DEF a, b, x0, x1, x, r

\* An iteration keeps what EuclidInv says.
LEMMA StepKeepsEuclid ==
    ASSUME NEW s, NEW v \in Word, NEW m \in 1 .. MaxInt, LoopState(s), EuclidInv(s, v, m),
           InvmodRunning(s), s.val_b # 0
    PROVE  EuclidInv(InvmodStep(s), v, m)
  <1> DEFINE q == s.val_a \div s.val_b
             n == InvmodStep(s)
  <1> HIDE DEF q, n
  <1>1. /\ q \in Nat
        /\ n.val_a = s.val_b
        /\ n.val_b = s.val_a - q * s.val_b
        /\ n.val_b < s.val_b
        /\ n.x0 = s.x1 - q * s.x0
        /\ n.x1 = s.x0
        /\ Balanced(n, m)
    BY StepIsExact DEF q, n
  <1>2. /\ s.val_a \in Nat /\ s.val_b \in Nat \ {0} /\ s.x0 \in Int /\ s.x1 \in Int
        /\ m \in Nat \ {0} /\ v \in Nat /\ s.val_a >= 2 /\ s.val_b <= m
    BY SizeFacts, SMT DEF LoopState, Word, EuclidInv, InvmodRunning
  <1>3. RowsAreMultiples(n, v, m)
    <2> DEFINE a == s.val_a - s.x1 * v
               b == s.val_b - s.x0 * v
               c == n.val_b - n.x0 * v
    <2> HIDE DEF a, b, c
    <2>1. a \in Int /\ b \in Int /\ Divides(m, a) /\ Divides(m, b)
      <3>1. a \in Int /\ b \in Int
        BY <1>2, SMT DEF a, b
      <3> QED
        BY <3>1 DEF EuclidInv, RowsAreMultiples, a, b
    <2>2. c = a + (-q) * b /\ -q \in Int
      BY <1>1, <1>2, SMT DEF a, b, c
    <2>3. Divides(m, c)
      BY <1>2, <2>1, <2>2, DividesCombination
    <2> QED
      BY <1>1, <2>1, <2>3 DEF RowsAreMultiples, b, c
  <1>4. KeepsDivisors(n, v, m)
    <2> SUFFICES ASSUME NEW d \in Word \ {0}, Divides(d, n.val_a), Divides(d, n.val_b)
                 PROVE  Divides(d, v) /\ Divides(d, m)
      BY DEF KeepsDivisors
    <2>1. d \in Nat \ {0} /\ n.val_b \in Int /\ n.val_a \in Int
      BY <1>1, <1>2, SMT DEF Word
    <2>2. s.val_a = n.val_b + q * n.val_a /\ q \in Int
      BY <1>1, <1>2, SMT
    <2>3. Divides(d, s.val_a)
      BY <2>1, <2>2, DividesCombination
    <2> QED
      BY <1>1, <2>3 DEF EuclidInv, KeepsDivisors
  <1>5. n.val_b <= m
    BY <1>1, <1>2, SMT
  <1>6. -m <= 2 * n.x1 /\ 2 * n.x1 <= m
    <2>1. \/ s.x1 >= 0 /\ s.x0 <= 0 /\ s.x1 * s.val_b - s.x0 * s.val_a = m
          \/ s.x1 <= 0 /\ s.x0 >= 0 /\ s.x0 * s.val_a - s.x1 * s.val_b = m
      BY DEF EuclidInv, Balanced
    <2>2. -m <= 2 * s.x0 /\ 2 * s.x0 <= m
      <3>1. s.val_b \in Nat /\ m \in Nat
        BY <1>2
      <3> QED
        BY <1>2, <2>1, <3>1, BalanceBounds, Zenon
    <2> QED
      BY <1>1, <2>2
  <1>7. v # 0
    BY <1>2, SMT DEF EuclidInv, InvmodStart
  <1>8. n.val_a >= 1
    BY <1>1, <1>2, SMT
  <1> QED
    BY <1>1, <1>3, <1>4, <1>5, <1>6, <1>7, <1>8 DEF EuclidInv, n

\* The loop is entered with the relation.
LEMMA StartIsEuclid ==
    ASSUME NEW v \in Word, NEW m \in Word, m # 0
    PROVE  EuclidInv(InvmodStart(v, m), v, m)
  <1> DEFINE s == InvmodStart(v, m)
  <1>1. s.val_a = v /\ s.val_b = m /\ s.x0 = 0 /\ s.x1 = 1
    BY DEF InvmodStart
  <1> HIDE DEF s
  <1>2. v \in Nat /\ m \in Nat \ {0}
    BY SMT DEF Word
  <1>3. s.val_a - s.x1 * v = m * 0 /\ s.val_b - s.x0 * v = m * 1
    BY <1>1, <1>2, SMT
  <1>4. RowsAreMultiples(s, v, m)
    BY <1>2, <1>3, DividesWitness, SMT DEF RowsAreMultiples
  <1>5. Balanced(s, m)
    BY <1>1, <1>2, SMT DEF Balanced
  <1>6. KeepsDivisors(s, v, m)
    BY <1>1 DEF KeepsDivisors
  <1> QED
    BY <1>1, <1>2, <1>4, <1>5, <1>6, SMT DEF EuclidInv, s

-----------------------------------------------------------------------------
(* The end of the loop.                                                    *)

\* What is stored for a value other than 0 is the reduced inverse.
LEMMA ResultIsInverse ==
    ASSUME NEW s, NEW v \in Word, NEW m \in 2 .. MaxInt, m \in Word, LoopState(s),
           EuclidInv(s, v, m), ~InvmodRunning(s), v # 0
    PROVE  /\ InvmodResult(s, m) \in 1 .. (m - 1)
           /\ (InvmodResult(s, m) * v) % m = 1
  <1>1. /\ s.val_a = 1 /\ s.x1 \in Int /\ m \in Nat \ {0, 1} /\ v \in Nat
        /\ -m < s.x1 /\ s.x1 < m /\ m <= MaxInt
    BY SizeFacts, SMT DEF LoopState, Word, EuclidInv, InvmodRunning
  <1>2. PICK k \in Int : 1 - s.x1 * v = m * k
    <2>1. Divides(m, 1 - s.x1 * v) /\ 1 - s.x1 * v \in Int
      BY <1>1, SMT DEF EuclidInv, RowsAreMultiples
    <2> QED
      BY <1>1, <2>1, DividesWitness
  <1>3. s.x1 # 0
    <2> SUFFICES ASSUME s.x1 = 0 PROVE FALSE
      OBVIOUS
    <2>1. Divides(m, 1)
      BY <1>1, SMT DEF EuclidInv, RowsAreMultiples
    <2> QED
      BY <1>1, <2>1, SmallMultiple, SMT
  <1> DEFINE x == IF s.x1 < 0 THEN s.x1 + m ELSE s.x1
  <1> HIDE DEF x
  <1>4. x \in 1 .. (m - 1) /\ x \in Int
    BY <1>1, <1>3, SMT DEF x
  <1>5. InvmodResult(s, m) = x
    <2>1. ToInt(m) = m
      BY <1>1, IntFacts, SizeFacts, SMT
    <2>2. s.x1 < 0 => ToInt(s.x1 + ToInt(m)) = s.x1 + m
      BY <1>1, <2>1, IntFacts, SizeFacts, SMT
    <2>3. x \in Word
      BY <1>4, SizeFacts, SMT DEF Word
    <2>4. ToWord(x) = x
      BY <2>3, WordConversions
    <2> QED
      BY <2>2, <2>4 DEF InvmodResult, x
  <1>6. (x * v) % m = 1
    <2>1. \E j \in Int : x * v = m * j + 1
      <3>1. CASE s.x1 < 0
        <4>1. x * v = s.x1 * v + m * v /\ m * (v - k) = m * v - m * k /\ v - k \in Int
          BY <1>1, <3>1, SMT DEF x
        <4>2. s.x1 * v \in Int /\ m * v \in Int /\ m * k \in Int
          BY <1>1, SMT
        <4>3. x * v = m * (v - k) + 1
          BY <1>2, <4>1, <4>2, SMT
        <4> QED
          BY <4>1, <4>3
      <3>2. CASE ~(s.x1 < 0)
        <4>1. x * v = m * (-k) + 1 /\ -k \in Int
          BY <1>1, <1>2, <3>2, SMT DEF x
        <4> QED
          BY <4>1
      <3> QED
        BY <3>1, <3>2
    <2>2. PICK j \in Int : x * v = m * j + 1
      BY <2>1
    <2> QED
      BY <1>1, <2>2, RemainderUnique, SMT
  <1> QED
    BY <1>4, <1>5, <1>6

\* A trap is taken only when the value and the modulus share a factor.
LEMMA TrapMeansFactor ==
    ASSUME NEW s, NEW v \in Word, NEW m \in 2 .. MaxInt, m \in Word, LoopState(s),
           EuclidInv(s, v, m), InvmodTrapped(s)
    PROVE  ~Coprime(v, m)
  <1>1. s.val_a \in Word \ {0} /\ s.val_a >= 2 /\ s.val_b = 0
    BY SMT DEF LoopState, Word, InvmodTrapped, InvmodRunning
  <1>2. m \in Nat \ {0} /\ v \in Nat /\ s.val_a \in Nat \ {0}
    BY <1>1, SMT DEF Word
  <1>3. Divides(s.val_a, s.val_a) /\ Divides(s.val_a, s.val_b)
    <2>1. s.val_a = s.val_a * 1 /\ 0 = s.val_a * 0 /\ s.val_a \in Int /\ 1 \in Int /\ 0 \in Int
      BY <1>2, SMT
    <2>2. Divides(s.val_a, s.val_a)
      BY <1>2, <2>1, DividesWitness, Zenon
    <2>3. Divides(s.val_a, 0)
      BY <1>2, <2>1, DividesWitness, Zenon
    <2> QED
      BY <1>1, <2>2, <2>3
  <1>4. Divides(s.val_a, v) /\ Divides(s.val_a, m)
    BY <1>1, <1>3 DEF EuclidInv, KeepsDivisors
  <1>5. s.val_a <= m
    BY <1>2, <1>4, SmallMultiple, SMT
  <1>6. s.val_a \in 2 .. (IF v > m THEN v ELSE m)
    BY <1>1, <1>2, <1>5, SMT
  <1> QED
    BY <1>4, <1>6 DEF Coprime

\* There is only one reduced inverse.
LEMMA InverseUnique ==
    ASSUME NEW m \in Nat \ {0, 1}, NEW e \in Int, NEW x \in Residues(m), NEW y \in Residues(m),
           (x * e) % m = 1, (e * y) % m = 1
    PROVE  x = y
  <1>1. x \in Int /\ y \in Int /\ 0 <= x /\ x < m /\ 0 <= y /\ y < m /\ m \in Nat \ {0}
    BY SMT DEF Residues
  <1>2. x * e \in Int /\ e * y \in Int
    BY <1>1, SMT
  <1>3. PICK i \in Int : x * e = m * i + 1
    BY <1>1, <1>2, DivMod, Zenon
  <1>4. PICK j \in Int : e * y = m * j + 1
    <2>1. (e * y) \div m \in Int /\ e * y = m * ((e * y) \div m) + ((e * y) % m)
      BY <1>1, <1>2, DivMod, Zenon
    <2> QED
      BY <2>1
  <1>5. x * (e * y) = (x * e) * y
    BY <1>1, SMT
  <1>6. x - y = m * (i * y - x * j) /\ i * y - x * j \in Int /\ x - y \in Int
    <2>1. x * (m * j + 1) = (m * i + 1) * y
      BY <1>3, <1>4, <1>5
    <2> QED
      BY <1>1, <2>1, SMT
  <1>7. Divides(m, x - y)
    BY <1>1, <1>6, DividesWitness, Zenon
  <1> QED
    BY <1>1, <1>6, <1>7, SmallMultiple, SMT

-----------------------------------------------------------------------------
(* The chain.                                                              *)

LEMMA LoopTypes ==
    LoopTypeOK <=> /\ value \in Word /\ modulus \in Word /\ result \in Word
                   /\ LoopState(loop)
                   /\ pc \in {"idle", "loop", "stored", "trapped"}
  BY IntFacts DEF LoopTypeOK, LoopState

LEMMA LoopTypesNext ==
    LoopTypeOK' <=> /\ value' \in Word /\ modulus' \in Word /\ result' \in Word
                    /\ LoopState(loop')
                    /\ pc' \in {"idle", "loop", "stored", "trapped"}
  BY IntFacts DEF LoopTypeOK, LoopState

\* The initial states.
LEMMA InitEstablishes == Init => IInv
  <1> SUFFICES ASSUME Init PROVE IInv
    OBVIOUS
  <1> USE DEF Init, LoopInit
  <1>1. 0 \in Word
    BY SizeFacts, SMT DEF Word
  <1>2. LoopState(loop)
    BY <1>1, StartIsState DEF NoLoop
  <1>3. LoopTypeOK
    BY <1>1, <1>2, LoopTypes
  <1>4. exact \in Residues(modulus) \cup {NoResidue}
    BY SMT DEF Word, Residues, NoResidue
  <1>5. AccIsExact
    BY DEF AccIsExact
  <1>6. LoopInv /\ InvertsAcc /\ StoresInverse
    BY DEF LoopInv, InvertsAcc, StoresInverse
  <1> QED
    BY <1>3, <1>4, <1>5, <1>6 DEF IInv, TypeOK

\* An operation that stores the exact residue of the idle program.
LEMMA ExactStep ==
    ASSUME IInv, HasResidue, modulus # 0, UNCHANGED loopVars,
           NEW r \in Int, exact' = r % modulus, acc' = exact'
    PROVE  IInv'
  <1> USE DEF HasResidue, loopVars
  <1>1. modulus \in Nat \ {0} /\ modulus \in Word
    BY LoopTypes, SMT DEF IInv, TypeOK, Word
  <1>2. exact' \in 0 .. (modulus - 1)
    BY <1>1, DivMod, Zenon
  <1>3. exact' \in Word /\ exact' \in Residues(modulus)
    BY <1>1, <1>2, SizeFacts, SMT DEF Word, Residues
  <1>4. LoopTypeOK'
    BY LoopTypes, LoopTypesNext DEF IInv, TypeOK
  <1>5. TypeOK'
    BY <1>3, <1>4 DEF TypeOK
  <1>6. LoopInv' /\ InvertsAcc' /\ StoresInverse'
    BY DEF LoopInv, InvertsAcc, StoresInverse
  <1>7. AccIsExact'
    BY DEF AccIsExact
  <1> QED
    BY <1>5, <1>6, <1>7 DEF IInv

LEMMA AddKeeps == ASSUME IInv, NEW b \in Residues(modulus), Add(b) PROVE IInv'
  <1>1. /\ modulus \in Word /\ modulus # 0 /\ acc = exact /\ exact \in Residues(modulus)
        /\ exact \in Int /\ b \in Int
    BY LoopTypes, SMT DEF IInv, TypeOK, AccIsExact, Add, HasResidue, Residues, Word
  <1>2. acc' = exact'
    BY <1>1, AddmodExact DEF Add
  <1>3. exact + b \in Int
    BY <1>1
  <1> QED
    BY <1>1, <1>2, <1>3, ExactStep DEF Add

LEMMA SubKeeps == ASSUME IInv, NEW b \in Residues(modulus), Sub(b) PROVE IInv'
  <1>1. /\ modulus \in Word /\ modulus # 0 /\ acc = exact /\ exact \in Residues(modulus)
        /\ exact \in Int /\ b \in Int
    BY LoopTypes, SMT DEF IInv, TypeOK, AccIsExact, Sub, HasResidue, Residues, Word
  <1>2. acc' = exact'
    BY <1>1, SubmodExact DEF Sub
  <1>3. exact - b \in Int
    BY <1>1
  <1> QED
    BY <1>1, <1>2, <1>3, ExactStep DEF Sub

LEMMA MulKeeps == ASSUME IInv, NEW b \in Residues(modulus), Mul(b) PROVE IInv'
  <1>1. /\ modulus \in Word /\ modulus # 0 /\ acc = exact /\ exact \in Residues(modulus)
        /\ exact \in Int /\ b \in Int
    BY LoopTypes, SMT DEF IInv, TypeOK, AccIsExact, Mul, HasResidue, Residues, Word
  <1>2. acc' = exact'
    BY <1>1, MulmodExact DEF Mul
  <1>3. exact * b \in Int
    BY <1>1
  <1> QED
    BY <1>1, <1>2, <1>3, ExactStep DEF Mul

LEMMA InvKeeps == ASSUME IInv, Inv PROVE IInv'
  <1> USE DEF Inv, Enter
  <1>1. modulus \in Word /\ acc \in Word /\ result \in Word
    BY LoopTypes DEF IInv, TypeOK
  <1>2. TypeOK'
    <2>1. LoopTypeOK'
      BY <1>1, LoopTypesNext, StartIsState
    <2> QED
      BY <2>1 DEF IInv, TypeOK
  <1>3. LoopInv'
    <2>1. modulus \in 1 .. MaxInt => modulus # 0
      BY SMT
    <2> QED
      BY <1>1, <2>1, StartIsEuclid DEF LoopInv
  <1>4. StoresInverse' /\ AccIsExact' /\ InvertsAcc'
    BY DEF IInv, StoresInverse, AccIsExact, InvertsAcc
  <1> QED
    BY <1>2, <1>3, <1>4 DEF IInv

LEMMA InvertKeeps == ASSUME IInv, Invert PROVE IInv'
  <1>0. /\ value \in Word /\ modulus \in Word /\ result \in Word /\ LoopState(loop)
        /\ UNCHANGED <<value, modulus, acc, exact>> /\ pc = "loop"
    BY LoopTypes DEF IInv, TypeOK, Invert, LoopNext, ModulusOne, Iterate, Trap, Store
  <1>1. AccIsExact' /\ InvertsAcc'
    BY <1>0 DEF IInv, AccIsExact, InvertsAcc
  <1>2. ASSUME LoopTypeOK' PROVE TypeOK'
    BY <1>0, <1>2 DEF IInv, TypeOK
  <1>3. CASE ModulusOne
    <2> USE <1>3 DEF ModulusOne
    <2>1. 0 \in Word
      BY SizeFacts, SMT DEF Word
    <2>2. LoopTypeOK'
      BY <1>0, <2>1, LoopTypesNext
    <2>3. LoopInv'
      BY DEF IInv, LoopInv
    <2>4. StoresInverse'
      BY <1>0, SMT DEF StoresInverse
    <2> QED
      BY <1>1, <1>2, <2>2, <2>3, <2>4 DEF IInv
  <1>4. CASE Iterate
    <2> USE <1>4 DEF Iterate
    <2>0. loop.val_b # 0
      BY DEF InvmodTrapped
    <2>2. LoopTypeOK'
      BY <1>0, <2>0, LoopTypesNext, StepIsState
    <2>3. LoopInv'
      BY <1>0, <2>0, StepKeepsEuclid DEF IInv, LoopInv
    <2>4. StoresInverse'
      BY <1>0 DEF StoresInverse
    <2> QED
      BY <1>1, <1>2, <2>2, <2>3, <2>4 DEF IInv
  <1>5. CASE Trap
    <2> USE <1>5 DEF Trap
    <2>2. LoopTypeOK'
      BY <1>0, LoopTypesNext
    <2>3. LoopInv'
      BY DEF IInv, LoopInv
    <2>4. StoresInverse'
      <3> SUFFICES ASSUME modulus \in 2 .. MaxInt PROVE ~Coprime(value, modulus)
        BY <1>0 DEF StoresInverse
      <3>1. EuclidInv(loop, value, modulus)
        <4>1. modulus \in 1 .. MaxInt
          BY SizeFacts, SMT
        <4> QED
          BY <1>0, <4>1 DEF IInv, LoopInv
      <3> QED
        BY <1>0, <3>1, TrapMeansFactor
    <2> QED
      BY <1>1, <1>2, <2>2, <2>3, <2>4 DEF IInv
  <1>6. CASE Store
    <2> USE <1>6 DEF Store
    <2>2. LoopTypeOK'
      <3>1. ToInt(modulus) \in Int /\ loop.x1 \in Int
        BY <1>0, IntFacts, SizeFacts, SMT DEF LoopState, Word
      <3>2. loop.x1 + ToInt(modulus) \in Int
        BY <3>1
      <3>3. ToInt(loop.x1 + ToInt(modulus)) \in Int
        BY <3>2, IntFacts, SizeFacts, SMT
      <3>4. InvmodResult(loop, modulus) \in Word
        BY <3>1, <3>3, WordConversions DEF InvmodResult
      <3> QED
        BY <1>0, <3>4, LoopTypesNext
    <2>3. LoopInv'
      BY DEF IInv, LoopInv
    <2>4. StoresInverse'
      <3> SUFFICES ASSUME modulus \in 2 .. MaxInt
                   PROVE  /\ value # 0 => /\ result' \in 1 .. (modulus - 1)
                                          /\ (result' * value) % modulus = 1
                          /\ value = 0 => result' = 1
        BY <1>0 DEF StoresInverse
      <3>1. EuclidInv(loop, value, modulus)
        <4>1. modulus \in 1 .. MaxInt
          BY SizeFacts, SMT
        <4> QED
          BY <1>0, <4>1 DEF IInv, LoopInv
      <3>2. value # 0 => /\ result' \in 1 .. (modulus - 1)
                         /\ (result' * value) % modulus = 1
        BY <1>0, <3>1, ResultIsInverse
      <3>3. value = 0 => result' = 1
        <4> SUFFICES ASSUME value = 0 PROVE result' = 1
          OBVIOUS
        <4>1. loop.x1 = 1
          BY <3>1 DEF EuclidInv, InvmodStart
        <4>2. 1 \in Word
          BY SizeFacts, SMT DEF Word
        <4>3. ~(1 < 0)
          BY SMT
        <4> QED
          BY <4>1, <4>2, <4>3, WordConversions DEF InvmodResult
      <3> QED
        BY <3>2, <3>3
    <2> QED
      BY <1>1, <1>2, <2>2, <2>3, <2>4 DEF IInv
  <1> QED
    BY <1>3, <1>4, <1>5, <1>6 DEF Invert, LoopNext

LEMMA InvertedKeeps == ASSUME IInv, Inverted PROVE IInv'
  <1> USE DEF Inverted, Leave
  <1>1. 0 \in Word /\ modulus \in Word /\ result \in Word /\ value = acc
    BY LoopTypes, SizeFacts, SMT DEF IInv, TypeOK, InvertsAcc, Word
  <1>2. LoopTypeOK'
    BY <1>1, LoopTypesNext, StartIsState DEF NoLoop
  <1>3. LoopInv' /\ StoresInverse' /\ InvertsAcc'
    BY DEF LoopInv, StoresInverse, InvertsAcc
  <1>4. /\ exact' \in Residues(modulus) \cup {NoResidue}
        /\ exact' # NoResidue => acc' = exact'
    <2>1. CASE exact # NoResidue /\ InvmodBound(modulus) /\ Invertible(exact, modulus)
      <3>1. exact \in Residues(modulus) /\ acc = exact /\ value = exact
        BY <1>1, <2>1 DEF IInv, TypeOK, AccIsExact
      <3>2. PICK y \in Residues(modulus) : (exact * y) % modulus = 1
        BY <2>1 DEF Invertible
      <3>3. exact' \in Residues(modulus) /\ (exact * exact') % modulus = 1
        <4>1. exact' = CHOOSE z \in Residues(modulus) : (exact * z) % modulus = 1
          BY <2>1
        <4> QED
          BY <3>2, <4>1
      <3>4. modulus \in Nat \ {0} /\ exact \in Int /\ y \in Int
        BY <1>1, <3>1, SMT DEF Word, Residues
      <3>5. exact # 0
        BY <3>2, <3>4, SmallRemainder, SMT
      <3>6. modulus # 1
        BY <3>1, <3>4, <3>5, SMT DEF Residues
      <3>7. modulus \in 2 .. MaxInt
        BY <2>1, <3>4, <3>6, SizeFacts, SMT DEF InvmodBound
      <3>8. result \in 1 .. (modulus - 1) /\ (result * exact) % modulus = 1
        BY <3>1, <3>5, <3>7 DEF IInv, StoresInverse
      <3>9. result \in Residues(modulus)
        BY <3>4, <3>8, SMT DEF Residues
      <3>10. result = exact'
        BY <3>3, <3>4, <3>6, <3>8, <3>9, InverseUnique
      <3> QED
        BY <3>3, <3>10
    <2>2. CASE ~(exact # NoResidue /\ InvmodBound(modulus) /\ Invertible(exact, modulus))
      BY <2>2
    <2> QED
      BY <2>1, <2>2
  <1> QED
    BY <1>1, <1>2, <1>3, <1>4 DEF IInv, TypeOK, AccIsExact

(***************************************************************************)
(* The inductive invariant: the relation EuclidInv of the loop that        *)
(* PIMCtrl::recvTimingReq runs for INVMOD, for every modulus that fits an  *)
(* int, with the types and the program's residue.                          *)
(***************************************************************************)
THEOREM ChainInvariance == Spec => []IInv
  <1>1. Init => IInv
    BY InitEstablishes
  <1>2. ASSUME IInv, [Next]_vars PROVE IInv'
    <2>1. CASE UNCHANGED vars
      BY <1>2, <2>1 DEF vars, IInv, TypeOK, LoopTypeOK, LoopInv, StoresInverse, AccIsExact,
                        InvertsAcc
    <2>2. CASE Next
      BY <1>2, <2>2, AddKeeps, SubKeeps, MulKeeps, InvKeeps, InvertKeeps, InvertedKeeps DEF Next
    <2> QED
      BY <1>2, <2>1, <2>2
  <1> QED
    BY <1>1, <1>2, PTL DEF Spec

(***************************************************************************)
(* Every variable of the branch and of the program keeps the range of its  *)
(* type, for every value and modulus, the truncated ones included.         *)
(***************************************************************************)
THEOREM ChainTypeCorrect == Spec => []TypeOK
  <1>1. IInv => TypeOK
    BY DEF IInv
  <1> QED
    BY <1>1, ChainInvariance, PTL

(***************************************************************************)
(* While the modulus fits an int, the rows of the INVMOD loop are the      *)
(* multiples of the value that its coefficients say.                       *)
(***************************************************************************)
THEOREM RowsStayMultiples == Spec => []Bezout
  <1>1. IInv => Bezout
    BY DEF IInv, LoopInv, EuclidInv, RowsAreMultiples, Bezout
  <1> QED
    BY <1>1, ChainInvariance, PTL

(***************************************************************************)
(* While the modulus fits an int, the int variables q, x0 and x1 of the    *)
(* INVMOD loop never overflow in a way that reaches a coefficient.         *)
(***************************************************************************)
THEOREM IntsSuffice == Spec => []NoIntOverflow
  <1>1. IInv => NoIntOverflow
    <2> SUFFICES ASSUME IInv, pc = "loop", modulus \in 1 .. MaxInt, InvmodRunning(loop),
                        loop.val_b # 0
                 PROVE  LET q == loop.val_a \div loop.val_b
                        IN  /\ loop.x0 # 0 => q <= MaxInt
                            /\ q * loop.x0 \in -MaxInt .. MaxInt
                            /\ loop.x1 - q * loop.x0 \in -MaxInt .. MaxInt
      BY DEF NoIntOverflow
    <2> DEFINE q == loop.val_a \div loop.val_b
    <2> HIDE DEF q
    <2>1. LoopState(loop) /\ value \in Word /\ EuclidInv(loop, value, modulus)
      BY LoopTypes DEF IInv, TypeOK, LoopInv
    <2>2. /\ q \in Nat
          /\ loop.x0 # 0 => q <= modulus
          /\ q * loop.x0 \in -modulus .. modulus
          /\ loop.x1 - q * loop.x0 \in -modulus .. modulus
      BY <2>1, StepIsExact DEF q
    <2>3. /\ loop.x0 # 0 => q <= MaxInt
          /\ q * loop.x0 \in -MaxInt .. MaxInt
          /\ loop.x1 - q * loop.x0 \in -MaxInt .. MaxInt
      BY <2>2, SizeFacts, SMT
    <2> QED
      BY <2>3 DEF q
  <1> QED
    BY <1>1, ChainInvariance, PTL

(***************************************************************************)
(* For every modulus that fits an int, INVMOD stores the reduced inverse   *)
(* of a value other than 0, and the division of its loop traps only on a   *)
(* value that has no inverse.                                              *)
(***************************************************************************)
THEOREM InverseIsStored == Spec => []StoresInverse
  <1>1. IInv => StoresInverse
    BY DEF IInv
  <1> QED
    BY <1>1, ChainInvariance, PTL

(***************************************************************************)
(* A chain of ADDMOD, SUBMOD, MULMOD and INVMOD, each used below its       *)
(* bound, leaves the exact residue in memory: the bounds are sufficient    *)
(* for every width of the word and of the int.                             *)
(***************************************************************************)
THEOREM ChainsAreExact == Spec => []AccIsExact
  <1>1. IInv => AccIsExact
    BY DEF IInv
  <1> QED
    BY <1>1, ChainInvariance, PTL

-----------------------------------------------------------------------------
(* INVMOD as a function.  The recursion of InvmodWhile is well defined     *)
(* because val_b decreases in every iteration.                             *)

LEMMA IterationDecreases ==
    ASSUME NEW s \in InvmodState, InvmodGoes(s)
    PROVE  /\ InvmodStep(s) \in InvmodState
           /\ s.val_b \in Nat /\ InvmodStep(s).val_b \in Nat
           /\ InvmodStep(s).val_b < s.val_b
  <1>1. /\ s.val_a \in Word /\ s.val_b \in Word /\ s.x0 \in Int /\ s.x1 \in Int
        /\ s.val_a \in Nat /\ s.val_b \in Nat
    BY WordConversions DEF InvmodState
  <1>2. s.val_b # 0
    BY DEF InvmodGoes, InvmodTrapped
  <1>3. s.val_a % s.val_b \in Word /\ s.val_a % s.val_b < s.val_b /\ s.val_a % s.val_b \in Nat
    BY <1>1, <1>2, SizeFacts, SMT DEF Word
  <1>4. s.val_a \div s.val_b \in Int
    BY <1>1, <1>2, SMT
  <1>5. \A x \in Int : ToInt(x) \in Int
    BY IntFacts, SizeFacts, SMT
  <1>6. ToInt(s.val_a \div s.val_b) * s.x0 \in Int
    BY <1>1, <1>4, <1>5, SMT
  <1>7. ToInt(s.x1 - ToInt(ToInt(s.val_a \div s.val_b) * s.x0)) \in Int
    BY <1>1, <1>5, <1>6, SMT
  <1>8. ToWord(ToInt(s.val_b)) \in Word
    BY <1>1, <1>5, WordConversions
  <1> QED
    BY <1>1, <1>3, <1>7, <1>8 DEF InvmodStep, InvmodState

\* The states whose val_b is below n.
Below(n) == {s \in InvmodState : s.val_b < n}

\* f satisfies the equation of InvmodWhile on the states S.
Unrolls(f, S) == f = [s \in S |-> IF InvmodGoes(s) THEN f[InvmodStep(s)] ELSE s]

LEMMA WhileIsDefined == Unrolls(InvmodWhile, InvmodState)
  <1> DEFINE T == {n \in Nat : \E f : Unrolls(f, Below(n))}
  <1>1. 0 \in T
    <2>1. Below(0) = {}
      BY SMT DEF Below, InvmodState, Word
    <2>2. Unrolls([s \in {} |-> s], {})
      BY DEF Unrolls
    <2> QED
      BY <2>1, <2>2
  <1>2. ASSUME NEW n \in Nat, n \in T PROVE n + 1 \in T
    <2>1. PICK f : Unrolls(f, Below(n))
      BY <1>2
    <2> DEFINE g == [s \in Below(n + 1) |-> IF InvmodGoes(s) THEN f[InvmodStep(s)] ELSE s]
    <2>2. ASSUME NEW s \in Below(n + 1), InvmodGoes(s)
          PROVE  InvmodStep(s) \in Below(n) /\ InvmodStep(s) \in Below(n + 1)
      <3>1. s \in InvmodState /\ s.val_b < n + 1
        BY DEF Below
      <3>2. /\ InvmodStep(s) \in InvmodState /\ s.val_b \in Nat
            /\ InvmodStep(s).val_b \in Nat /\ InvmodStep(s).val_b < s.val_b
        BY <2>2, <3>1, IterationDecreases
      <3>3. InvmodStep(s).val_b < n /\ InvmodStep(s).val_b < n + 1
        BY <3>1, <3>2, SMT
      <3> QED
        BY <3>2, <3>3 DEF Below
    <2>3. \A t \in Below(n) : f[t] = IF InvmodGoes(t) THEN f[InvmodStep(t)] ELSE t
      <3> HIDE DEF g
      <3> QED
        BY <2>1 DEF Unrolls
    <2>4. \A s \in Below(n + 1) : InvmodGoes(s) => g[InvmodStep(s)] = f[InvmodStep(s)]
      BY <2>2, <2>3
    <2>5. Unrolls(g, Below(n + 1))
      BY <2>4 DEF Unrolls
    <2> QED
      BY <2>5
  <1>3. WordSize \in T
    <2>1. WordSize \in Nat /\ WordSize \in 0 .. WordSize
      BY SizeFacts, SMT
    <2> HIDE DEF T
    <2>2. \A i \in 0 .. (WordSize - 1) : i \in T => i + 1 \in T
      BY <1>2, SMT
    <2>3. 0 .. WordSize \subseteq T
      BY <1>1, <2>1, <2>2, UpToInduction
    <2> QED
      BY <2>1, <2>3
  <1>4. Below(WordSize) = InvmodState
    <2>1. \A s \in InvmodState : s.val_b \in Word
      BY DEF InvmodState
    <2>2. \A s \in InvmodState : s.val_b < WordSize
      BY <2>1, SizeFacts, SMT DEF Word
    <2> QED
      BY <2>2 DEF Below
  <1>5. PICK g : Unrolls(g, InvmodState)
    BY <1>3, <1>4
  <1>6. InvmodWhile = CHOOSE f : Unrolls(f, InvmodState)
    BY DEF InvmodWhile, Unrolls
  <1> QED
    BY <1>5, <1>6

LEMMA WhileUnrolls ==
    ASSUME NEW s \in InvmodState
    PROVE  InvmodWhile[s] = IF InvmodGoes(s) THEN InvmodWhile[InvmodStep(s)] ELSE s
  BY WhileIsDefined DEF Unrolls

LEMMA StartInState == \A v, m \in Word : InvmodStart(v, m) \in InvmodState
  BY DEF InvmodStart, InvmodState

(***************************************************************************)
(* Invmod, the form of the INVMOD branch that the controller's action      *)
(* uses, for every width: under a modulus that fits an int it returns the  *)
(* reduced inverse of every value but 0, or the host traps, and then the   *)
(* value and the modulus share a factor.                                   *)
(***************************************************************************)
THEOREM InvmodIsInverse ==
    ASSUME NEW v \in Word \ {0}, NEW m \in Word, m \in 2 .. MaxInt
    PROVE  IF Traps("INVMOD", v, m, 0)
           THEN ~Coprime(v, m)
           ELSE Invmod(v, m) \in 1 .. (m - 1) /\ (Invmod(v, m) * v) % m = 1
  <1> DEFINE Good(s) == s \in InvmodState /\ LoopState(s) /\ EuclidInv(s, v, m)
             Ends(s) == Good(InvmodWhile[s]) /\ ~InvmodGoes(InvmodWhile[s])
  <1> HIDE DEF Good, Ends
  <1>1. m \in 1 .. MaxInt /\ m # 0 /\ m # 1 /\ v \in Word
    BY SizeFacts, SMT
  <1>2. ASSUME NEW s, Good(s), InvmodGoes(s)
        PROVE  Good(InvmodStep(s)) /\ InvmodWhile[s] = InvmodWhile[InvmodStep(s)]
    <2>1. /\ s \in InvmodState /\ LoopState(s) /\ EuclidInv(s, v, m)
          /\ InvmodRunning(s) /\ s.val_b # 0
      BY <1>2 DEF Good, InvmodGoes, InvmodTrapped
    <2>2. InvmodStep(s) \in InvmodState
      BY <1>2, <2>1, IterationDecreases
    <2>3. LoopState(InvmodStep(s)) /\ EuclidInv(InvmodStep(s), v, m)
      BY <1>1, <2>1, StepIsState, StepKeepsEuclid
    <2>4. InvmodWhile[s] = InvmodWhile[InvmodStep(s)]
      BY <1>2, <2>1, WhileUnrolls
    <2> QED
      BY <2>2, <2>3, <2>4 DEF Good
  <1>3. \A s : Good(s) => Ends(s)
    <2> DEFINE Bad(n) == \E s : Good(s) /\ ~Ends(s) /\ s.val_b = n
               T == {n \in Nat : Bad(n)}
    <2> SUFFICES ASSUME NEW s, Good(s), ~Ends(s) PROVE FALSE
      OBVIOUS
    <2>1. s.val_b \in T
      BY WordConversions DEF Good, InvmodState
    <2>2. T \in SUBSET Nat /\ T # {}
      BY <2>1
    <2>3. PICK n \in T : \A k \in T : n <= k
      <3> HIDE DEF T
      <3> QED
        BY <2>2, NatMinimum
    <2>4. PICK t : Good(t) /\ ~Ends(t) /\ t.val_b = n
      BY <2>3
    <2>5. InvmodGoes(t)
      <3> SUFFICES ASSUME ~InvmodGoes(t) PROVE FALSE
        OBVIOUS
      <3>1. t \in InvmodState
        BY <2>4 DEF Good
      <3>2. InvmodWhile[t] = t
        BY <3>1, WhileUnrolls
      <3> QED
        BY <2>4, <3>2 DEF Ends
    <2>6. /\ Good(InvmodStep(t)) /\ InvmodWhile[t] = InvmodWhile[InvmodStep(t)]
          /\ InvmodStep(t).val_b \in Nat /\ InvmodStep(t).val_b < n /\ n \in Nat
      BY <1>2, <2>4, <2>5, IterationDecreases DEF Good
    <2>7. ~Ends(InvmodStep(t))
      BY <2>4, <2>6 DEF Ends
    <2>8. InvmodStep(t).val_b \in T
      BY <2>6, <2>7
    <2>9. n <= InvmodStep(t).val_b
      BY <2>3, <2>8
    <2> QED
      BY <2>6, <2>9, SMT
  <1> DEFINE e == InvmodEnd(v, m)
  <1>4. Good(e) /\ ~InvmodGoes(e)
    <2>1. Good(InvmodStart(v, m))
      BY <1>1, StartInState, StartIsState, StartIsEuclid DEF Good
    <2> QED
      BY <1>3, <2>1 DEF Ends, InvmodEnd
  <1> HIDE DEF e
  <1>5. CASE InvmodTrapped(e)
    <2>1. Traps("INVMOD", v, m, 0)
      BY <1>1, <1>5 DEF Traps, e
    <2>2. ~Coprime(v, m)
      BY <1>1, <1>4, <1>5, TrapMeansFactor DEF Good
    <2> QED
      BY <2>1, <2>2
  <1>6. CASE ~InvmodTrapped(e)
    <2>1. ~Traps("INVMOD", v, m, 0)
      BY <1>6 DEF Traps, e
    <2>2. Invmod(v, m) = InvmodResult(e, m)
      BY <1>1 DEF Invmod, e
    <2>3. ~InvmodRunning(e)
      BY <1>4, <1>6 DEF InvmodGoes
    <2>4. InvmodResult(e, m) \in 1 .. (m - 1) /\ (InvmodResult(e, m) * v) % m = 1
      BY <1>1, <1>4, <2>3, ResultIsInverse DEF Good
    <2> QED
      BY <2>1, <2>2, <2>4
  <1> QED
    BY <1>5, <1>6

(***************************************************************************)
(* Every iteration of the loop decreases val_b, a natural number: the      *)
(* measure behind Terminates, for every pair of words.                     *)
(***************************************************************************)
THEOREM LoopShrinks ==
    Spec => [][Iterate => loop'.val_b \in Nat /\ loop'.val_b < loop.val_b]_vars
  <1>1. ASSUME IInv, [Next]_vars
        PROVE  [Iterate => loop'.val_b \in Nat /\ loop'.val_b < loop.val_b]_vars
    <2> SUFFICES ASSUME Iterate PROVE loop'.val_b \in Nat /\ loop'.val_b < loop.val_b
      OBVIOUS
    <2>1. loop.val_a \in Nat /\ loop.val_b \in Nat \ {0}
      BY <1>1, LoopTypes, WordConversions
      DEF IInv, TypeOK, LoopState, Iterate, InvmodTrapped
    <2>2. loop'.val_b = loop.val_a % loop.val_b
      BY DEF Iterate, InvmodStep
    <2> QED
      BY <2>1, <2>2, SMT
  <1> QED
    BY <1>1, ChainInvariance, PTL DEF Spec

LEMMA WhileEndsInState ==
    ASSUME NEW s \in InvmodState
    PROVE  InvmodWhile[s] \in InvmodState
  <1> DEFINE Bad(n) == \E t \in InvmodState : InvmodWhile[t] \notin InvmodState /\ t.val_b = n
             T == {n \in Nat : Bad(n)}
  <1> SUFFICES ASSUME InvmodWhile[s] \notin InvmodState PROVE FALSE
    OBVIOUS
  <1>1. s.val_b \in T
    BY WordConversions DEF InvmodState
  <1>2. T \in SUBSET Nat /\ T # {}
    BY <1>1
  <1>3. PICK n \in T : \A k \in T : n <= k
    <2> HIDE DEF T
    <2> QED
      BY <1>2, NatMinimum
  <1>4. PICK t \in InvmodState : InvmodWhile[t] \notin InvmodState /\ t.val_b = n
    BY <1>3
  <1>5. InvmodGoes(t) /\ InvmodWhile[t] = InvmodWhile[InvmodStep(t)]
    BY <1>4, WhileUnrolls
  <1>6. /\ InvmodStep(t) \in InvmodState /\ InvmodStep(t).val_b \in Nat
        /\ InvmodStep(t).val_b < n /\ n \in Nat
    BY <1>4, <1>5, IterationDecreases
  <1>7. InvmodStep(t).val_b \in T
    BY <1>4, <1>5, <1>6
  <1>8. n <= InvmodStep(t).val_b
    BY <1>3, <1>7
  <1> QED
    BY <1>6, <1>8, SMT

(***************************************************************************)
(* Every operation on words that does not trap results in a word, so the   *)
(* uint64_t the controller stores always exists: the choice of `result` in *)
(* the controller's action never disables it.                              *)
(***************************************************************************)
THEOREM ResultIsWord ==
    ASSUME NEW op \in Ops, NEW a \in Word, NEW b \in Word, NEW c \in Word, ~Traps(op, a, b, c)
    PROVE  Result(op, a, b, c) \in Word
  <1>0. a \in Int /\ b \in Int /\ c \in Int /\ 0 \in Word /\ 1 \in Word
    BY SizeFacts, SMT DEF Word
  <1>1. \A x \in Int, d \in Word \ {0} : x % d \in Word
    <2> SUFFICES ASSUME NEW x \in Int, NEW d \in Word \ {0} PROVE x % d \in Word
      OBVIOUS
    <2>1. d \in Nat \ {0}
      BY SMT DEF Word
    <2>2. x % d \in 0 .. (d - 1)
      BY <2>1, DivMod, Zenon
    <2> QED
      BY <2>1, <2>2, SizeFacts, SMT DEF Word
  <1>2. a + b \in Int /\ a * b \in Int
    BY <1>0, SMT
  <1>3. ToWord(a + b) \in Int /\ ToWord(a * b) \in Int /\ ToWord(a * b) \in Word
    <2>1. ToWord(a + b) \in Word /\ ToWord(a * b) \in Word
      BY <1>2, WordConversions, Zenon
    <2> QED
      BY <2>1, SMT DEF Word
  <1>4. CASE op = "ADDMOD"
    BY <1>1, <1>3, <1>4 DEF Traps, Result, Addmod
  <1>5. CASE op = "MULMOD"
    BY <1>1, <1>3, <1>5 DEF Traps, Result, Mulmod
  <1>6. CASE op = "MULIMC"
    BY <1>3, <1>6 DEF Result, Mulimc
  <1>7. CASE op = "CMPIMC"
    BY <1>0, <1>7 DEF Result, Cmpimc
  <1>8. CASE op = "SUBMOD"
    <2>1. c # 0
      BY <1>8 DEF Traps
    <2>2. \A x \in Int : ToInt64(x) \in Int
      BY WordSizeAssumption, SMT DEF ToInt64, ToSigned
    <2>3. ToInt64(c) # 0
      BY <2>1, WordSizeAssumption, SMT DEF ToInt64, ToSigned, Word
    <2>4. \A x, y \in Int : y # 0 => CRem(x, y) \in Int
      <3> SUFFICES ASSUME NEW x \in Int, NEW y \in Int, y # 0 PROVE CRem(x, y) \in Int
        OBVIOUS
      <3> DEFINE d == IF y < 0 THEN -y ELSE y
      <3>1. d \in Nat \ {0} /\ -x \in Int
        BY SMT
      <3> HIDE DEF d
      <3>2. (-x) % d \in 0 .. (d - 1) /\ x % d \in 0 .. (d - 1)
        BY <3>1, DivMod, Zenon
      <3>3. -((-x) % d) \in Int /\ x % d \in Int
        BY <3>1, <3>2, SMT
      <3> QED
        BY <3>3 DEF CRem, d
    <2>5. SubmodDiff(a, b) \in Int
      <3>1. ToInt64(a) \in Int /\ ToInt64(b) \in Int
        BY <1>0, <2>2
      <3>2. ToInt64(a) - ToInt64(b) \in Int
        BY <3>1
      <3> QED
        BY <2>2, <3>2 DEF SubmodDiff
    <2> DEFINE n == ToInt64(c)
               rem == CRem(SubmodDiff(a, b), n)
    <2>6. n \in Int /\ n # 0
      BY <1>0, <2>2, <2>3
    <2> HIDE DEF n
    <2>7. rem \in Int
      BY <2>4, <2>5, <2>6
    <2> HIDE DEF rem
    <2>8. rem + n \in Int
      BY <2>6, <2>7
    <2>9. CRem(ToInt64(rem + n), n) \in Int
      BY <2>2, <2>4, <2>6, <2>8
    <2>10. ToWord(CRem(ToInt64(rem + n), n)) \in Word
      BY <2>9, WordConversions
    <2> QED
      BY <1>8, <2>10 DEF Result, Submod, rem, n
  <1>9. CASE op = "INVMOD"
    <2> DEFINE e == InvmodEnd(a, b)
    <2>1. e \in InvmodState
      BY StartInState, WhileEndsInState DEF InvmodEnd
    <2> HIDE DEF e
    <2>2. e.x1 \in Int
      BY <2>1 DEF InvmodState
    <2>3. \A x \in Int : ToInt(x) \in Int
      BY IntFacts, SizeFacts, SMT
    <2>4. ToInt(e.x1 + ToInt(b)) \in Int
      BY <1>0, <2>2, <2>3, SMT
    <2>5. InvmodResult(e, b) \in Word
      BY <2>2, <2>4, WordConversions DEF InvmodResult
    <2> QED
      BY <1>0, <1>9, <2>5 DEF Result, Invmod, e
  <1> QED
    BY <1>4, <1>5, <1>6, <1>7, <1>8, <1>9 DEF Ops, Ops2, Ops3
=============================================================================
