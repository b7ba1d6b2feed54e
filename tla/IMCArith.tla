------------------------------ MODULE IMCArith ------------------------------
(***************************************************************************)
(* The arithmetic the PIM memory controller performs on operand words      *)
(* (PIMCtrl::recvTimingReq, one branch per request flag).  The code uses   *)
(* uint64_t, int64_t and int; the model keeps the three types and makes    *)
(* their sizes parameters: WordSize values of a uint64_t and an int64_t,   *)
(* IntSize values of an int.                                               *)
(* Signed overflow is undefined in C++; the operands are loaded at run     *)
(* time, so the compiled code adds, subtracts and multiplies with wrap     *)
(* around, and that is the outcome modelled.  The two divisions the host   *)
(* traps on (a zero divisor, and the least int64_t divided by -1) are      *)
(* `Traps`: the simulator process dies.                                    *)
(***************************************************************************)
EXTENDS Words

CONSTANT IntSize

ASSUME IntSizeAssumption == IntSize \in Nat \ {0, 2} /\ IntSize % 2 = 0

\* Conversion to int.
ToInt(x) == ToSigned(x, IntSize)

-----------------------------------------------------------------------------
Addmod(a, b, c) == ToWord(a + b) % c

\* The difference is taken in int64_t and brought back to 0..c-1 by adding c.
SubmodDiff(a, b) == ToInt64(ToInt64(a) - ToInt64(b))

\* Faulty variant: the sign of the remainder is not corrected.
Submod_SignKept(a, b, c) == ToWord(CRem(SubmodDiff(a, b), ToInt64(c)))

Submod(a, b, c) ==
    LET n   == ToInt64(c)
        rem == CRem(SubmodDiff(a, b), n)
    IN  ToWord(CRem(ToInt64(rem + n), n))

Mulmod(a, b, c) == ToWord(a * b) % c

Mulimc(a, b) == ToWord(a * b)

Cmpimc(a, b) == IF a = b THEN 1 ELSE 0

-----------------------------------------------------------------------------
(***************************************************************************)
(* Invmod: the extended Euclid loop.  val_a and val_b are uint64_t; m0, t, *)
(* q, x0 and x1 are int.  A loop state is a record of the four variables   *)
(* that live across iterations.                                            *)
(***************************************************************************)
InvmodStart(a, m) == [val_a |-> a, val_b |-> m, x0 |-> 0, x1 |-> 1]

InvmodRunning(s) == s.val_a > 1

\* The division by val_b traps.
InvmodTrapped(s) == InvmodRunning(s) /\ s.val_b = 0

\* Faulty variants: the coefficients are updated in the wrong order; the
\* quotient is rounded up; val_b is not reduced.
InvmodStep_WrongOrder(s) ==
    [val_a |-> ToWord(ToInt(s.val_b)),
     val_b |-> s.val_a % s.val_b,
     x0    |-> ToInt(s.x1 - ToInt(ToInt(s.val_a \div s.val_b) * s.x0)),
     x1    |-> ToInt(s.x1 - ToInt(ToInt(s.val_a \div s.val_b) * s.x0))]

InvmodStep_RoundedUp(s) ==
    [val_a |-> ToWord(ToInt(s.val_b)),
     val_b |-> s.val_a % s.val_b,
     x0    |-> ToInt(s.x1 - ToInt(ToInt(1 + s.val_a \div s.val_b) * s.x0)),
     x1    |-> s.x0]

InvmodStep_NotReduced(s) ==
    [val_a |-> ToWord(ToInt(s.val_b)),
     val_b |-> s.val_b,
     x0    |-> ToInt(s.x1 - ToInt(ToInt(s.val_a \div s.val_b) * s.x0)),
     x1    |-> s.x0]

\* One iteration; val_b travels through the int t on its way to val_a.
InvmodStep(s) ==
    LET q == ToInt(s.val_a \div s.val_b)
        t == ToInt(s.val_b)
    IN  [val_a |-> ToWord(t),
         val_b |-> s.val_a % s.val_b,
         x0    |-> ToInt(s.x1 - ToInt(q * s.x0)),
         x1    |-> s.x0]

\* Faulty variants: a negative coefficient is stored without adding the
\* modulus; the store does not convert to the word's type.
InvmodResult_NotAdjusted(s, m) == ToWord(s.x1)

InvmodResult_NotConverted(s, m) ==
    IF s.x1 < 0 THEN ToInt(s.x1 + ToInt(m)) ELSE s.x1

\* What is stored when the loop ends: x1, made positive with the int m0.
InvmodResult(s, m) ==
    ToWord(IF s.x1 < 0 THEN ToInt(s.x1 + ToInt(m)) ELSE s.x1)

InvmodState == [val_a: Word, val_b: Word, x0: Int, x1: Int]

InvmodGoes(s) == InvmodRunning(s) /\ ~InvmodTrapped(s)

\* The loop, run from a state to the one in which it stops: its condition
\* is false or it traps.
InvmodWhile[s \in InvmodState] == IF InvmodGoes(s) THEN InvmodWhile[InvmodStep(s)] ELSE s

InvmodEnd(a, m) == InvmodWhile[InvmodStart(a, m)]

Invmod(a, m) == IF m = 1 THEN 0 ELSE InvmodResult(InvmodEnd(a, m), m)

-----------------------------------------------------------------------------
\* The operations a request flag selects, and their number of operand words.
Ops3 == {"ADDMOD", "SUBMOD", "MULMOD"}
Ops2 == {"MULIMC", "INVMOD", "CMPIMC"}
Ops  == Ops3 \cup Ops2

\* The host processor raises a trap instead of delivering a result.
Traps(op, a, b, c) ==
    CASE op \in {"ADDMOD", "MULMOD"} -> c = 0
      [] op = "SUBMOD" -> \/ c = 0
                          \/ ToInt64(c) = -1 /\ SubmodDiff(a, b) = MinInt64
      [] op = "INVMOD" -> b # 1 /\ InvmodTrapped(InvmodEnd(a, b))
      [] OTHER -> FALSE

\* The word stored at the destination by an operation that does not trap.
Result(op, a, b, c) ==
    CASE op = "ADDMOD" -> Addmod(a, b, c)
      [] op = "SUBMOD" -> Submod(a, b, c)
      [] op = "MULMOD" -> Mulmod(a, b, c)
      [] op = "MULIMC" -> Mulimc(a, b)
      [] op = "INVMOD" -> Invmod(a, b)
      [] op = "CMPIMC" -> Cmpimc(a, b)
=============================================================================
