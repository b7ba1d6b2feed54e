----------------------------- MODULE InvmodLoop -----------------------------
(***************************************************************************)
(* The INVMOD branch of PIMCtrl::recvTimingReq as a state machine: one     *)
(* step per iteration of its while loop, started on a pair of operand      *)
(* words.  The branch runs to completion inside one call, so the machine   *)
(* only adds the intermediate states, on which the loop invariant is       *)
(* stated.  ResidueChain composes it with the program that starts it.      *)
(***************************************************************************)
EXTENDS IMCArith

VARIABLES
    value,    \* the first operand word, as read
    modulus,  \* the second operand word, as read
    loop,     \* val_a, val_b, x0, x1
    pc,       \* "idle", "loop", "stored" or "trapped"
    result    \* the word stored at addr_c

loopVars == <<value, modulus, loop, pc, result>>

NoLoop == InvmodStart(0, 0)

LoopInit ==
    /\ value = 0
    /\ modulus \in Word
    /\ loop = NoLoop
    /\ pc = "idle"
    /\ result = 0

\* The branch is entered with v read at addr_a.
Enter(v) ==
    /\ pc = "idle"
    /\ value' = v
    /\ loop' = InvmodStart(v, modulus)
    /\ pc' = "loop"
    /\ UNCHANGED <<modulus, result>>

\* if (val_b == 1): the loop is not entered.
ModulusOne ==
    /\ pc = "loop" /\ modulus = 1
    /\ result' = 0
    /\ pc' = "stored"
    /\ UNCHANGED <<value, modulus, loop>>

Iterate ==
    /\ pc = "loop" /\ modulus # 1
    /\ InvmodRunning(loop) /\ ~InvmodTrapped(loop)
    /\ loop' = InvmodStep(loop)
    /\ UNCHANGED <<value, modulus, pc, result>>

Trap ==
    /\ pc = "loop" /\ modulus # 1
    /\ InvmodTrapped(loop)
    /\ pc' = "trapped"
    /\ UNCHANGED <<value, modulus, loop, result>>

Store ==
    /\ pc = "loop" /\ modulus # 1
    /\ ~InvmodRunning(loop)
    /\ result' = InvmodResult(loop, modulus)
    /\ pc' = "stored"
    /\ UNCHANGED <<value, modulus, loop>>

\* return true: the word is in memory, the next request may come.
Leave ==
    /\ pc = "stored"
    /\ value' = 0 /\ loop' = NoLoop /\ pc' = "idle" /\ result' = 0
    /\ UNCHANGED modulus

LoopNext == ModulusOne \/ Iterate \/ Trap \/ Store

-----------------------------------------------------------------------------
MaxInt == (IntSize \div 2) - 1

Divides(d, n) == n % d = 0

Coprime(x, y) ==
    \A d \in 2 .. (IF x > y THEN x ELSE y) : ~(Divides(d, x) /\ Divides(d, y))

\* The values the loop variables take.
LoopTypeOK ==
    /\ value \in Word /\ modulus \in Word /\ result \in Word
    /\ loop.val_a \in Word /\ loop.val_b \in Word
    /\ loop.x0 \in ToInt(IntSize \div 2) .. MaxInt
    /\ loop.x1 \in ToInt(IntSize \div 2) .. MaxInt
    /\ pc \in {"idle", "loop", "stored", "trapped"}

(***************************************************************************)
(* Loop invariant: while the modulus fits an int, val_a and val_b are the  *)
(* multiples x1 and x0 of the value, modulo the modulus, whatever the      *)
(* width of the value (the quotient of the first iteration may not fit the *)
(* int q, but x0 is 0 then).                                               *)
(***************************************************************************)
Bezout ==
    (pc # "idle" /\ modulus \in 1 .. MaxInt) =>
        /\ Divides(modulus, loop.val_a - loop.x1 * value)
        /\ Divides(modulus, loop.val_b - loop.x0 * value)

(***************************************************************************)
(* While the modulus fits an int, no int of the loop overflows: the exact  *)
(* quotient product and the exact new coefficient are representable in     *)
(* every iteration in which the product matters.                           *)
(***************************************************************************)
NoIntOverflow ==
    (pc = "loop" /\ modulus \in 1 .. MaxInt /\ InvmodRunning(loop) /\ loop.val_b # 0) =>
        LET q == loop.val_a \div loop.val_b
        IN  /\ loop.x0 # 0 => q <= MaxInt
            /\ q * loop.x0 \in -MaxInt .. MaxInt
            /\ loop.x1 - q * loop.x0 \in -MaxInt .. MaxInt

(***************************************************************************)
(* For every modulus that fits an int: what is stored is the inverse of    *)
(* the value, reduced, and the host traps only on values that have none,   *)
(* because they share a factor with the modulus.  (The value 0 is the      *)
(* exception: the loop is not entered and 1 is stored.)                    *)
(***************************************************************************)
StoresInverse ==
    modulus \in 2 .. MaxInt =>
        /\ (pc = "stored" /\ value # 0) => /\ result \in 1 .. (modulus - 1)
                                          /\ (result * value) % modulus = 1
        /\ (pc = "stored" /\ value = 0) => result = 1
        /\ pc = "trapped" => ~Coprime(value, modulus)

\* The loop ends for every pair of words, truncated moduli included: val_b
\* decreases in every iteration.
Terminates == pc = "loop" ~> pc # "loop"

-----------------------------------------------------------------------------
(***************************************************************************)
(* What an iteration keeps, for a modulus m that fits an int and the value *)
(* v: the Bezout relation of each row; coefficients of opposite signs      *)
(* whose magnitudes, weighted with the other row, add up to m, which is    *)
(* what bounds them; x1 within half the modulus; no common divisor of the  *)
(* rows that v and m do not have; and val_a positive unless the loop was   *)
(* not entered at all.                                                     *)
(***************************************************************************)
RowsAreMultiples(s, v, m) ==
    Divides(m, s.val_a - s.x1 * v) /\ Divides(m, s.val_b - s.x0 * v)

Balanced(s, m) ==
    \/ s.x1 >= 0 /\ s.x0 <= 0 /\ s.x1 * s.val_b - s.x0 * s.val_a = m
    \/ s.x1 <= 0 /\ s.x0 >= 0 /\ s.x0 * s.val_a - s.x1 * s.val_b = m

KeepsDivisors(s, v, m) ==
    \A d \in Word \ {0} :
        Divides(d, s.val_a) /\ Divides(d, s.val_b) => Divides(d, v) /\ Divides(d, m)

EuclidInv(s, v, m) ==
    /\ RowsAreMultiples(s, v, m)
    /\ Balanced(s, m)
    /\ KeepsDivisors(s, v, m)
    /\ s.val_b <= m
    /\ m >= 2 => -m <= 2 * s.x1 /\ 2 * s.x1 <= m
    /\ IF v = 0 THEN s = InvmodStart(0, m) ELSE s.val_a >= 1

LoopInv == (pc # "idle" /\ modulus \in 1 .. MaxInt) => EuclidInv(loop, value, modulus)
=============================================================================
