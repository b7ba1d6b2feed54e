---------------------------- MODULE ResidueChain ----------------------------
(***************************************************************************)
(* A program that keeps a residue in memory and drives it through the IMC  *)
(* modular operations, as the point arithmetic of tests/ECDSATestPIM.c     *)
(* does.  `acc` is the word the controller computes, `exact` the residue   *)
(* that arithmetic modulo `modulus` gives.  Every operation has a largest  *)
(* modulus up to which its machine arithmetic is exact; the program adds,  *)
(* subtracts and multiplies residues only below that bound.  It inverts    *)
(* any word under any modulus, in the steps of InvmodLoop, and the exact   *)
(* residue is lost when there is none to compare with.                     *)
(***************************************************************************)
EXTENDS InvmodLoop

VARIABLES acc, exact

vars == <<value, modulus, loop, pc, result, acc, exact>>

NoResidue == -1

Residues(n) == 0 .. (n - 1)

(***************************************************************************)
(* The bounds: the sum of two residues fits a uint64_t; the sum of the     *)
(* modulus and a remainder fits an int64_t (it is the correction of the    *)
(* sign that overflows first); the product of two residues fits a          *)
(* uint64_t; the modulus fits an int.                                      *)
(***************************************************************************)
AddmodBound(n) == 2 * (n - 1) < WordSize
SubmodBound(n) == 2 * n <= WordSize \div 2
MulmodBound(n) == (n - 1) * (n - 1) < WordSize
InvmodBound(n) == n < IntSize \div 2

Invertible(x, n) == \E y \in Residues(n) : (x * y) % n = 1

Init ==
    /\ LoopInit
    /\ acc \in Word
    /\ exact = IF acc < modulus THEN acc ELSE NoResidue

\* The program runs: no inversion is under way, and acc is a residue.
HasResidue == pc = "idle" /\ exact # NoResidue

Add(b) ==
    /\ HasResidue /\ AddmodBound(modulus)
    /\ acc' = Addmod(acc, b, modulus)
    /\ exact' = (exact + b) % modulus
    /\ UNCHANGED loopVars

Sub(b) ==
    /\ HasResidue /\ SubmodBound(modulus)
    /\ acc' = Submod(acc, b, modulus)
    /\ exact' = (exact - b) % modulus
    /\ UNCHANGED loopVars

Mul(b) ==
    /\ HasResidue /\ MulmodBound(modulus)
    /\ acc' = Mulmod(acc, b, modulus)
    /\ exact' = (exact * b) % modulus
    /\ UNCHANGED loopVars

\* invmod(acc, modulus, acc): the controller reads the word ...
Inv ==
    /\ Enter(acc)
    /\ UNCHANGED <<acc, exact>>

\* ... computes ...
Invert == LoopNext /\ UNCHANGED <<acc, exact>>

\* ... and stores over it.
Inverted ==
    /\ Leave
    /\ acc' = result
    /\ exact' = IF exact # NoResidue /\ InvmodBound(modulus) /\ Invertible(exact, modulus)
                THEN CHOOSE y \in Residues(modulus) : (exact * y) % modulus = 1
                ELSE NoResidue

Next ==
    \/ \E b \in Residues(modulus) : Add(b) \/ Sub(b) \/ Mul(b)
    \/ Inv \/ Invert \/ Inverted

\* The branch is straight-line host code: nothing can stop it half way.
Spec == Init /\ [][Next]_vars /\ WF_vars(Invert)

-----------------------------------------------------------------------------
TypeOK ==
    /\ LoopTypeOK
    /\ acc \in Word
    /\ exact \in Residues(modulus) \cup {NoResidue}

(***************************************************************************)
(* However the operations are chained, the word in memory is the exact     *)
(* residue: no wrap-around, sign or truncation of an intermediate value    *)
(* shows, and every operation leaves a residue the next one may use.       *)
(***************************************************************************)
AccIsExact == exact # NoResidue => acc = exact

\* The branch inverts the word the program keeps.
InvertsAcc == pc # "idle" => value = acc

\* The inductive invariant.
IInv == TypeOK /\ LoopInv /\ StoresInverse /\ AccIsExact /\ InvertsAcc
=============================================================================
