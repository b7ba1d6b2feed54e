------------------------------- MODULE Words --------------------------------
(***************************************************************************)
(* The machine integers of the simulator's code.  WordSize is the number   *)
(* of values of a uint64_t, the word the IMC operations read and write;    *)
(* the code's 2^64 becomes a small even number in the TLC instances.       *)
(***************************************************************************)
EXTENDS Integers

CONSTANT WordSize

ASSUME WordSizeAssumption == WordSize \in Nat \ {0} /\ WordSize % 2 = 0

\* The values of a uint64_t: what a memory word holds.
Word == 0 .. (WordSize - 1)

\* Conversion to uint64_t.
ToWord(x) == x % WordSize

\* Conversion to the signed type that has `size` values.
ToSigned(x, size) ==
    LET u == x % size IN IF u < size \div 2 THEN u ELSE u - size

ToInt64(x) == ToSigned(x, WordSize)

MinInt64 == -(WordSize \div 2)

\* The % of C++: the remainder takes the sign of the dividend.
CRem(x, y) ==
    LET d == IF y < 0 THEN -y ELSE y
    IN  IF x < 0 THEN -((-x) % d) ELSE x % d
=============================================================================
