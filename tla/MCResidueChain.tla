--------------------------- MODULE MCResidueChain ---------------------------
(* ResidueChain with 6-bit words and 5-bit ints: every modulus, every word. *)
EXTENDS ResidueChain
=============================================================================
