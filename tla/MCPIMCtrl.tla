----------------------------- MODULE MCPIMCtrl ------------------------------
(* The controller alone, with a peer that does whatever the port protocol *)
(* allows. *)
EXTENDS PIMCtrl

\* The identities of packets and contexts are interchangeable.
Symmetry == Permutations(Pkt) \cup Permutations(Ctx)
=============================================================================
