------------------------------- MODULE MCXBar -------------------------------
(* One layer with a few source ports. *)
EXTENDS XBar
=============================================================================
