-------------------------- MODULE MCAbstractMemory --------------------------
(* AbstractMemory alone: contexts issue the commands of the .cfg. *)
EXTENDS AbstractMemory
=============================================================================
