--------------------------- MODULE MCPacketQueue ----------------------------
(* A packet queue with a peer that does whatever the port protocol allows: *)
(* a list that can reach the limit, and packets of equal and other ticks.  *)
EXTENDS PacketQueue
=============================================================================
