--------------------------- MODULE MCPacketQueue ---------------------------
(* Instances of PacketQueue for TLC. *)
EXTENDS PacketQueue, TLC

CONSTANTS p1, p2

\* The smallest and the largest payload
ShortAndLong == (p1 :> 77) @@ (p2 :> 2349)
=============================================================================
