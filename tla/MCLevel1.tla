------------------------------ MODULE MCLevel1 ------------------------------
(* Instances of Level1 for TLC: p1 and p2 have the same hash, p3 only the   *)
(* same slot, p4 another one.                                               *)
EXTENDS Level1

CONSTANTS p1, p2, p3, p4

Payloads == [p \in Packets |-> CASE p = p1 -> 77 [] p = p2 -> 100
                                 [] p = p3 -> 2349 [] p = p4 -> 150]
Hashes == [p \in Packets |-> CASE p = p1 -> 0 [] p = p2 -> 0
                                 [] p = p3 -> 2 [] p = p4 -> 1]
=============================================================================
