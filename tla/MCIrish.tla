------------------------------ MODULE MCIrish ------------------------------
(* Instances of Irish for TLC. *)
EXTENDS Irish

TwoPids == 1 .. 2
=============================================================================
