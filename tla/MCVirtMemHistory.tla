-------------------------- MODULE MCVirtMemHistory --------------------------
(* Instances of VirtMemHistory for TLC, with the constants of MCVirtMem. *)
EXTENDS VirtMemHistory, MCVirtMem
=============================================================================
