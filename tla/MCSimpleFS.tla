----------------------------- MODULE MCSimpleFS -----------------------------
(* Instances of SimpleFS for TLC: two cells to a block, three direct blocks, *)
(* a buffer of two blocks, two usable inodes.                                *)
EXTENDS SimpleFS
=============================================================================
