----------------------------- MODULE MCVirtMem -----------------------------
(* Instances of VirtMem for TLC. *)
EXTENDS VirtMem

\* What malloc() returns: memory the kernel has just zeroed, numbers that are no
\* page and no frame, or both
ZeroBits == {NONE}
IllegalInts == {NPages}
AnyInts == {0, NPages}

=============================================================================
