----------------------------- MODULE FlatMemory -----------------------------
(***************************************************************************)
(* What project5 promises to the programs of program.c: virtmem behaves    *)
(* like one plain array.  An access is issued, takes effect once, and a    *)
(* read returns the last value written to its page.  A page's 4096 bytes   *)
(* are abstracted to one value.                                            *)
(***************************************************************************)
CONSTANTS
    Pages,      \* the pages of the array
    Values      \* the contents a page can have

VARIABLES
    mem,        \* the array
    access,     \* the access in progress, or Idle
    reg         \* the value the last read returned

vars == <<mem, access, reg>>

Idle == [op |-> "idle"]
Accesses == [op : {"read", "write"}, page : Pages, val : Values]

Init ==
    /\ mem \in [Pages -> Values]
    /\ access = Idle
    /\ reg \in Values

Issue ==
    /\ access = Idle
    /\ access' \in Accesses
    /\ UNCHANGED <<mem, reg>>

Read ==
    /\ access # Idle
    /\ access.op = "read"
    /\ reg' = mem[access.page]
    /\ access' = Idle
    /\ UNCHANGED mem

Write ==
    /\ access # Idle
    /\ access.op = "write"
    /\ mem' = [mem EXCEPT ![access.page] = access.val]
    /\ access' = Idle
    /\ UNCHANGED reg

Next == Issue \/ Read \/ Write

SafeSpec == Init /\ [][Next]_vars
Fairness == WF_vars(Read \/ Write)
Spec == SafeSpec /\ Fairness

=============================================================================
