----------------------------- MODULE WorkQueue -----------------------------
(***************************************************************************)
(* What project4 promises about its packets: every packet the producer     *)
(* puts in is handed to exactly one consumer, in order, and a consumer     *)
(* leaves only when there is nothing left and nothing more to come.        *)
(***************************************************************************)
EXTENDS Sequences

CONSTANTS
    Packets,
    Consumers,
    None        \* no packet

VARIABLES
    queue,      \* packets nobody has taken
    hand,       \* the packet each consumer works on, or None
    closed,     \* the producer has finished
    gone        \* the consumers that have left

vars == <<queue, hand, closed, gone>>

Init ==
    /\ queue = <<>>
    /\ hand = [c \in Consumers |-> None]
    /\ closed = FALSE
    /\ gone = {}

Put(p) ==
    /\ ~closed
    /\ queue' = Append(queue, p)
    /\ UNCHANGED <<hand, closed, gone>>

Close ==
    /\ ~closed
    /\ closed' = TRUE
    /\ UNCHANGED <<queue, hand, gone>>

Take(c) ==
    /\ c \notin gone
    /\ hand[c] = None
    /\ queue # <<>>
    /\ hand' = [hand EXCEPT ![c] = Head(queue)]
    /\ queue' = Tail(queue)
    /\ UNCHANGED <<closed, gone>>

Finish(c) ==
    /\ hand[c] # None
    /\ hand' = [hand EXCEPT ![c] = None]
    /\ UNCHANGED <<queue, closed, gone>>

Leave(c) ==
    /\ closed
    /\ queue = <<>>
    /\ hand[c] = None
    /\ gone' = gone \cup {c}
    /\ UNCHANGED <<queue, hand, closed>>

Next ==
    \/ \E p \in Packets : Put(p)
    \/ Close
    \/ \E c \in Consumers : Take(c) \/ Finish(c) \/ Leave(c)

SafeSpec == Init /\ [][Next]_vars

\* A packet is neither left in the queue nor worked on for ever.  That idle
\* consumers leave is not promised.
Spec ==
    /\ SafeSpec
    /\ WF_vars(Close)
    /\ WF_vars(\E c \in Consumers : Take(c))
    /\ \A c \in Consumers : WF_vars(Finish(c))

=============================================================================
