---------------------------- MODULE PacketQueue ----------------------------
(***************************************************************************)
(* The producer/consumer queue of project4/threadedRE.cpp: the deque, its  *)
(* mutex and condition variable, the DONE flag, and the threads that main  *)
(* creates and joins.  What a consumer does with a packet is one step,     *)
(* Process; Level1 and Level2 refine it.                                   *)
(***************************************************************************)
EXTENDS Integers, Sequences, FiniteSets

CONSTANTS
    Packets,        \* the payloads the producer finds in its files
    Length,         \* the length of each payload
    Consumers,      \* the consumer threads
    None,           \* no packet, no thread
    MaxPackets,     \* bound: packets in the files
    MaxSpurious     \* bound: wakeups of pthread_cond_wait() without a signal

ASSUME PacketQueueAssumption ==
    /\ Length \in [Packets -> Nat]
    /\ Consumers # {}           \* main() makes numThreads at least 2
    /\ None \notin Packets
    /\ None \notin Consumers
    /\ MaxPackets \in Nat
    /\ MaxSpurious \in Nat

\* There are numThreads - 1 consumers, and payloads fill arrays of MAX_PACKET bytes.
ASSUME FiniteAssumption == IsFiniteSet(Consumers) /\ IsFiniteSet(Packets)

HEADER == 51    \* a payload is its packet without the first 51 bytes

VARIABLES
    deque,          \* packets
    DONE,
    owner,          \* the consumer holding dequeMutex, or None
    reading,        \* where the producer is
    packetData,     \* the packet the producer is about to push, or None
    numPackets,
    dataProcessed,
    pc,             \* where each consumer is
    hand,           \* the local copy of the packet each consumer works on
    spurious,       \* spurious wakeups so far
    exited          \* main() has joined every thread

producerVars == <<reading, packetData, numPackets, dataProcessed>>
vars == <<deque, DONE, owner, producerVars, pc, hand, spurious, exited>>

Init ==
    /\ deque = <<>>
    /\ DONE = FALSE
    /\ owner = None
    /\ reading = "read"
    /\ packetData = None
    /\ numPackets = 0
    /\ dataProcessed = 0
    /\ pc = [c \in Consumers |-> "lock"]
    /\ hand = [c \in Consumers |-> None]
    /\ spurious = 0
    /\ exited = FALSE

-----------------------------------------------------------------------------
(* The producer *)

\* fread() delivers the next packet of an accepted size.
ReadPacket ==
    /\ reading = "read"
    /\ numPackets < MaxPackets
    /\ \E p \in Packets :
         /\ packetData' = p
         /\ dataProcessed' = dataProcessed + Length[p] + HEADER
    /\ numPackets' = numPackets + 1
    /\ reading' = "push"
    /\ UNCHANGED <<deque, DONE, owner, pc, hand, spurious, exited>>

\* Lock, push_back() and unlock: nobody else looks at the deque in between.
Push ==
    /\ reading = "push"
    /\ owner = None
    /\ deque' = Append(deque, packetData)
    /\ packetData' = None
    /\ reading' = "signal"
    /\ UNCHANGED <<DONE, owner, numPackets, dataProcessed, pc, hand, spurious,
                   exited>>

Waiting == {c \in Consumers : pc[c] = "waiting"}

\* Mutant: the producer does not signal.
SignalNobody ==
    /\ reading = "signal"
    /\ reading' = "read"
    /\ UNCHANGED <<deque, DONE, owner, packetData, numPackets, dataProcessed,
                   pc, hand, spurious, exited>>

\* pthread_cond_signal(), sent after the unlock, wakes a waiter if there is one.
Signal ==
    /\ reading = "signal"
    /\ \/ \E c \in Waiting : pc' = [pc EXCEPT ![c] = "lock"]
       \/ Waiting = {} /\ UNCHANGED pc
    /\ reading' = "read"
    /\ UNCHANGED <<deque, DONE, owner, packetData, numPackets, dataProcessed,
                   hand, spurious, exited>>

\* The files are read.  DONE is set without the mutex and nobody is signalled.
EndOfFiles ==
    /\ reading = "read"
    /\ DONE' = TRUE
    /\ reading' = "returned"
    /\ UNCHANGED <<deque, owner, packetData, numPackets, dataProcessed, pc, hand,
                   spurious, exited>>

-----------------------------------------------------------------------------
(* The consumers *)

Goto(c, from, to) == pc[c] = from /\ pc' = [pc EXCEPT ![c] = to]

\* pthread_mutex_lock(&dequeMutex), and the end of pthread_cond_wait()
Lock(c) ==
    /\ owner = None
    /\ owner' = c
    /\ Goto(c, "lock", "check")
    /\ UNCHANGED <<deque, DONE, producerVars, hand, spurious, exited>>

\* Mutant: the front is copied but not popped.
PopFrontKeeps(c) ==
    /\ deque # <<>>
    /\ hand' = [hand EXCEPT ![c] = Head(deque)]
    /\ owner' = None
    /\ Goto(c, "check", "process")
    /\ UNCHANGED <<deque, DONE, producerVars, spurious, exited>>

\* while (packets.empty()) is over: copy the front, pop it and unlock.
PopFront(c) ==
    /\ deque # <<>>
    /\ hand' = [hand EXCEPT ![c] = Head(deque)]
    /\ deque' = Tail(deque)
    /\ owner' = None
    /\ Goto(c, "check", "process")
    /\ UNCHANGED <<DONE, producerVars, spurious, exited>>

\* Mutant: DONE is tested before the deque.
FindAnything(c) ==
    /\ Goto(c, "check", "testDone")
    /\ UNCHANGED <<deque, DONE, owner, producerVars, hand, spurious, exited>>

FindEmpty(c) ==
    /\ deque = <<>>
    /\ Goto(c, "check", "testDone")
    /\ UNCHANGED <<deque, DONE, owner, producerVars, hand, spurious, exited>>

Return(c) ==
    /\ DONE
    /\ owner' = None
    /\ Goto(c, "testDone", "returned")
    /\ UNCHANGED <<deque, DONE, producerVars, hand, spurious, exited>>

DecideToWait(c) ==
    /\ ~DONE
    /\ Goto(c, "testDone", "wait")
    /\ UNCHANGED <<deque, DONE, owner, producerVars, hand, spurious, exited>>

\* pthread_cond_wait() starts to wait and unlocks in one step.
CondWait(c) ==
    /\ owner' = None
    /\ Goto(c, "wait", "waiting")
    /\ UNCHANGED <<deque, DONE, producerVars, hand, spurious, exited>>

SpuriousWakeup(c) ==
    /\ spurious < MaxSpurious
    /\ spurious' = spurious + 1
    /\ Goto(c, "waiting", "lock")
    /\ UNCHANGED <<deque, DONE, owner, producerVars, hand, exited>>

\* The consumer is done with its packet and starts its loop again.
Process(c) ==
    /\ Goto(c, "process", "lock")
    /\ hand' = [hand EXCEPT ![c] = None]
    /\ UNCHANGED <<deque, DONE, owner, producerVars, spurious, exited>>

-----------------------------------------------------------------------------
(* main() *)

\* Every pthread_join() has returned; main() prints the statistics and exits.
Exit ==
    /\ ~exited
    /\ reading = "returned"
    /\ \A c \in Consumers : pc[c] = "returned"
    /\ exited' = TRUE
    /\ UNCHANGED <<deque, DONE, owner, producerVars, pc, hand, spurious>>

Producer == ReadPacket \/ Push \/ Signal \/ EndOfFiles

\* A consumer's steps in the queue, without what it does with a packet
Consume(c) ==
    \/ Lock(c) \/ PopFront(c) \/ FindEmpty(c)
    \/ Return(c) \/ DecideToWait(c) \/ CondWait(c)

QueueNext ==
    \/ Producer
    \/ \E c \in Consumers : Consume(c) \/ SpuriousWakeup(c)
    \/ Exit

Next == QueueNext \/ \E c \in Consumers : Process(c)

SafeSpec == Init /\ [][Next]_vars

\* Each thread keeps running.  A mutex need not be fair: a consumer has
\* finitely many steps to take, so the others run out of work.
Spec ==
    /\ SafeSpec
    /\ WF_vars(Producer)
    /\ \A c \in Consumers : WF_vars(Consume(c) \/ Process(c))
    /\ WF_vars(Exit)

-----------------------------------------------------------------------------
(* Properties *)

InDeque == {"check", "testDone", "wait"}

\* Type invariant of the queue and its threads.
TypeOK ==
    /\ deque \in Seq(Packets)
    /\ DONE \in BOOLEAN
    /\ owner \in Consumers \cup {None}
    /\ reading \in {"read", "push", "signal", "returned"}
    /\ packetData \in Packets \cup {None}
    /\ numPackets \in 0 .. MaxPackets
    /\ dataProcessed \in Nat
    /\ pc \in [Consumers -> InDeque \cup {"lock", "waiting", "process", "returned"}]
    /\ hand \in [Consumers -> Packets \cup {None}]
    /\ spurious \in 0 .. MaxSpurious
    /\ exited \in BOOLEAN

\* Signalling after the unlock loses no packet: while one is queued, the
\* signal is still to come or some consumer is on its way to the deque.
NoSleepOnWork ==
    deque # <<>> =>
        \/ reading = "signal"
        \/ \E c \in Consumers : pc[c] \in {"lock", "check", "process"}

\* A consumer that has seen DONE leaves no packet behind, although DONE is set
\* and read without the producer holding the mutex.
LeavesNothingBehind ==
    \A c \in Consumers : pc[c] = "returned" =>
        DONE /\ deque = <<>> /\ packetData = None

\* Every packet read is eventually taken and worked off.
AllPacketsProcessed ==
    <>[](deque = <<>> /\ \A c \in Consumers : hand[c] = None)

\* "Loop until files are all read" (threadedRE.cpp:266), "producer threads
\* done reading files" (274): the consumers return and main() can join them.
MainExits == <>exited

\* The inductive invariant: it says who holds the mutex, and what a consumer
\* knows of the deque and the producer while it does.
IInv ==
    /\ TypeOK
    /\ DONE <=> reading = "returned"
    /\ reading = "push" <=> packetData # None
    /\ \A c \in Consumers : pc[c] \in InDeque <=> owner = c
    /\ \A c \in Consumers : hand[c] # None <=> pc[c] = "process"
    /\ \A c \in Consumers : pc[c] \in {"testDone", "wait"} => deque = <<>>
    /\ NoSleepOnWork
    /\ LeavesNothingBehind

Gone == {c \in Consumers : pc[c] = "returned"}

Work == INSTANCE WorkQueue WITH queue <- deque, closed <- DONE, gone <- Gone

\* Locks, signals and wakeups aside, the deque hands every packet to exactly
\* one consumer, in order, and no packet stays in it.
ImplementsWorkQueue == Work!Spec

=============================================================================
