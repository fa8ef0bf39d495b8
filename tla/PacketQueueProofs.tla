------------------------- MODULE PacketQueueProofs -------------------------
(***************************************************************************)
(* Proofs about PacketQueue, for every number of consumers and packets: no *)
(* packet is slept on or left behind, and the queue implements WorkQueue.  *)
(***************************************************************************)
EXTENDS PacketQueue, TLAPS

\* The parts of the invariant that are not types
Control ==
    /\ DONE <=> reading = "returned"
    /\ reading = "push" <=> packetData # None
    /\ \A c \in Consumers : pc[c] \in InDeque <=> owner = c
    /\ \A c \in Consumers : hand[c] # None <=> pc[c] = "process"
    /\ \A c \in Consumers : pc[c] \in {"testDone", "wait"} => deque = <<>>
    /\ NoSleepOnWork
    /\ LeavesNothingBehind

-----------------------------------------------------------------------------
(* The invariant *)

\* All consumers start at the mutex and nothing is queued.
LEMMA InitIInv ==
    ASSUME Init
    PROVE  IInv
<1>1. TypeOK
  <2>1. 0 \in 0 .. MaxPackets /\ 0 \in 0 .. MaxSpurious
    BY PacketQueueAssumption
  <2>2. deque \in Seq(Packets)
    BY DEF Init
  <2>3. /\ pc \in [Consumers -> InDeque \cup
                     {"lock", "waiting", "process", "returned"}]
        /\ hand \in [Consumers -> Packets \cup {None}]
    BY DEF Init
  <2>4. QED
    BY <2>1, <2>2, <2>3 DEF Init, TypeOK
<1>2. Control
  BY PacketQueueAssumption
  DEF Init, Control, InDeque, NoSleepOnWork, LeavesNothingBehind
<1>3. QED
  BY <1>1, <1>2 DEF IInv, Control

\* Every step keeps the types.
LEMMA StepType ==
    ASSUME TypeOK, IInv, [Next]_vars
    PROVE  TypeOK'
<1> USE PacketQueueAssumption DEF TypeOK, InDeque, producerVars, Goto
<1>1. CASE ReadPacket
  <2>1. PICK p \in Packets :
          packetData' = p /\ dataProcessed' = dataProcessed + Length[p] + HEADER
    BY <1>1 DEF ReadPacket
  <2>2. dataProcessed' \in Nat
    BY <2>1 DEF HEADER
  <2>3. numPackets' \in 0 .. MaxPackets
    BY <1>1 DEF ReadPacket
  <2>4. QED
    BY <1>1, <2>1, <2>2, <2>3 DEF ReadPacket
<1>2. CASE Push
  BY <1>2 DEF Push, IInv
<1>3. CASE Signal
  BY <1>3 DEF Signal, Waiting
<1>4. CASE EndOfFiles
  BY <1>4 DEF EndOfFiles
<1>5. ASSUME NEW c \in Consumers, Lock(c) PROVE TypeOK'
  BY <1>5 DEF Lock
<1>6. ASSUME NEW c \in Consumers, PopFront(c) PROVE TypeOK'
  <2>1. Head(deque) \in Packets /\ Tail(deque) \in Seq(Packets)
    BY <1>6 DEF PopFront
  <2>2. QED
    BY <1>6, <2>1 DEF PopFront
<1>7. ASSUME NEW c \in Consumers, FindEmpty(c) PROVE TypeOK'
  BY <1>7 DEF FindEmpty
<1>8. ASSUME NEW c \in Consumers, Return(c) PROVE TypeOK'
  BY <1>8 DEF Return
<1>9. ASSUME NEW c \in Consumers, DecideToWait(c) PROVE TypeOK'
  BY <1>9 DEF DecideToWait
<1>10. ASSUME NEW c \in Consumers, CondWait(c) PROVE TypeOK'
  BY <1>10 DEF CondWait
<1>11. ASSUME NEW c \in Consumers, SpuriousWakeup(c) PROVE TypeOK'
  BY <1>11 DEF SpuriousWakeup
<1>12. ASSUME NEW c \in Consumers, Process(c) PROVE TypeOK'
  BY <1>12 DEF Process
<1>13. CASE Exit
  BY <1>13 DEF Exit
<1>14. CASE UNCHANGED vars
  BY <1>14 DEF vars
<1>15. QED
  BY <1>1, <1>2, <1>3, <1>4, <1>5, <1>6, <1>7, <1>8, <1>9, <1>10, <1>11,
     <1>12, <1>13, <1>14
  DEF Next, QueueNext, Producer, Consume

\* What a packet's coming and a consumer's going keep: the producer's steps.
LEMMA ProducerControl ==
    ASSUME IInv, Producer
    PROVE  Control'
<1> USE PacketQueueAssumption
    DEF IInv, TypeOK, InDeque, Control, NoSleepOnWork, LeavesNothingBehind
<1>1. CASE ReadPacket
  BY <1>1 DEF ReadPacket
<1>2. CASE Push
  <2>1. Append(deque, packetData) # <<>>
    BY <1>2 DEF Push
  <2>2. \A c \in Consumers : pc[c] \notin InDeque
    BY <1>2 DEF Push
  <2>3. QED
    BY <1>2, <2>1, <2>2 DEF Push
<1>3. CASE Signal
  <2>1. CASE \E c \in Waiting : pc' = [pc EXCEPT ![c] = "lock"]
    BY <1>3, <2>1 DEF Signal, Waiting
  <2>2. CASE Waiting = {} /\ UNCHANGED pc
    BY <1>3, <2>2 DEF Signal, Waiting
  <2>3. QED
    BY <1>3, <2>1, <2>2 DEF Signal
<1>4. CASE EndOfFiles
  BY <1>4 DEF EndOfFiles
<1>5. QED
  BY <1>1, <1>2, <1>3, <1>4 DEF Producer

\* The consumers' steps: a consumer that waits or returns holds the mutex and
\* has found the deque empty, so nothing came in since.
LEMMA ConsumerControl ==
    ASSUME IInv, NEW c \in Consumers, Consume(c) \/ SpuriousWakeup(c) \/ Process(c)
    PROVE  Control'
<1> USE PacketQueueAssumption
    DEF IInv, TypeOK, InDeque, Control, NoSleepOnWork, LeavesNothingBehind,
        producerVars, Goto
<1>1. CASE Lock(c)
  BY <1>1 DEF Lock
<1>2. CASE PopFront(c)
  BY <1>2 DEF PopFront
<1>3. CASE FindEmpty(c)
  BY <1>3 DEF FindEmpty
<1>4. CASE Return(c)
  BY <1>4 DEF Return
<1>5. CASE DecideToWait(c)
  BY <1>5 DEF DecideToWait
<1>6. CASE CondWait(c)
  BY <1>6 DEF CondWait
<1>7. CASE SpuriousWakeup(c)
  BY <1>7 DEF SpuriousWakeup
<1>8. CASE Process(c)
  BY <1>8 DEF Process
<1>9. QED
  BY <1>1, <1>2, <1>3, <1>4, <1>5, <1>6, <1>7, <1>8 DEF Consume

\* The invariant is inductive.
LEMMA StepIInv ==
    ASSUME IInv, [Next]_vars
    PROVE  IInv'
<1>1. TypeOK'
  BY StepType DEF IInv
<1>2. CASE Exit \/ UNCHANGED vars
  BY <1>1, <1>2 DEF Exit, vars, producerVars, IInv, NoSleepOnWork, LeavesNothingBehind
<1>3. Control' \/ Exit \/ UNCHANGED vars
  BY ProducerControl, ConsumerControl DEF Next, QueueNext
<1>4. QED
  BY <1>1, <1>2, <1>3 DEF IInv, Control

\* The invariant holds throughout, for any number of consumers.
THEOREM QueueInvariant == Spec => []IInv
<1>1. Init => IInv
  BY InitIInv
<1>2. IInv /\ [Next]_vars => IInv'
  BY StepIInv
<1>3. QED
  BY <1>1, <1>2, PTL DEF Spec, SafeSpec

\* pthread_cond_signal() after the unlock loses no packet.
THEOREM NoPacketSleptOn == Spec => []NoSleepOnWork
<1>1. IInv => NoSleepOnWork
  BY DEF IInv
<1>2. QED
  BY <1>1, QueueInvariant, PTL

\* A consumer that returns leaves no packet behind.
THEOREM NoPacketLeftBehind == Spec => []LeavesNothingBehind
<1>1. IInv => LeavesNothingBehind
  BY DEF IInv
<1>2. QED
  BY <1>1, QueueInvariant, PTL

-----------------------------------------------------------------------------
(* Refinement *)

\* Every step puts, takes, finishes, closes or leaves as WorkQueue allows.
LEMMA StepRefines ==
    ASSUME IInv, [Next]_vars
    PROVE  [Work!Next]_(Work!vars)
<1> USE DEF Work!vars, Work!Next, Gone, producerVars, Goto
<1>1. CASE ReadPacket \/ Exit \/ UNCHANGED vars
  BY <1>1 DEF ReadPacket, Exit, vars
<1>2. CASE Push
  <2>1. packetData \in Packets /\ ~DONE
    BY <1>2, PacketQueueAssumption DEF Push, IInv, TypeOK
  <2>2. Work!Put(packetData)
    BY <1>2, <2>1 DEF Push, Work!Put
  <2>3. QED
    BY <2>1, <2>2
<1>3. CASE Signal
  BY <1>3 DEF Signal, Waiting, IInv, TypeOK
<1>4. CASE EndOfFiles
  BY <1>4 DEF EndOfFiles, Work!Close, IInv
<1>5. ASSUME NEW c \in Consumers, Lock(c) \/ FindEmpty(c) \/ DecideToWait(c)
                                  \/ CondWait(c) \/ SpuriousWakeup(c)
      PROVE  UNCHANGED Work!vars
  BY <1>5 DEF Lock, FindEmpty, DecideToWait, CondWait, SpuriousWakeup, IInv, TypeOK
<1>6. ASSUME NEW c \in Consumers, PopFront(c)
      PROVE  Work!Take(c)
  BY <1>6, PacketQueueAssumption DEF PopFront, Work!Take, IInv, TypeOK
<1>7. ASSUME NEW c \in Consumers, Process(c)
      PROVE  Work!Finish(c)
  BY <1>7 DEF Process, Work!Finish, IInv, TypeOK
<1>8. ASSUME NEW c \in Consumers, Return(c)
      PROVE  Work!Leave(c)
  BY <1>8 DEF Return, Work!Leave, IInv, TypeOK
<1>9. QED
  BY <1>1, <1>2, <1>3, <1>4, <1>5, <1>6, <1>7, <1>8
  DEF Next, QueueNext, Producer, Consume

\* The deque under its mutex and condition variable hands every packet to one
\* consumer, in order, and consumers leave only when the work is done.
THEOREM QueueImplementsWorkQueue == Spec => Work!SafeSpec
<1>1. Init => Work!Init
  BY DEF Init, Work!Init, Gone
<1>2. IInv /\ [Next]_vars => [Work!Next]_(Work!vars)
  BY StepRefines
<1>3. QED
  BY <1>1, <1>2, QueueInvariant, PTL DEF Spec, SafeSpec, Work!SafeSpec

=============================================================================
