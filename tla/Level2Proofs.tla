---------------------------- MODULE Level2Proofs ----------------------------
(***************************************************************************)
(* Proofs about Level2, for every window size, every hash and table, and   *)
(* any number of consumers and packets: what a run adds is the number of   *)
(* bytes its windows cover, only a run at the end of a packet is lost, and *)
(* sliding a window over packets is a way to process them.                 *)
(***************************************************************************)
EXTENDS Level2, FiniteSetTheorems, WellFoundedInduction, TLAPS

\* What a consumer holds, and where
Hands ==
    /\ hand \in [Consumers -> Packets \cup {None}]
    /\ \A c \in Consumers : hand[c] # None <=> pc[c] \in {"process", "count"}

\* The queue's data that windows depend on
DequeOK ==
    /\ deque \in Seq(Packets)
    /\ packetData \in Packets \cup {None}
    /\ reading = "push" => packetData # None

\* A run lies within the packet of its consumer; one to be counted has been
\* ended by a window.
RunInPacket(c) ==
    match[c] # -1 =>
        /\ match[c] \in Nat
        /\ pc[c] \in {"process", "count"}
        /\ i[c] <= Length[hand[c]] - WINDOW_SIZE

RunsInPackets ==
    \A c \in Consumers :
        /\ RunInPacket(c)
        /\ pc[c] = "count" => match[c] # -1

L2Inv == Level2TypeOK /\ Hands /\ DequeOK /\ RunsInPackets

-----------------------------------------------------------------------------

\* A window within a packet has a slot.
LEMMA WindowHasSlot ==
    ASSUME NEW p \in Packets, NEW k \in Nat, k < Length[p] - WINDOW_SIZE
    PROVE  Window(p, k) \in Windows /\ index(Window(p, k)) \in Slots
<1>1. Length[p] = Len(p) /\ Length[p] \in Nat /\ WINDOW_SIZE \in Nat
  BY Level2Assumption, PacketQueueAssumption
<1>2. k \in 0 .. Len(p) - WINDOW_SIZE
  BY <1>1
<1>3. Window(p, k) \in Windows
  BY <1>2 DEF Windows
<1>4. QED
  BY <1>3, Level2Assumption DEF index, Slots

\* Nothing has been read or looked up.
LEMMA InitL2Inv ==
    ASSUME Level2Init
    PROVE  L2Inv
  BY PacketQueueAssumption
  DEF Level2Init, Init, L2Inv, Level2TypeOK, Hands, DequeOK, RunsInPackets,
      RunInPacket, InDeque

\* The queue's steps hand packets over to consumers with no run.
LEMMA QueueStep ==
    ASSUME L2Inv, QueueNext, UNCHANGED <<tableVars, loopVars>>
    PROVE  L2Inv'
<1> USE PacketQueueAssumption
    DEF L2Inv, Level2TypeOK, Hands, DequeOK, RunsInPackets, RunInPacket, Goto,
        producerVars, InDeque, tableVars, loopVars
<1>1. CASE ReadPacket
  BY <1>1 DEF ReadPacket
<1>2. CASE Push
  BY <1>2 DEF Push
<1>3. CASE Signal
  BY <1>3 DEF Signal, Waiting
<1>4. CASE EndOfFiles
  BY <1>4 DEF EndOfFiles
<1>5. ASSUME NEW c \in Consumers, PopFront(c) PROVE L2Inv'
  <2>1. Head(deque) \in Packets /\ Tail(deque) \in Seq(Packets)
    BY <1>5 DEF PopFront
  <2>2. match[c] = -1
    BY <1>5 DEF PopFront
  <2>3. QED
    BY <1>5, <2>1, <2>2 DEF PopFront
<1>6. ASSUME NEW c \in Consumers, Lock(c) \/ FindEmpty(c) \/ Return(c) PROVE L2Inv'
  <2>1. CASE Lock(c)
    BY <2>1 DEF Lock
  <2>2. CASE FindEmpty(c)
    BY <2>2 DEF FindEmpty
  <2>3. CASE Return(c)
    BY <2>3 DEF Return
  <2>4. QED
    BY <1>6, <2>1, <2>2, <2>3
<1>7. ASSUME NEW c \in Consumers, DecideToWait(c) \/ CondWait(c) \/ SpuriousWakeup(c)
      PROVE  L2Inv'
  <2>1. CASE DecideToWait(c)
    BY <2>1 DEF DecideToWait
  <2>2. CASE CondWait(c)
    BY <2>2 DEF CondWait
  <2>3. CASE SpuriousWakeup(c)
    BY <2>3 DEF SpuriousWakeup
  <2>4. QED
    BY <1>7, <2>1, <2>2, <2>3
<1>8. CASE Exit
  BY <1>8 DEF Exit
<1>9. QED
  BY <1>1, <1>2, <1>3, <1>4, <1>5, <1>6, <1>7, <1>8 DEF QueueNext, Producer, Consume

\* What a consumer in its loop works on
LEMMA InLoopFacts ==
    ASSUME L2Inv, NEW c \in Consumers, InLoop(c)
    PROVE  /\ hand[c] \in Packets
           /\ i[c] \in Nat
           /\ Length[hand[c]] \in Nat
           /\ WINDOW_SIZE \in Nat \ {0}
           /\ Window(hand[c], i[c]) \in Windows
           /\ index(Window(hand[c], i[c])) \in Slots
<1>1. hand[c] \in Packets /\ i[c] \in Nat
  BY DEF L2Inv, Hands, InLoop, Level2TypeOK
<1>2. QED
  BY <1>1, WindowHasSlot, PacketQueueAssumption, Level2Assumption DEF InLoop

\* A window that matches begins or prolongs a run.
LEMMA MatchStep ==
    ASSUME L2Inv, NEW c \in Consumers, WindowMatches(c)
    PROVE  L2Inv'
<1>1. InLoop(c)
  BY DEF WindowMatches
<1>2. Level2TypeOK'
  BY <1>1, InLoopFacts DEF WindowMatches, L2Inv, Level2TypeOK, vars, tableVars
<1>3. Hands' /\ DequeOK'
  BY DEF WindowMatches, L2Inv, Hands, DequeOK, vars, producerVars
<1>4. RunsInPackets'
  BY <1>1, InLoopFacts
  DEF WindowMatches, L2Inv, Level2TypeOK, RunsInPackets, RunInPacket, InLoop, vars
<1>5. QED
  BY <1>2, <1>3, <1>4 DEF L2Inv

\* A window that does not match ends the run before it.
LEMMA MissStep ==
    ASSUME L2Inv, NEW c \in Consumers, WindowMisses(c)
    PROVE  L2Inv'
<1>1. InLoop(c)
  BY DEF WindowMisses
<1>2. \/ match[c] = -1 /\ i' = [i EXCEPT ![c] = @ + 1] /\ UNCHANGED pc
      \/ match[c] # -1 /\ pc' = [pc EXCEPT ![c] = "count"] /\ UNCHANGED i
  BY DEF WindowMisses, Goto
<1>3. packetSet' \in [Slots -> Windows \cup {None}]
  BY <1>1, InLoopFacts DEF WindowMisses, L2Inv, Level2TypeOK
<1>4. Level2TypeOK'
  BY <1>1, <1>2, <1>3, InLoopFacts DEF WindowMisses, L2Inv, Level2TypeOK
<1>5. Hands' /\ DequeOK'
  BY <1>1, <1>2
  DEF WindowMisses, L2Inv, Level2TypeOK, Hands, DequeOK, producerVars, InLoop
<1>6. RunsInPackets'
  BY <1>1, <1>2
  DEF WindowMisses, L2Inv, Level2TypeOK, RunsInPackets, RunInPacket, InLoop
<1>7. QED
  BY <1>4, <1>5, <1>6 DEF L2Inv

\* A run that is counted has at least one byte.
LEMMA CountStep ==
    ASSUME L2Inv, NEW c \in Consumers, Count(c)
    PROVE  L2Inv'
<1> USE DEF L2Inv, Count, Goto
<1>1. RunLength(c) \in Nat /\ PastString(c) \in Nat
  BY Level2Assumption DEF Level2TypeOK, RunsInPackets, RunInPacket, RunLength, PastString
<1>2. Level2TypeOK'
  BY <1>1 DEF Level2TypeOK
<1>3. Hands' /\ DequeOK'
  BY DEF Level2TypeOK, Hands, DequeOK, producerVars
<1>4. RunsInPackets'
  BY DEF Level2TypeOK, RunsInPackets, RunInPacket
<1>5. QED
  BY <1>2, <1>3, <1>4

\* The next packet starts without a run.
LEMMA EndStep ==
    ASSUME L2Inv, NEW c \in Consumers, EndOfPacket(c)
    PROVE  L2Inv'
<1> USE PacketQueueAssumption DEF L2Inv, EndOfPacket, Process, Goto
<1>1. Level2TypeOK'
  BY DEF Level2TypeOK, tableVars
<1>2. Hands' /\ DequeOK'
  BY DEF Level2TypeOK, Hands, DequeOK, producerVars
<1>3. RunsInPackets'
  BY DEF Level2TypeOK, RunsInPackets, RunInPacket
<1>4. QED
  BY <1>1, <1>2, <1>3

\* The invariant is inductive.
LEMMA StepL2Inv ==
    ASSUME L2Inv, [Level2Next]_level2Vars
    PROVE  L2Inv'
<1>1. CASE QueueNext /\ UNCHANGED <<tableVars, loopVars>>
  BY <1>1, QueueStep
<1>2. ASSUME NEW c \in Consumers, Work2(c)
      PROVE  L2Inv'
  BY <1>2, MatchStep, MissStep, CountStep, EndStep DEF Work2
<1>3. CASE UNCHANGED level2Vars
  BY <1>3 DEF level2Vars, vars, tableVars, loopVars, producerVars, L2Inv, Level2TypeOK,
              Hands, DequeOK, RunsInPackets, RunInPacket, InDeque
<1>4. QED
  BY <1>1, <1>2, <1>3 DEF Level2Next

\* The invariant holds throughout.
THEOREM RunInvariant == Level2SafeSpec => []L2Inv
<1>1. Level2Init => L2Inv
  BY InitL2Inv
<1>2. L2Inv /\ [Level2Next]_level2Vars => L2Inv'
  BY StepL2Inv
<1>3. QED
  BY <1>1, <1>2, PTL DEF Level2SafeSpec

\* The table, the counters and the consumers have their types, and a run begins
\* before the window its consumer is at.
THEOREM Level2Types == Level2SafeSpec => []Level2TypeOK
<1>1. L2Inv => Level2TypeOK
  BY DEF L2Inv
<1>2. QED
  BY <1>1, RunInvariant, PTL

\* A run is lost only at the end of its packet.
THEOREM LastRunIsLost == Level2SafeSpec => OnlyLastRunIsLost
<1>1. ASSUME L2Inv, NEW c \in Consumers, EndOfPacket(c), match[c] # -1
      PROVE  i[c] = Length[hand[c]] - WINDOW_SIZE
  <2>1. pc[c] = "process" /\ ~(i[c] < Length[hand[c]] - WINDOW_SIZE)
    BY <1>1 DEF EndOfPacket, InLoop, Process, Goto
  <2>2. hand[c] \in Packets /\ i[c] \in Nat /\ i[c] <= Length[hand[c]] - WINDOW_SIZE
    BY <1>1, <2>1 DEF L2Inv, Hands, Level2TypeOK, RunsInPackets, RunInPacket
  <2>3. QED
    BY <2>1, <2>2, PacketQueueAssumption, Level2Assumption
<1>2. L2Inv => \A c \in Consumers : EndOfPacket(c) /\ match[c] # -1 =>
                   i[c] = Length[hand[c]] - WINDOW_SIZE
  BY <1>1
<1>3. QED
  BY <1>2, RunInvariant, PTL DEF OnlyLastRunIsLost

\* Windows that begin at m, ..., k - 1 cover an interval.
LEMMA RunIsInterval ==
    ASSUME NEW m \in Nat, NEW k \in Nat, m < k, NEW size \in Nat \ {0}
    PROVE  UNION {j .. j + size - 1 : j \in m .. k - 1} = m .. k + size - 2
<1> DEFINE covered == UNION {j .. j + size - 1 : j \in m .. k - 1}
<1>1. ASSUME NEW x \in covered
      PROVE  x \in m .. k + size - 2
  <2>1. PICK j \in m .. k - 1 : x \in j .. j + size - 1
    BY <1>1
  <2>2. QED
    BY <2>1
<1>2. ASSUME NEW x \in m .. k + size - 2
      PROVE  x \in covered
  <2>1. CASE x <= k - 1
    <3>1. x \in m .. k - 1 /\ x \in x .. x + size - 1
      BY <2>1
    <3>2. QED
      BY <3>1
  <2>2. CASE x > k - 1
    <3>1. k - 1 \in m .. k - 1 /\ x \in k - 1 .. (k - 1) + size - 1
      BY <2>2
    <3>2. QED
      BY <3>1
  <2>3. QED
    BY <2>1, <2>2
<1>3. QED
  BY <1>1, <1>2

\* So many bytes are covered.
LEMMA RunSize ==
    ASSUME NEW m \in Nat, NEW k \in Nat, m < k, NEW size \in Nat \ {0}
    PROVE  Cardinality(UNION {j .. j + size - 1 : j \in m .. k - 1}) = k + size - 1 - m
<1>1. ASSUME NEW last \in Int, m <= last
      PROVE  Cardinality(m .. last) = last - m + 1
  BY <1>1, FS_Interval
<1>2. k + size - 2 \in Int /\ m <= k + size - 2
  OBVIOUS
<1>3. Cardinality(m .. k + size - 2) = k + size - 2 - m + 1
  BY <1>1, <1>2
<1>4. k + size - 2 - m + 1 = k + size - 1 - m
  OBVIOUS
<1>5. QED
  BY <1>3, <1>4, RunIsInterval, Zenon

\* What is added for a run is the number of bytes its windows cover.
THEOREM RunsAddTheirBytes == Level2SafeSpec => AddsMatchedBytes
<1>1. ASSUME L2Inv, NEW c \in Consumers, Count(c)
      PROVE  redundancy' - redundancy = Cardinality(RunBytes(c))
  <2>1. /\ match[c] \in Nat /\ i[c] \in Nat /\ match[c] < i[c]
        /\ WINDOW_SIZE \in Nat \ {0}
        /\ redundancy \in Nat
    BY <1>1, Level2Assumption
    DEF L2Inv, Count, Goto, Level2TypeOK, RunsInPackets, RunInPacket
  <2>2. Cardinality(RunBytes(c)) = i[c] + WINDOW_SIZE - 1 - match[c]
    BY <2>1, RunSize DEF RunBytes
  <2>3. QED
    BY <1>1, <2>1, <2>2 DEF Count, RunLength
<1>2. L2Inv => \A c \in Consumers :
          Count(c) => redundancy' - redundancy = Cardinality(RunBytes(c))
  BY <1>1
<1>3. QED
  BY <1>2, RunInvariant, PTL DEF AddsMatchedBytes

-----------------------------------------------------------------------------
(* Running sums *)

\* A set of natural numbers has a least one.
LEMMA Least ==
    ASSUME NEW S \in SUBSET Nat, S # {}
    PROVE  \E x \in S : \A y \in S : x <= y
<1>1. PICK x \in S : \A y \in S : ~ (<<y, x>> \in OpToRel(<, Nat))
  BY NatLessThanWellFounded, WFMin
<1>2. ASSUME NEW y \in S
      PROVE  x <= y
  <2>1. y < x => <<y, x>> \in OpToRel(<, Nat)
    BY DEF OpToRel
  <2>2. ~(y < x)
    BY <1>1, <2>1, Zenon
  <2>3. QED
    BY <2>2
<1>3. QED
  BY <1>2

\* t[k] is the sum of the first k of the n numbers in r.
IsRunningSum(t, n, r) ==
    /\ t \in [0 .. n -> Int]
    /\ t[0] = 0
    /\ \A k \in 1 .. n : t[k] = t[k - 1] + r[k]

\* A sum of natural numbers does not fall.
LEMMA SumGrows ==
    ASSUME NEW n \in Nat, NEW r, \A k \in 1 .. n : r[k] \in Nat,
           NEW t, IsRunningSum(t, n, r), NEW from \in 0 .. n, NEW to \in from .. n
    PROVE  t[from] <= t[to]
<1> DEFINE Bad == {k \in from .. n : ~(t[from] <= t[k])}
<1>1. SUFFICES ASSUME Bad # {} PROVE FALSE
  OBVIOUS
<1>2. PICK k \in Bad : \A j \in Bad : k <= j
  <2>1. Bad \in SUBSET Nat
    OBVIOUS
  <2>2. QED
    BY <1>1, <2>1, Least
<1>3. t[from] \in Int /\ t[k] \in Int
  BY DEF IsRunningSum
<1>4. k # from
  BY <1>3
<1>5. k \in 1 .. n /\ k - 1 \in from .. n /\ k - 1 < k
  BY <1>4
<1>6. t[from] <= t[k - 1]
  BY <1>2, <1>5
<1>7. t[k] = t[k - 1] + r[k] /\ r[k] \in Nat /\ t[k - 1] \in Int
  BY <1>5 DEF IsRunningSum
<1>8. t[from] <= t[k]
  BY <1>3, <1>6, <1>7
<1>9. QED
  BY <1>8

\* A sum of natural numbers is one.
LEMMA SumNotNegative ==
    ASSUME NEW n \in Nat, NEW r, \A k \in 1 .. n : r[k] \in Nat,
           NEW t, IsRunningSum(t, n, r)
    PROVE  t[n] \in Nat
<1>1. 0 \in 0 .. n /\ n \in 0 .. n
  OBVIOUS
<1>2. t[0] <= t[n]
  BY <1>1, SumGrows
<1>3. QED
  BY <1>1, <1>2 DEF IsRunningSum

\* One more number at the end
LEMMA SumAppend ==
    ASSUME NEW n \in Nat, NEW r, NEW t, IsRunningSum(t, n, r),
           NEW r2, \A k \in 1 .. n : r2[k] = r[k], r2[n + 1] \in Int
    PROVE  \E t2 : IsRunningSum(t2, n + 1, r2) /\ t2[n + 1] = t[n] + r2[n + 1]
<1> DEFINE t2 == [k \in 0 .. n + 1 |-> IF k = n + 1 THEN t[n] + r2[n + 1] ELSE t[k]]
<1>1. t \in [0 .. n -> Int] /\ t[0] = 0 /\ \A k \in 1 .. n : t[k] = t[k - 1] + r[k]
  BY DEF IsRunningSum
<1>2. t2 \in [0 .. n + 1 -> Int] /\ t2[0] = 0
  BY <1>1
<1>3. ASSUME NEW k \in 1 .. n + 1
      PROVE  t2[k] = t2[k - 1] + r2[k]
  <2>1. CASE k = n + 1
    <3>1. t2[k - 1] = t[n]
      BY <2>1
    <3>2. QED
      BY <2>1, <3>1
  <2>2. CASE k # n + 1
    <3>1. k \in 1 .. n /\ t2[k] = t[k] /\ t2[k - 1] = t[k - 1]
      BY <2>2
    <3>2. QED
      BY <1>1, <3>1
  <2>3. QED
    BY <2>1, <2>2
<1>4. t2[n + 1] = t[n] + r2[n + 1]
  OBVIOUS
<1>5. IsRunningSum(t2, n + 1, r2)
  BY <1>2, <1>3 DEF IsRunningSum
<1>6. QED
  BY <1>4, <1>5

\* Without the first number
LEMMA SumTail ==
    ASSUME NEW n \in Nat, n # 0, NEW r, NEW t, IsRunningSum(t, n, r),
           NEW r2, \A k \in 1 .. n - 1 : r2[k] = r[k + 1],
           \A k \in 1 .. n : r[k] \in Int
    PROVE  \E t2 : IsRunningSum(t2, n - 1, r2) /\ t[n] = t2[n - 1] + r[1]
<1> DEFINE t2 == [k \in 0 .. n - 1 |-> t[k + 1] - r[1]]
<1>1. /\ t \in [0 .. n -> Int]
      /\ t[0] = 0
      /\ \A k \in 1 .. n : t[k] = t[k - 1] + r[k]
  BY DEF IsRunningSum
<1>2. t2 \in [0 .. n - 1 -> Int]
  BY <1>1
<1>3. t2[0] = 0
  <2>1. t[1] = t[0] + r[1] /\ t2[0] = t[1] - r[1]
    BY <1>1
  <2>2. QED
    BY <1>1, <2>1
<1>4. ASSUME NEW k \in 1 .. n - 1
      PROVE  t2[k] = t2[k - 1] + r2[k]
  <2>1. t2[k] = t[k + 1] - r[1] /\ t2[k - 1] = t[k] - r[1]
    OBVIOUS
  <2>2. k + 1 \in 1 .. n /\ k \in 0 .. n /\ (k + 1) - 1 = k
    OBVIOUS
  <2>3. t[k + 1] = t[k] + r[k + 1] /\ r2[k] = r[k + 1]
    BY <1>1, <2>2
  <2>4. t[k] \in Int /\ r[k + 1] \in Int /\ r[1] \in Int
    BY <1>1, <2>2
  <2> HIDE DEF t2
  <2>5. QED
    BY <2>1, <2>3, <2>4
<1>5. t[n] = t2[n - 1] + r[1]
  <2>1. t2[n - 1] = t[n] - r[1] /\ t[n] \in Int /\ r[1] \in Int
    BY <1>1
  <2> HIDE DEF t2
  <2>2. QED
    BY <2>1
<1>6. IsRunningSum(t2, n - 1, r2)
  BY <1>2, <1>3, <1>4 DEF IsRunningSum
<1>7. QED
  BY <1>5, <1>6

\* One of the numbers is another
LEMMA SumChange ==
    ASSUME NEW n \in Nat, NEW r, NEW t, IsRunningSum(t, n, r), NEW r2,
           NEW at \in 1 .. n, NEW d \in Int, r2[at] = r[at] + d,
           \A k \in 1 .. n : r[k] \in Int,
           \A k \in 1 .. n : k # at => r2[k] = r[k]
    PROVE  \E t2 : IsRunningSum(t2, n, r2) /\ t2[n] = t[n] + d
<1> DEFINE t2 == [k \in 0 .. n |-> IF k < at THEN t[k] ELSE t[k] + d]
<1>1. t \in [0 .. n -> Int] /\ t[0] = 0 /\ \A k \in 1 .. n : t[k] = t[k - 1] + r[k]
  BY DEF IsRunningSum
<1>2. t2 \in [0 .. n -> Int] /\ t2[0] = 0 /\ t2[n] = t[n] + d
  BY <1>1
<1>3. ASSUME NEW k \in 1 .. n
      PROVE  t2[k] = t2[k - 1] + r2[k]
  <2>1. t[k] = t[k - 1] + r[k] /\ t[k] \in Int /\ t[k - 1] \in Int
    BY <1>1
  <2>2. CASE k < at
    BY <2>1, <2>2
  <2>3. CASE k = at
    <3>1. t2[k] = t[k] + d /\ t2[k - 1] = t[k - 1]
      BY <2>3
    <3> HIDE DEF t2
    <3>2. QED
      BY <2>1, <2>3, <3>1
  <2>4. CASE k > at
    <3>1. t2[k] = t[k] + d /\ t2[k - 1] = t[k - 1] + d /\ r2[k] = r[k]
      BY <2>4
    <3> HIDE DEF t2
    <3>2. QED
      BY <2>1, <3>1
  <2>5. QED
    BY <2>2, <2>3, <2>4
<1>4. QED
  BY <1>2, <1>3 DEF IsRunningSum

-----------------------------------------------------------------------------
(* No byte is counted twice *)

\* The consumers in some order
ConsumerCount == Cardinality(Consumers)
Order == CHOOSE e : e \in Bijection(1 .. ConsumerCount, Consumers)

\* From here on consumer c may still count the bytes of its packet.
From(c) == IF match[c] = -1 THEN i[c] ELSE match[c]

\* The bytes consumer c may still count of its packet
Rest(c) ==
    IF hand[c] = None \/ From(c) >= Length[hand[c]] THEN 0
    ELSE Length[hand[c]] - From(c)

\* The bytes nobody has counted yet: in the hands of the consumers, in the
\* deque, and about to be pushed
HandBytes == [k \in 1 .. ConsumerCount |-> Rest(Order[k])]
DequeBytes == [k \in 1 .. Len(deque) |-> Length[deque[k]]]
PushedBytes == IF packetData = None THEN 0 ELSE Length[packetData]

\* What has been counted and what may still be counted has been read.
BytesLeft ==
    \E t, s :
        /\ IsRunningSum(t, ConsumerCount, HandBytes)
        /\ IsRunningSum(s, Len(deque), DequeBytes)
        /\ redundancy + t[ConsumerCount] + s[Len(deque)] + PushedBytes + HEADER * numPackets
              <= dataProcessed

BytesInv == numPackets \in Nat /\ dataProcessed \in Nat /\ BytesLeft

\* Every consumer has its place in the order.
LEMMA OrderOfConsumers ==
    /\ ConsumerCount \in Nat
    /\ \A k \in 1 .. ConsumerCount : Order[k] \in Consumers
    /\ \A c \in Consumers : \E k \in 1 .. ConsumerCount :
           Order[k] = c /\ \A j \in 1 .. ConsumerCount : Order[j] = c => j = k
<1>1. ConsumerCount \in Nat /\ ExistsBijection(1 .. ConsumerCount, Consumers)
  BY FiniteAssumption, FS_CardinalityType DEF ConsumerCount
<1>2. Order \in Bijection(1 .. ConsumerCount, Consumers)
  BY <1>1 DEF ExistsBijection, Order
<1>3. QED
  BY <1>1, <1>2 DEF Bijection, Injection, Surjection, IsInjective

\* What is left to count is a number of bytes.
LEMMA BytesAreNat ==
    ASSUME L2Inv
    PROVE  /\ \A c \in Consumers : Rest(c) \in Nat
           /\ \A k \in 1 .. ConsumerCount : HandBytes[k] \in Nat
           /\ \A k \in 1 .. Len(deque) : DequeBytes[k] \in Nat
           /\ PushedBytes \in Nat
           /\ Len(deque) \in Nat
           /\ redundancy \in Nat
<1> USE PacketQueueAssumption DEF L2Inv
<1>1. ASSUME NEW c \in Consumers
      PROVE  Rest(c) \in Nat
  <2>1. From(c) \in Nat
    BY DEF From, Level2TypeOK
  <2>2. hand[c] # None => Length[hand[c]] \in Nat
    BY DEF Hands
  <2>3. QED
    BY <2>1, <2>2 DEF Rest
<1>2. \A k \in 1 .. ConsumerCount : HandBytes[k] \in Nat
  BY <1>1, OrderOfConsumers DEF HandBytes
<1>3. ASSUME NEW k \in 1 .. Len(deque)
      PROVE  DequeBytes[k] \in Nat
  BY DEF DequeOK, DequeBytes
<1>4. PushedBytes \in Nat /\ Len(deque) \in Nat /\ redundancy \in Nat
  BY DEF DequeOK, PushedBytes, Level2TypeOK
<1>5. QED
  BY <1>1, <1>2, <1>3, <1>4

\* The invariant implies the bound.
LEMMA BytesLeftBound ==
    ASSUME L2Inv, BytesInv
    PROVE  RedundancyBounded
<1>1. PICK t, s :
        /\ IsRunningSum(t, ConsumerCount, HandBytes)
        /\ IsRunningSum(s, Len(deque), DequeBytes)
        /\ redundancy + t[ConsumerCount] + s[Len(deque)] + PushedBytes + HEADER * numPackets
              <= dataProcessed
  BY DEF BytesInv, BytesLeft
<1>2. t[ConsumerCount] \in Nat
  BY <1>1, BytesAreNat, OrderOfConsumers, SumNotNegative
<1>3. s[Len(deque)] \in Nat
  BY <1>1, BytesAreNat, SumNotNegative
<1>4. /\ PushedBytes \in Nat /\ redundancy \in Nat
      /\ HEADER * numPackets \in Nat /\ dataProcessed \in Nat
  BY BytesAreNat DEF BytesInv, HEADER
<1>5. QED
  BY <1>1, <1>2, <1>3, <1>4 DEF RedundancyBounded

\* One consumer's rest is another.
LEMMA RestChanges ==
    ASSUME L2Inv, NEW c \in Consumers, Rest(c)' \in Nat,
           \A d \in Consumers : d # c => Rest(d)' = Rest(d),
           NEW t, IsRunningSum(t, ConsumerCount, HandBytes)
    PROVE  \E t2 : /\ IsRunningSum(t2, ConsumerCount, HandBytes')
                   /\ t2[ConsumerCount] = t[ConsumerCount] + (Rest(c)' - Rest(c))
<1> DEFINE r == HandBytes
           r2 == HandBytes'
           d == Rest(c)' - Rest(c)
           n == ConsumerCount
<1>1. PICK at \in 1 .. n :
        Order[at] = c /\ \A j \in 1 .. n : Order[j] = c => j = at
  BY OrderOfConsumers
<1>2. n \in Nat /\ \A k \in 1 .. n : Order[k] \in Consumers
  BY OrderOfConsumers
<1>3. \A k \in 1 .. n : r[k] = Rest(Order[k]) /\ r2[k] = Rest(Order[k])'
  BY DEF HandBytes
<1>4. (\A k \in 1 .. n : r[k] \in Nat) /\ Rest(c) \in Nat
  BY BytesAreNat
<1>5. d \in Int /\ r2[at] = r[at] + d
  <2>1. r[at] = Rest(c) /\ r2[at] = Rest(c)'
    BY <1>1, <1>3
  <2> HIDE DEF r, r2
  <2>2. QED
    BY <1>4, <2>1
<1>6. \A k \in 1 .. n : k # at => r2[k] = r[k]
  BY <1>1, <1>2, <1>3
<1>7. IsRunningSum(t, n, r)
  OBVIOUS
<1> HIDE DEF r, r2, d, n
<1>8. \E t2 : IsRunningSum(t2, n, r2) /\ t2[n] = t[n] + d
  BY <1>1, <1>2, <1>4, <1>5, <1>6, <1>7, SumChange
<1>9. QED
  BY <1>8 DEF r2, d, n

\* A consumer's step that takes no more from its packet than it counts
LEMMA ConsumerKeepsBytes ==
    ASSUME L2Inv, BytesInv, NEW c \in Consumers, Rest(c)' \in Nat,
           \A d \in Consumers : d # c => Rest(d)' = Rest(d),
           UNCHANGED <<deque, packetData, numPackets, dataProcessed>>,
           redundancy' \in Nat, redundancy' + Rest(c)' <= redundancy + Rest(c)
    PROVE  BytesInv'
<1> DEFINE n == ConsumerCount
<1>1. PICK t, s :
        /\ IsRunningSum(t, n, HandBytes)
        /\ IsRunningSum(s, Len(deque), DequeBytes)
        /\ redundancy + t[n] + s[Len(deque)] + PushedBytes + HEADER * numPackets
              <= dataProcessed
  BY DEF BytesInv, BytesLeft
<1>2. PICK t2 : IsRunningSum(t2, n, HandBytes') /\ t2[n] = t[n] + (Rest(c)' - Rest(c))
  BY <1>1, RestChanges
<1>3. Len(deque') = Len(deque) /\ DequeBytes' = DequeBytes /\ PushedBytes' = PushedBytes
  BY DEF DequeBytes, PushedBytes
<1>4. t[n] \in Nat /\ s[Len(deque)] \in Nat
  BY <1>1, BytesAreNat, OrderOfConsumers, SumNotNegative
<1>5. /\ Rest(c) \in Nat /\ PushedBytes \in Nat /\ redundancy \in Nat
      /\ HEADER * numPackets \in Nat /\ dataProcessed \in Nat
  BY BytesAreNat DEF BytesInv, HEADER
<1>6. redundancy' + t2[n] + s[Len(deque)] + PushedBytes + HEADER * numPackets
        <= dataProcessed
  <2> DEFINE headers == HEADER * numPackets
  <2>1. redundancy + t[n] + s[Len(deque)] + PushedBytes + headers <= dataProcessed
    BY <1>1
  <2>2. headers \in Nat
    BY <1>5
  <2> HIDE DEF n, headers
  <2>3. redundancy' + t2[n] <= redundancy + t[n] /\ t2[n] \in Int
    BY <1>2, <1>4, <1>5
  <2> DEFINE a == redundancy + t[n]
             a2 == redundancy' + t2[n]
             b == s[Len(deque)]
  <2>4. a \in Int /\ a2 \in Int /\ b \in Int /\ a2 <= a
    <3>1. a \in Int
      BY <1>4, <1>5
    <3>2. b \in Int
      BY <1>4
    <3>3. a2 \in Int /\ a2 <= a
      BY <2>3
    <3>4. QED
      BY <3>1, <3>2, <3>3
  <2> HIDE DEF a, a2, b
  <2>5. a + b + PushedBytes + headers <= dataProcessed
    BY <2>1 DEF a, b
  <2>6. a2 + b + PushedBytes + headers <= dataProcessed
    BY <1>5, <2>2, <2>4, <2>5
  <2>7. QED
    BY <2>6 DEF headers, a2, b
<1>7. BytesLeft'
  BY <1>1, <1>2, <1>3, <1>6 DEF BytesLeft
<1>8. QED
  BY <1>7 DEF BytesInv

\* A step of the queue that moves no packet
LEMMA NothingMoved ==
    ASSUME BytesInv,
           UNCHANGED <<deque, packetData, numPackets, dataProcessed, hand, i, match, redundancy>>
    PROVE  BytesInv'
<1>1. /\ HandBytes' = HandBytes /\ DequeBytes' = DequeBytes /\ PushedBytes' = PushedBytes
      /\ Len(deque') = Len(deque)
  BY DEF HandBytes, Rest, From, DequeBytes, PushedBytes
<1>2. BytesLeft' <=> BytesLeft
  BY <1>1 DEF BytesLeft
<1>3. QED
  BY <1>2 DEF BytesInv

\* A packet that is read adds its own bytes and its header's.
LEMMA ReadBytes ==
    ASSUME L2Inv, BytesInv, ReadPacket, UNCHANGED <<redundancy, i, match>>
    PROVE  BytesInv'
<1> DEFINE n == ConsumerCount
           headers == HEADER * numPackets
<1>1. PICK t, s :
        /\ IsRunningSum(t, n, HandBytes)
        /\ IsRunningSum(s, Len(deque), DequeBytes)
        /\ redundancy + t[n] + s[Len(deque)] + PushedBytes + headers <= dataProcessed
  BY DEF BytesInv, BytesLeft
<1>2. PICK p \in Packets :
        packetData' = p /\ dataProcessed' = dataProcessed + Length[p] + HEADER
  BY DEF ReadPacket
<1>3. PushedBytes' = Length[p] /\ Length[p] \in Nat
  BY <1>2, PacketQueueAssumption DEF PushedBytes
<1>4. HandBytes' = HandBytes /\ DequeBytes' = DequeBytes /\ Len(deque') = Len(deque)
  BY DEF ReadPacket, HandBytes, Rest, From, DequeBytes
<1>5. t[n] \in Nat /\ s[Len(deque)] \in Nat
  BY <1>1, BytesAreNat, OrderOfConsumers, SumNotNegative
<1>6. /\ numPackets \in Nat /\ dataProcessed \in Nat /\ numPackets' = numPackets + 1
      /\ PushedBytes \in Nat /\ redundancy \in Nat /\ headers \in Nat
  BY BytesAreNat DEF BytesInv, HEADER, ReadPacket
<1>7. HEADER * numPackets' = headers + HEADER /\ HEADER \in Nat
  BY <1>6 DEF HEADER
<1> HIDE DEF n, headers
<1>8. dataProcessed' \in Nat /\ numPackets' \in Nat
  BY <1>2, <1>3, <1>6, <1>7
<1>9. redundancy + t[n] + s[Len(deque)] + Length[p] + (headers + HEADER) <= dataProcessed'
  <2> DEFINE a == redundancy + t[n]
             b == s[Len(deque)]
             l == Length[p]
  <2>1. a + b + PushedBytes + headers <= dataProcessed
    BY <1>1
  <2>2. dataProcessed' = dataProcessed + l + HEADER
    BY <1>2
  <2>3. a \in Int /\ b \in Int /\ l \in Int
    BY <1>3, <1>5, <1>6
  <2> HIDE DEF a, b, l
  <2>4. a + b + l + (headers + HEADER) <= dataProcessed'
    BY <1>6, <1>7, <2>1, <2>2, <2>3
  <2>5. QED
    BY <2>4 DEF a, b, l
<1>10. BytesLeft'
  BY <1>1, <1>3, <1>4, <1>7, <1>9 DEF BytesLeft, n
<1>11. QED
  BY <1>8, <1>10 DEF BytesInv

\* A packet that is pushed is in the deque instead.
LEMMA PushBytes ==
    ASSUME L2Inv, BytesInv, Push, UNCHANGED <<redundancy, i, match>>
    PROVE  BytesInv'
<1> DEFINE n == ConsumerCount
           headers == HEADER * numPackets
           len == Len(deque)
<1>1. PICK t, s :
        /\ IsRunningSum(t, n, HandBytes)
        /\ IsRunningSum(s, len, DequeBytes)
        /\ redundancy + t[n] + s[len] + PushedBytes + headers <= dataProcessed
  BY DEF BytesInv, BytesLeft
<1>2. packetData \in Packets /\ deque' = Append(deque, packetData) /\ packetData' = None
  BY DEF L2Inv, DequeOK, Push
<1>3. PushedBytes = Length[packetData] /\ PushedBytes \in Nat /\ PushedBytes' = 0
  BY <1>2, PacketQueueAssumption DEF PushedBytes
<1>4. HandBytes' = HandBytes
  BY DEF Push, HandBytes, Rest, From
<1>5. len \in Nat /\ Len(deque') = len + 1 /\ deque \in Seq(Packets)
  BY <1>2 DEF L2Inv, DequeOK
<1>6. /\ \A k \in 1 .. len : DequeBytes'[k] = DequeBytes[k]
      /\ DequeBytes'[len + 1] = PushedBytes
  BY <1>2, <1>3, <1>5 DEF DequeBytes
<1>7. PICK s2 : IsRunningSum(s2, len + 1, DequeBytes') /\ s2[len + 1] = s[len] + PushedBytes
  <2> DEFINE r == DequeBytes
             r2 == DequeBytes'
  <2>1. /\ \A k \in 1 .. len : r2[k] = r[k]
        /\ r2[len + 1] = PushedBytes
        /\ r2[len + 1] \in Int
        /\ IsRunningSum(s, len, r)
    BY <1>1, <1>3, <1>6
  <2> HIDE DEF r, r2, len
  <2>2. \E s2 : IsRunningSum(s2, len + 1, r2) /\ s2[len + 1] = s[len] + r2[len + 1]
    BY <1>5, <2>1, SumAppend
  <2>3. QED
    BY <2>1, <2>2 DEF r2
<1>8. t[n] \in Nat /\ s[len] \in Nat /\ redundancy \in Nat /\ headers \in Nat
      /\ dataProcessed \in Nat
  <2>1. t[n] \in Nat /\ s[len] \in Nat
    BY <1>1, BytesAreNat, OrderOfConsumers, SumNotNegative
  <2>2. QED
    BY <2>1, BytesAreNat DEF BytesInv, HEADER
<1> HIDE DEF n, headers, len
<1>9. redundancy + t[n] + s2[len + 1] + 0 + headers <= dataProcessed
  BY <1>1, <1>3, <1>7, <1>8
<1>10. /\ redundancy' = redundancy /\ numPackets' = numPackets
       /\ dataProcessed' = dataProcessed
  BY DEF Push
<1>11. BytesLeft'
  BY <1>1, <1>3, <1>4, <1>5, <1>7, <1>9, <1>10 DEF BytesLeft, n, headers
<1>12. QED
  BY <1>10, <1>11 DEF BytesInv

\* A packet that is popped is in the hand of its consumer instead.
LEMMA PopBytes ==
    ASSUME L2Inv, L2Inv', BytesInv, NEW c \in Consumers, PopFront(c),
           UNCHANGED <<redundancy, i, match>>
    PROVE  BytesInv'
<1> DEFINE n == ConsumerCount
           headers == HEADER * numPackets
           len == Len(deque)
           p == Head(deque)
<1>1. PICK t, s :
        /\ IsRunningSum(t, n, HandBytes)
        /\ IsRunningSum(s, len, DequeBytes)
        /\ redundancy + t[n] + s[len] + PushedBytes + headers <= dataProcessed
  BY DEF BytesInv, BytesLeft
<1>2. /\ deque \in Seq(Packets) /\ deque # <<>>
      /\ deque' = Tail(deque) /\ hand' = [hand EXCEPT ![c] = p]
      /\ hand \in [Consumers -> Packets \cup {None}]
  BY DEF L2Inv, DequeOK, Hands, PopFront
<1>3. len - 1 \in Nat /\ Len(deque') = len - 1 /\ p = deque[1] /\ p \in Packets
  BY <1>2
<1>4. Rest(c) = 0 /\ Rest(c)' \in Nat /\ Rest(c)' <= Length[p] /\ Length[p] \in Nat
  <2>1. Rest(c) = 0
    BY DEF PopFront, Goto, L2Inv, Hands, Rest
  <2>2. From(c) \in Nat /\ From(c)' = From(c)
    BY DEF From, L2Inv, Level2TypeOK
  <2>3. hand'[c] = p /\ p # None /\ Length[p] \in Nat
    BY <1>2, <1>3, PacketQueueAssumption
  <2>4. Rest(c)' = IF From(c) >= Length[p] THEN 0 ELSE Length[p] - From(c)
    BY <2>2, <2>3 DEF Rest
  <2> HIDE DEF p
  <2>5. QED
    BY <2>1, <2>2, <2>3, <2>4
<1>5. \A d \in Consumers : d # c => Rest(d)' = Rest(d)
  BY <1>2 DEF Rest, From
<1>6. PICK t2 : IsRunningSum(t2, n, HandBytes') /\ t2[n] = t[n] + (Rest(c)' - Rest(c))
  BY <1>1, <1>4, <1>5, RestChanges
<1>7. PICK s2 : IsRunningSum(s2, len - 1, DequeBytes') /\ s[len] = s2[len - 1] + Length[p]
  <2> DEFINE r == DequeBytes
             r2 == DequeBytes'
  <2>1. /\ len \in Nat /\ len # 0
        /\ \A k \in 1 .. len - 1 : r2[k] = r[k + 1]
        /\ r[1] = Length[p]
    BY <1>2, <1>3 DEF DequeBytes
  <2>2. \A k \in 1 .. len : r[k] \in Int
    BY <2>1, BytesAreNat
  <2>3. IsRunningSum(s, len, r)
    BY <1>1
  <2> HIDE DEF r, r2, len
  <2>4. \E s2 : IsRunningSum(s2, len - 1, r2) /\ s[len] = s2[len - 1] + r[1]
    BY <2>1, <2>2, <2>3, SumTail
  <2>5. QED
    BY <2>1, <2>4 DEF r2
<1>8. /\ t[n] \in Nat /\ s[len] \in Nat /\ redundancy \in Nat /\ headers \in Nat
      /\ dataProcessed \in Nat /\ PushedBytes \in Nat
  <2>1. t[n] \in Nat /\ s[len] \in Nat
    BY <1>1, BytesAreNat, OrderOfConsumers, SumNotNegative
  <2>2. QED
    BY <2>1, BytesAreNat DEF BytesInv, HEADER
<1>9. s2[len - 1] \in Int
  BY <1>3, <1>7, SMTT(30) DEF IsRunningSum
<1>10. /\ redundancy' = redundancy /\ numPackets' = numPackets
       /\ dataProcessed' = dataProcessed /\ PushedBytes' = PushedBytes
  BY DEF PopFront, producerVars, PushedBytes
<1> HIDE DEF n, headers, len, p
<1>11. redundancy + t2[n] + s2[len - 1] + PushedBytes + headers <= dataProcessed
  <2>1. t2[n] + s2[len - 1] <= t[n] + s[len] /\ t2[n] \in Int
    BY <1>4, <1>6, <1>7, <1>8, <1>9
  <2>2. QED
    BY <1>1, <1>8, <1>9, <2>1
<1>12. BytesLeft'
  BY <1>3, <1>6, <1>7, <1>10, <1>11 DEF BytesLeft, n, headers
<1>13. QED
  BY <1>10, <1>12 DEF BytesInv

\* Every other consumer's rest is left alone.
LEMMA OthersRest ==
    ASSUME NEW c \in Consumers, L2Inv, Work2(c)
    PROVE  \A d \in Consumers : d # c => Rest(d)' = Rest(d)
<1> USE DEF L2Inv, Level2TypeOK, Hands
<1>1. ASSUME NEW d \in Consumers, d # c
      PROVE  hand'[d] = hand[d] /\ i'[d] = i[d] /\ match'[d] = match[d]
  <2>1. CASE WindowMatches(c)
    BY <1>1, <2>1 DEF WindowMatches, vars
  <2>2. CASE WindowMisses(c)
    BY <1>1, <2>2 DEF WindowMisses
  <2>3. CASE Count(c)
    BY <1>1, <2>3 DEF Count
  <2>4. CASE EndOfPacket(c)
    BY <1>1, <2>4 DEF EndOfPacket, Process
  <2>5. QED
    BY <2>1, <2>2, <2>3, <2>4 DEF Work2
<1>2. QED
  BY <1>1 DEF Rest, From

\* A consumer's work counts no byte that is not left to it: after a run it goes
\* on behind the bytes it has counted.
LEMMA WorkBytes ==
    ASSUME L2Inv, BytesInv, NEW c \in Consumers, Work2(c)
    PROVE  BytesInv'
<1> USE PacketQueueAssumption, Level2Assumption
<1>1. UNCHANGED <<deque, packetData, numPackets, dataProcessed>>
  BY DEF Work2, WindowMatches, WindowMisses, Count, EndOfPacket, Process, vars, producerVars
<1>2. /\ hand \in [Consumers -> Packets \cup {None}] /\ i \in [Consumers -> Nat]
      /\ match \in [Consumers -> Nat \cup {-1}] /\ redundancy \in Nat
      /\ match[c] < i[c] /\ Rest(c) \in Nat
  BY BytesAreNat DEF L2Inv, Level2TypeOK, Hands
<1>3. SUFFICES /\ Rest(c)' \in Nat
               /\ redundancy' \in Nat
               /\ redundancy' + Rest(c)' <= redundancy + Rest(c)
  BY <1>1, OthersRest, ConsumerKeepsBytes
<1>4. CASE WindowMatches(c)
  <2>1. hand' = hand /\ redundancy' = redundancy
    BY <1>4 DEF WindowMatches, vars, tableVars
  <2>2. From(c)' = From(c)
    BY <1>2, <1>4 DEF WindowMatches, From
  <2>3. Rest(c)' = Rest(c)
    BY <2>1, <2>2 DEF Rest
  <2>4. QED
    BY <1>2, <2>1, <2>3
<1>5. CASE WindowMisses(c)
  <2>1. hand' = hand /\ redundancy' = redundancy /\ match' = match
    BY <1>5 DEF WindowMisses
  <2>2. hand[c] \in Packets /\ Length[hand[c]] \in Nat
    BY <1>5, InLoopFacts DEF WindowMisses
  <2>3. From(c)' \in Nat /\ From(c) \in Nat /\ From(c) <= From(c)'
    BY <1>2, <1>5, <2>1 DEF WindowMisses, From
  <2>4. Rest(c)' \in Nat /\ Rest(c)' <= Rest(c)
    BY <2>1, <2>2, <2>3 DEF Rest
  <2>5. QED
    BY <1>2, <2>1, <2>4
<1>6. CASE Count(c)
  <2> DEFINE L == Length[hand[c]]
             W == WINDOW_SIZE
             m == match[c]
             k == i[c]
  <2>1. hand[c] \in Packets /\ hand' = hand /\ L \in Nat
    BY <1>6 DEF L2Inv, Hands, Count, Goto
  <2>2. m \in Nat /\ k \in Nat /\ m < k /\ k <= L - W /\ W \in Nat \ {0}
    BY <1>2, <1>6 DEF L2Inv, RunsInPackets, RunInPacket, Count, Goto
  <2>3. redundancy' = redundancy + ((k + W - 1) - m)
    BY <1>6 DEF Count, RunLength
  <2>4. i'[c] = k + W + 1 /\ match'[c] = -1
    BY <1>2, <1>6 DEF Count, PastString
  <2>5. From(c) = m /\ From(c)' = k + W + 1
    BY <2>2, <2>4 DEF From
  <2>6. /\ Rest(c) = IF m >= L THEN 0 ELSE L - m
        /\ Rest(c)' = IF k + W + 1 >= L THEN 0 ELSE L - (k + W + 1)
    BY <2>1, <2>5, PacketQueueAssumption DEF Rest
  <2> HIDE DEF L, W, m, k
  <2>7. Rest(c) = L - m
    BY <2>1, <2>2, <2>6
  <2>8. Rest(c)' \in Nat /\ Rest(c)' + ((k + W - 1) - m) <= Rest(c)
    BY <2>1, <2>2, <2>6, <2>7
  <2>9. QED
    BY <1>2, <2>2, <2>3, <2>8
<1>7. CASE EndOfPacket(c)
  <2>1. redundancy' = redundancy /\ hand'[c] = None
    BY <1>2, <1>7 DEF EndOfPacket, Process, tableVars
  <2>2. Rest(c)' = 0
    BY <2>1 DEF Rest
  <2>3. QED
    BY <1>2, <2>1, <2>2
<1>8. QED
  BY <1>4, <1>5, <1>6, <1>7 DEF Work2

\* Every step leaves enough bytes.
LEMMA StepBytesInv ==
    ASSUME L2Inv, L2Inv', BytesInv, [Level2Next]_level2Vars
    PROVE  BytesInv'
<1>1. CASE QueueNext /\ UNCHANGED <<tableVars, loopVars>>
  <2>1. UNCHANGED <<redundancy, i, match>>
    BY <1>1 DEF tableVars, loopVars
  <2>2. CASE ReadPacket
    BY <2>1, <2>2, ReadBytes
  <2>3. CASE Push
    BY <2>1, <2>3, PushBytes
  <2>4. ASSUME NEW c \in Consumers, PopFront(c)
        PROVE  BytesInv'
    BY <2>1, <2>4, PopBytes
  <2>5. CASE Signal \/ EndOfFiles \/ Exit
    BY <2>1, <2>5, NothingMoved DEF Signal, EndOfFiles, Exit, producerVars
  <2>6. ASSUME NEW c \in Consumers,
               Lock(c) \/ FindEmpty(c) \/ Return(c) \/ DecideToWait(c) \/ CondWait(c)
                   \/ SpuriousWakeup(c)
        PROVE  BytesInv'
    BY <2>1, <2>6, NothingMoved
    DEF Lock, FindEmpty, Return, DecideToWait, CondWait, SpuriousWakeup, producerVars
  <2>7. QED
    BY <1>1, <2>2, <2>3, <2>4, <2>5, <2>6 DEF QueueNext, Producer, Consume
<1>2. ASSUME NEW c \in Consumers, Work2(c)
      PROVE  BytesInv'
  BY <1>2, WorkBytes
<1>3. CASE UNCHANGED level2Vars
  BY <1>3, NothingMoved DEF level2Vars, vars, tableVars, loopVars, producerVars
<1>4. QED
  BY <1>1, <1>2, <1>3 DEF Level2Next

\* Nothing is counted, and nothing is left to count.
LEMMA InitBytesInv ==
    ASSUME Level2Init
    PROVE  BytesInv
<1> DEFINE n == ConsumerCount
           t == [k \in 0 .. n |-> 0]
           s == [k \in 0 .. 0 |-> 0]
<1>1. n \in Nat /\ \A k \in 1 .. n : Order[k] \in Consumers
  BY OrderOfConsumers
<1>2. /\ deque = <<>> /\ packetData = None /\ redundancy = 0 /\ numPackets = 0
      /\ dataProcessed = 0 /\ \A c \in Consumers : hand[c] = None
  BY DEF Level2Init, Init
<1>3. \A k \in 1 .. n : HandBytes[k] = 0
  BY <1>1, <1>2 DEF HandBytes, Rest
<1>4. IsRunningSum(t, n, HandBytes) /\ t[n] = 0
  BY <1>1, <1>3 DEF IsRunningSum
<1>5. IsRunningSum(s, 0, DequeBytes) /\ s[0] = 0 /\ Len(deque) = 0
  BY <1>2 DEF IsRunningSum
<1>6. PushedBytes = 0 /\ HEADER * numPackets = 0
  BY <1>2 DEF PushedBytes, HEADER
<1> HIDE DEF n, t, s
<1>7. redundancy + t[n] + s[0] + PushedBytes + HEADER * numPackets <= dataProcessed
  BY <1>2, <1>4, <1>5, <1>6
<1>8. BytesLeft
  BY <1>4, <1>5, <1>7 DEF BytesLeft, n
<1>9. QED
  BY <1>2, <1>8 DEF BytesInv

\* At any moment no more has been counted as redundant than was read: runs do
\* not overlap, and what main() prints is below 100 percent.
THEOREM RedundancyStaysBounded == Level2SafeSpec => []RedundancyBounded
<1>1. Level2Init => BytesInv
  BY InitBytesInv
<1>2. L2Inv /\ L2Inv' /\ BytesInv /\ [Level2Next]_level2Vars => BytesInv'
  BY StepBytesInv
<1>3. L2Inv /\ BytesInv => RedundancyBounded
  BY BytesLeftBound
<1>4. QED
  BY <1>1, <1>2, <1>3, RunInvariant, PTL DEF Level2SafeSpec

-----------------------------------------------------------------------------
(* Refinement *)

\* The queue sees a window as a stutter and the end of the packet as the end of
\* the processing.
LEMMA WorkRefines ==
    ASSUME L2Inv, NEW c \in Consumers, Work2(c)
    PROVE  Queue!Process(c) \/ UNCHANGED Queue!vars
<1> USE DEF L2Inv, Level2TypeOK, Goto, QueuePc, producerVars, InDeque, Queue!vars,
            Queue!producerVars
<1>1. CASE WindowMatches(c)
  BY <1>1 DEF WindowMatches, vars
<1>2. CASE WindowMisses(c)
  <2>1. QueuePc' = QueuePc
    BY <1>2 DEF WindowMisses, InLoop
  <2>2. QED
    BY <1>2, <2>1 DEF WindowMisses
<1>3. CASE Count(c)
  <2>1. QueuePc' = QueuePc
    BY <1>3 DEF Count
  <2>2. QED
    BY <1>3, <2>1 DEF Count
<1>4. CASE EndOfPacket(c)
  BY <1>4 DEF EndOfPacket, Process, Queue!Process, Queue!Goto
<1>5. QED
  BY <1>1, <1>2, <1>3, <1>4 DEF Work2

\* The queue's own steps are its own.
LEMMA QueueStepRefines ==
    ASSUME L2Inv, QueueNext
    PROVE  Queue!QueueNext
<1> USE DEF L2Inv, Level2TypeOK, Goto, QueuePc, producerVars, Queue!producerVars,
            Queue!Goto, InDeque
<1>1. CASE ReadPacket
  BY <1>1 DEF ReadPacket, Queue!ReadPacket, Queue!HEADER, HEADER, Queue!QueueNext, Queue!Producer
<1>2. CASE Push
  BY <1>2 DEF Push, Queue!Push, Queue!QueueNext, Queue!Producer
<1>3. CASE Signal
  <2>1. Queue!Waiting = Waiting
    BY DEF Waiting, Queue!Waiting
  <2>2. ASSUME NEW c \in Waiting, pc' = [pc EXCEPT ![c] = "lock"]
        PROVE  QueuePc' = [QueuePc EXCEPT ![c] = "lock"]
    BY <2>2 DEF Waiting
  <2>3. UNCHANGED pc => UNCHANGED QueuePc
    OBVIOUS
  <2>4. Queue!Signal
    BY <1>3, <2>1, <2>2, <2>3 DEF Signal, Queue!Signal
  <2>5. QED
    BY <2>4 DEF Queue!QueueNext, Queue!Producer
<1>4. CASE EndOfFiles
  BY <1>4 DEF EndOfFiles, Queue!EndOfFiles, Queue!QueueNext, Queue!Producer
<1>5. ASSUME NEW c \in Consumers, Consume(c) \/ SpuriousWakeup(c)
      PROVE  Queue!Consume(c) \/ Queue!SpuriousWakeup(c)
  <2>1. CASE Lock(c)
    BY <2>1 DEF Lock, Queue!Lock, Queue!Consume
  <2>2. CASE PopFront(c)
    BY <2>2 DEF PopFront, Queue!PopFront, Queue!Consume
  <2>3. CASE FindEmpty(c)
    BY <2>3 DEF FindEmpty, Queue!FindEmpty, Queue!Consume
  <2>4. CASE Return(c)
    BY <2>4 DEF Return, Queue!Return, Queue!Consume
  <2>5. CASE DecideToWait(c)
    BY <2>5 DEF DecideToWait, Queue!DecideToWait, Queue!Consume
  <2>6. CASE CondWait(c)
    BY <2>6 DEF CondWait, Queue!CondWait, Queue!Consume
  <2>7. CASE SpuriousWakeup(c)
    BY <2>7 DEF SpuriousWakeup, Queue!SpuriousWakeup
  <2>8. QED
    BY <1>5, <2>1, <2>2, <2>3, <2>4, <2>5, <2>6, <2>7 DEF Consume
<1>6. CASE Exit
  BY <1>6 DEF Exit, Queue!Exit, Queue!QueueNext
<1>7. QED
  BY <1>1, <1>2, <1>3, <1>4, <1>5, <1>6 DEF QueueNext, Producer, Queue!QueueNext

\* Sliding a window over packets is a way to process them: whatever the queue
\* guarantees it guarantees with level 2.
THEOREM Level2ImplementsQueue == Level2SafeSpec => Queue!SafeSpec
<1>1. Level2Init => Queue!Init
  BY DEF Level2Init, Init, Queue!Init, QueuePc, producerVars, Queue!producerVars
<1>2. L2Inv /\ [Level2Next]_level2Vars => [Queue!Next]_(Queue!vars)
  <2> SUFFICES ASSUME L2Inv, [Level2Next]_level2Vars
               PROVE  [Queue!Next]_(Queue!vars)
    OBVIOUS
  <2>1. CASE QueueNext
    BY <2>1, QueueStepRefines DEF Queue!Next
  <2>2. ASSUME NEW c \in Consumers, Work2(c)
        PROVE  [Queue!Next]_(Queue!vars)
    BY <2>2, WorkRefines DEF Queue!Next
  <2>3. CASE UNCHANGED level2Vars
    BY <2>3 DEF level2Vars, vars, producerVars, QueuePc, Queue!vars, Queue!producerVars
  <2>4. QED
    BY <2>1, <2>2, <2>3 DEF Level2Next
<1>3. QED
  BY <1>1, <1>2, RunInvariant, PTL DEF Level2SafeSpec, Queue!SafeSpec

=============================================================================
