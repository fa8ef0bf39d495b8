---------------------------- MODULE Level1Proofs ----------------------------
(***************************************************************************)
(* Proofs about Level1, for every number of consumers and packets, every   *)
(* hash and every size of the table: what is found is a repeat, a packet   *)
(* with a slot of its own misses none of its repeats and none of its       *)
(* bytes, and looking packets up is a way to process them.                 *)
(***************************************************************************)
EXTENDS Level1, FiniteSetTheorems, WellFoundedInduction, TLAPS

\* What a consumer holds, and where
Hands ==
    /\ hand \in [Consumers -> Packets \cup {None}]
    /\ \A c \in Consumers : hand[c] # None <=> pc[c] \in {"process", "count"}

\* A packet is in the table, or was found, only after it has been looked up.
SeenBefore ==
    \A p \in Packets :
        \/ matched[p] < looked[p]
        \/ matched[p] = 0 /\ looked[p] = 0 /\ \A s \in Slots : packetSet[s] # p

\* A packet that shares its slot with no other is put there by the first
\* look-up and stays.
SlotKept ==
    \A p \in Packets : Alone(p) /\ looked[p] > 0 =>
        packetSet[index(p)] = p /\ matched[p] = looked[p] - 1

\* A packet is counted after its look-up, and its slot is never empty again.
CountedAfterLookUp ==
    \A c \in Consumers : pc[c] = "count" =>
        looked[hand[c]] > 0 /\ packetSet[index(hand[c])] # None

\* The queue's data that look-ups depend on
DequeOK == deque \in Seq(Packets) /\ packetData \in Packets \cup {None}
           /\ (reading = "push" => packetData # None)
           /\ Length \in [Packets -> Nat]

L1Inv == Level1TypeOK /\ Hands /\ DequeOK /\ SeenBefore /\ SlotKept /\ CountedAfterLookUp

-----------------------------------------------------------------------------

\* Every packet has a slot.
LEMMA IndexIsSlot ==
    ASSUME NEW p \in Packets
    PROVE  index(p) \in Slots
  BY Level1Assumption DEF index, Slots

\* The table is empty and nothing has been looked up.
LEMMA InitL1Inv ==
    ASSUME Level1Init
    PROVE  L1Inv
<1> USE PacketQueueAssumption DEF Level1Init, Init
<1>1. Level1TypeOK
  BY DEF Level1TypeOK, InDeque
<1>2. Hands /\ DequeOK
  BY DEF Hands, DequeOK
<1>3. SeenBefore /\ SlotKept /\ CountedAfterLookUp
  BY DEF SeenBefore, SlotKept, CountedAfterLookUp
<1>4. QED
  BY <1>1, <1>2, <1>3 DEF L1Inv

\* The queue's steps hand packets over, and leave the table alone.
LEMMA QueueStep ==
    ASSUME L1Inv, QueueNext, UNCHANGED tableVars
    PROVE  L1Inv'
<1> USE PacketQueueAssumption
    DEF L1Inv, Level1TypeOK, Hands, DequeOK, CountedAfterLookUp, Goto, producerVars, InDeque,
        tableVars
<1>1. SeenBefore' /\ SlotKept'
  BY DEF SeenBefore, SlotKept, Alone, index
<1>2. (\A s \in Slots : packetSet[s] # None => index(packetSet[s]) = s)'
  BY DEF index
<1>3. CASE ReadPacket
  BY <1>1, <1>2, <1>3 DEF ReadPacket
<1>4. CASE Push
  BY <1>1, <1>2, <1>4 DEF Push
<1>5. CASE Signal
  BY <1>1, <1>2, <1>5 DEF Signal, Waiting
<1>6. CASE EndOfFiles
  BY <1>1, <1>2, <1>6 DEF EndOfFiles
<1>7. ASSUME NEW c \in Consumers, PopFront(c) PROVE L1Inv'
  <2>1. Head(deque) \in Packets /\ Tail(deque) \in Seq(Packets)
    BY <1>7 DEF PopFront
  <2>2. QED
    BY <1>1, <1>2, <1>7, <2>1 DEF PopFront
<1>8. ASSUME NEW c \in Consumers, Lock(c) \/ FindEmpty(c) \/ Return(c) PROVE L1Inv'
  BY <1>1, <1>2, <1>8 DEF Lock, FindEmpty, Return
<1>9. ASSUME NEW c \in Consumers, DecideToWait(c) \/ CondWait(c) \/ SpuriousWakeup(c)
      PROVE  L1Inv'
  BY <1>1, <1>2, <1>9 DEF DecideToWait, CondWait, SpuriousWakeup
<1>10. CASE Exit
  BY <1>1, <1>2, <1>10 DEF Exit
<1>11. QED
  BY <1>3, <1>4, <1>5, <1>6, <1>7, <1>8, <1>9, <1>10 DEF QueueNext, Producer, Consume

\* A hit: the packet is in its slot, so it was looked up before.
LEMMA MatchStep ==
    ASSUME L1Inv, NEW c \in Consumers, Match(c)
    PROVE  L1Inv'
<1> DEFINE p == hand[c]
<1> USE DEF L1Inv, Match, LookUp, Matches
<1>1. p \in Packets /\ packetSet[index(p)] = p
  BY DEF Hands
<1>2. matched[p] < looked[p]
  BY <1>1, IndexIsSlot DEF SeenBefore
<1>3. Level1TypeOK'
  BY <1>1 DEF Level1TypeOK, Goto, InDeque, index
<1>4. Hands' /\ DequeOK'
  BY DEF Hands, DequeOK, Level1TypeOK, Goto, producerVars
<1>5. SeenBefore'
  BY <1>1, <1>2 DEF SeenBefore, Level1TypeOK
<1>6. SlotKept'
  BY <1>1, <1>2 DEF SlotKept, Level1TypeOK, Alone, index
<1>7. CountedAfterLookUp'
  BY <1>1 DEF CountedAfterLookUp, Level1TypeOK, Goto, Hands
<1>8. QED
  BY <1>3, <1>4, <1>5, <1>6, <1>7

\* A miss: a packet with a slot of its own has never been looked up before.
LEMMA StoreStep ==
    ASSUME L1Inv, NEW c \in Consumers, Store(c)
    PROVE  L1Inv'
<1> DEFINE p == hand[c]
           i == index(p)
<1> USE DEF L1Inv, Store, LookUp, TakeSlot, KeepSlot
<1>1. p \in Packets /\ i \in Slots /\ packetSet[i] # p
  BY IndexIsSlot, PacketQueueAssumption DEF Hands, Matches
<1>2. \/ packetSet' = [packetSet EXCEPT ![i] = p]
      \/ packetSet[i] # None /\ packetSet' = packetSet
  OBVIOUS
<1>3. Level1TypeOK'
  BY <1>1, <1>2 DEF Level1TypeOK, Goto, InDeque, index
<1>4. Hands' /\ DequeOK'
  BY PacketQueueAssumption DEF Hands, DequeOK, Level1TypeOK, Goto, producerVars
<1>5. SeenBefore'
  BY <1>1, <1>2 DEF SeenBefore, Level1TypeOK
<1>6. SlotKept'
  <2> SUFFICES ASSUME NEW q \in Packets, Alone(q), looked'[q] > 0
               PROVE  packetSet'[index(q)] = q /\ matched'[q] = looked'[q] - 1
    BY DEF SlotKept, Alone, index
  <2>1. CASE q = p
    <3>1. looked[p] = 0 /\ matched[p] = 0
      BY <1>1, <2>1 DEF SlotKept, SeenBefore, Level1TypeOK
    <3>2. packetSet[i] = None
      BY <1>1, <2>1 DEF Level1TypeOK, Alone
    <3>3. QED
      BY <1>1, <1>2, <2>1, <3>1, <3>2 DEF Level1TypeOK
  <2>2. CASE q # p
    <3>1. index(q) # i
      BY <1>1, <2>2 DEF Alone
    <3>2. QED
      BY <1>1, <1>2, <2>2, <3>1, IndexIsSlot DEF SlotKept, Level1TypeOK
  <2>3. QED
    BY <2>1, <2>2
<1>7. CountedAfterLookUp'
  <2> SUFFICES ASSUME NEW d \in Consumers, pc'[d] = "count"
               PROVE  looked'[hand'[d]] > 0 /\ packetSet'[index(hand'[d])] # None
    BY DEF CountedAfterLookUp, index
  <2>1. pc[d] = "count" /\ hand'[d] = hand[d] /\ hand[d] \in Packets
    BY PacketQueueAssumption DEF Level1TypeOK, Goto, Hands
  <2>2. looked[hand[d]] > 0 /\ packetSet[index(hand[d])] # None
    BY <2>1 DEF CountedAfterLookUp
  <2>3. looked'[hand[d]] > 0
    BY <1>1, <2>1, <2>2 DEF Level1TypeOK
  <2>4. packetSet'[index(hand[d])] # None
    BY <1>1, <1>2, <2>1, <2>2, IndexIsSlot, PacketQueueAssumption DEF Level1TypeOK
  <2>5. QED
    BY <2>1, <2>3, <2>4
<1>8. QED
  BY <1>3, <1>4, <1>5, <1>6, <1>7

\* The slot that is read for its length is never empty.
LEMMA CountStep ==
    ASSUME L1Inv, NEW c \in Consumers, Count(c)
    PROVE  L1Inv'
<1> USE DEF L1Inv, Count
<1>1. SlotLength(hand[c]) \in Nat
  BY IndexIsSlot DEF CountedAfterLookUp, Goto, Hands, Level1TypeOK, DequeOK, SlotLength
<1>2. Level1TypeOK'
  BY <1>1 DEF Level1TypeOK, Goto, InDeque, index
<1>3. Hands' /\ DequeOK'
  BY PacketQueueAssumption DEF Hands, DequeOK, Level1TypeOK, Goto, producerVars
<1>4. SeenBefore' /\ SlotKept'
  BY DEF SeenBefore, SlotKept, Alone, index
<1>5. CountedAfterLookUp'
  BY DEF CountedAfterLookUp, Level1TypeOK, Goto, Hands, index
<1>6. QED
  BY <1>2, <1>3, <1>4, <1>5

\* The invariant is inductive.
LEMMA StepL1Inv ==
    ASSUME L1Inv, [Level1Next]_level1Vars
    PROVE  L1Inv'
<1>1. CASE QueueNext /\ UNCHANGED tableVars
  BY <1>1, QueueStep
<1>2. ASSUME NEW c \in Consumers, Work1(c)
      PROVE  L1Inv'
  BY <1>2, MatchStep, StoreStep, CountStep DEF Work1
<1>3. CASE UNCHANGED level1Vars
  BY <1>3 DEF level1Vars, vars, tableVars, producerVars, L1Inv, Level1TypeOK, Hands,
              DequeOK, SeenBefore, SlotKept, CountedAfterLookUp, Alone, index, InDeque
<1>4. QED
  BY <1>1, <1>2, <1>3 DEF Level1Next

\* The invariant holds throughout.
THEOREM TableInvariant == Level1SafeSpec => []L1Inv
<1>1. Level1Init => L1Inv
  BY InitL1Inv
<1>2. L1Inv /\ [Level1Next]_level1Vars => L1Inv'
  BY StepL1Inv
<1>3. QED
  BY <1>1, <1>2, PTL DEF Level1SafeSpec

\* The table, the counters and the consumers have their types.
THEOREM Level1Types == Level1SafeSpec => []Level1TypeOK
<1>1. L1Inv => Level1TypeOK
  BY DEF L1Inv
<1>2. QED
  BY <1>1, TableInvariant, PTL

\* Only a packet that was looked up before is a hit.
THEOREM HitsWereSeen == Level1SafeSpec => []OnlyRepeatsMatch
<1>1. L1Inv => OnlyRepeatsMatch
  BY DEF L1Inv, SeenBefore, OnlyRepeatsMatch
<1>2. QED
  BY <1>1, TableInvariant, PTL

\* Every repeat of a packet with a slot of its own is a hit.
THEOREM RepeatsAreFound == Level1SafeSpec => []EveryRepeatHits
<1>1. L1Inv => EveryRepeatHits
  BY DEF L1Inv, SlotKept, EveryRepeatHits
<1>2. QED
  BY <1>1, TableInvariant, PTL

\* Its hit counts its bytes, though the slot is read without setMutex.
THEOREM HitsCountTheirBytes == Level1SafeSpec => HitCountsItsBytes
<1>1. ASSUME L1Inv, NEW c \in Consumers, Count(c), Alone(hand[c])
      PROVE  redundancy' = redundancy + Length[hand[c]]
  <2>1. hand[c] \in Packets /\ looked[hand[c]] > 0
    BY <1>1 DEF L1Inv, Count, Goto, CountedAfterLookUp, Hands
  <2>2. packetSet[index(hand[c])] = hand[c]
    BY <1>1, <2>1 DEF L1Inv, SlotKept
  <2>3. QED
    BY <1>1, <2>2 DEF Count, SlotLength
<1>2. L1Inv => \A c \in Consumers :
          Count(c) /\ Alone(hand[c]) => redundancy' = redundancy + Length[hand[c]]
  BY <1>1
<1>3. QED
  BY <1>2, TableInvariant, PTL DEF HitCountsItsBytes

-----------------------------------------------------------------------------
(* Every hit is counted once *)

\* A set of natural numbers has a least one.
LEMMA Least ==
    ASSUME NEW S \in SUBSET Nat, S # {}
    PROVE  \E x \in S : \A y \in S : x <= y
<1>1. PICK x \in S : \A y \in S : ~ (<<y, x>> \in OpToRel(<, Nat))
  BY NatLessThanWellFounded, WFMin
<1>2. ASSUME NEW y \in S
      PROVE  x <= y
  <2>1. y < x => <<y, x>> \in OpToRel(<, Nat)
    BY DEF OpToRel
  <2>2. ~(y < x)
    BY <1>1, <2>1, Zenon
  <2>3. QED
    BY <2>2
<1>3. QED
  BY <1>2

\* The element a fold takes out of a set next
Taken(s) == CHOOSE x \in s : TRUE

\* The sets of packets of which the sum is taken one after the other
SmallSets(n) == {s \in SUBSET Packets : Cardinality(s) <= n}

\* g is the sum of f over each of these sets: the recursive function in FoldSet().
IsSum(g, f, Sets) ==
    g = [s \in Sets |-> IF s = {} THEN 0 ELSE g[s \ {Taken(s)}] + f[Taken(s)]]

\* Sets of packets are finite, and lose one element when one is taken out.
LEMMA TakeOne ==
    ASSUME NEW s \in SUBSET Packets
    PROVE  /\ Cardinality(s) \in Nat
           /\ Cardinality(s) = 0 <=> s = {}
           /\ s # {} => /\ Taken(s) \in s
                        /\ s \ {Taken(s)} \in SUBSET Packets
                        /\ Cardinality(s \ {Taken(s)}) = Cardinality(s) - 1
<1>1. IsFiniteSet(s)
  BY FiniteAssumption, FS_Subset
<1>2. Cardinality(s) \in Nat /\ (Cardinality(s) = 0 <=> s = {})
  BY <1>1, FS_CardinalityType, FS_EmptySet
<1>3. s # {} => Taken(s) \in s
  BY DEF Taken
<1>4. s # {} => Cardinality(s \ {Taken(s)}) = Cardinality(s) - 1
  BY <1>1, <1>3, FS_RemoveElement
<1>5. QED
  BY <1>2, <1>3, <1>4

\* The recursive function of the sum exists.
LEMMA SumExists ==
    ASSUME NEW f, NEW n \in Nat
    PROVE  \E g : IsSum(g, f, SmallSets(n))
<1> DEFINE Missing == {m \in Nat : ~ \E g : IsSum(g, f, SmallSets(m))}
<1>1. SUFFICES ASSUME Missing # {} PROVE FALSE
  OBVIOUS
<1>2. PICK m \in Missing : \A k \in Missing : m <= k
  BY <1>1, Least
<1>3. CASE m = 0
  <2>1. ASSUME NEW s \in SmallSets(0)
        PROVE  s = {}
    <3>1. s \in SUBSET Packets /\ Cardinality(s) <= 0
      BY DEF SmallSets
    <3>2. Cardinality(s) \in Nat /\ (Cardinality(s) = 0 <=> s = {})
      BY <3>1, TakeOne
    <3>3. QED
      BY <3>1, <3>2
  <2>2. IsSum([s \in SmallSets(0) |-> 0], f, SmallSets(0))
    BY <2>1 DEF IsSum
  <2>3. QED
    BY <1>3, <2>2
<1>4. CASE m # 0
  <2>1. m - 1 \in Nat /\ m - 1 \notin Missing
    BY <1>2, <1>4
  <2>2. PICK g : IsSum(g, f, SmallSets(m - 1))
    BY <2>1
  <2> DEFINE value(s) == IF s = {} THEN 0 ELSE g[s \ {Taken(s)}] + f[Taken(s)]
             h == [s \in SmallSets(m) |-> value(s)]
  <2>3. ASSUME NEW s \in SmallSets(m - 1)
        PROVE  h[s] = g[s]
    <3>1. s \in SmallSets(m)
      <4>1. s \in SUBSET Packets /\ Cardinality(s) <= m - 1
        BY DEF SmallSets
      <4>2. Cardinality(s) \in Nat
        BY <4>1, TakeOne
      <4>3. Cardinality(s) <= m
        BY <2>1, <4>1, <4>2
      <4>4. QED
        BY <4>1, <4>3 DEF SmallSets
    <3>2. g[s] = value(s)
      BY <2>2 DEF IsSum
    <3>3. QED
      BY <3>1, <3>2
  <2>4. ASSUME NEW s \in SmallSets(m), s # {}
        PROVE  s \ {Taken(s)} \in SmallSets(m - 1)
    <3> DEFINE r == s \ {Taken(s)}
    <3>1. s \in SUBSET Packets /\ Cardinality(s) <= m
      BY DEF SmallSets
    <3>2. /\ Cardinality(s) \in Nat
          /\ r \in SUBSET Packets
          /\ Cardinality(r) = Cardinality(s) - 1
      BY <2>4, <3>1, TakeOne
    <3> HIDE DEF r
    <3>3. Cardinality(r) <= m - 1
      BY <2>1, <3>1, <3>2
    <3>4. r \in SmallSets(m - 1)
      BY <3>2, <3>3 DEF SmallSets
    <3>5. QED
      BY <3>4 DEF r
  <2>5. ASSUME NEW s \in SmallSets(m)
        PROVE  h[s] = IF s = {} THEN 0 ELSE h[s \ {Taken(s)}] + f[Taken(s)]
    <3>1. h[s] = value(s)
      OBVIOUS
    <3>2. s # {} => h[s \ {Taken(s)}] = g[s \ {Taken(s)}]
      BY <2>3, <2>4
    <3> HIDE DEF h
    <3>3. QED
      BY <3>1, <3>2
  <2>6. IsSum(h, f, SmallSets(m))
    BY <2>5 DEF IsSum
  <2>7. QED
    BY <2>6
<1>5. QED
  BY <1>2, <1>3, <1>4

\* SumOver(f) is its recursive function at the set of all packets.
LEMMA SumOverBy ==
    ASSUME NEW f
    PROVE  \E g : IsSum(g, f, SUBSET Packets) /\ SumOver(f) = g[Packets]
<1> DEFINE G == CHOOSE g : IsSum(g, f, SUBSET Packets)
<1>1. SmallSets(Cardinality(Packets)) = SUBSET Packets /\ Cardinality(Packets) \in Nat
  <2>1. \A s \in SUBSET Packets : Cardinality(s) <= Cardinality(Packets)
    BY FiniteAssumption, FS_Subset
  <2>2. Cardinality(Packets) \in Nat
    BY FiniteAssumption, FS_CardinalityType
  <2>3. QED
    BY <2>1, <2>2 DEF SmallSets
<1>2. \E g : IsSum(g, f, SUBSET Packets)
  <2> DEFINE size == Cardinality(Packets)
  <2>1. size \in Nat /\ SmallSets(size) = SUBSET Packets
    BY <1>1
  <2> HIDE DEF size
  <2>2. \E g : IsSum(g, f, SmallSets(size))
    BY <2>1, SumExists
  <2>3. QED
    BY <2>1, <2>2
<1>3. IsSum(G, f, SUBSET Packets)
  BY <1>2
<1>4. SumOver(f) = G[Packets]
  BY DEF SumOver, FoldSet, MapThenFoldSet, IsSum, Taken
<1>5. QED
  BY <1>3, <1>4

\* A number of each set of packets is right for all if it is for the empty one,
\* and for a set whenever it is for the set without one element.
LEMMA OneByOne ==
    ASSUME NEW Right \in SUBSET (SUBSET Packets),
           {} \in Right,
           \A s \in SUBSET Packets : s # {} /\ s \ {Taken(s)} \in Right => s \in Right
    PROVE  Right = SUBSET Packets
<1> DEFINE Sizes == {Cardinality(s) : s \in (SUBSET Packets) \ Right}
<1>1. SUFFICES ASSUME Right # SUBSET Packets PROVE FALSE
  OBVIOUS
<1>2. Sizes \in SUBSET Nat /\ Sizes # {}
  <2>1. \A s \in SUBSET Packets : Cardinality(s) \in Nat
    BY TakeOne
  <2>2. \E s \in SUBSET Packets : s \notin Right
    BY <1>1
  <2>3. QED
    BY <2>1, <2>2
<1>3. PICK m \in Sizes : \A k \in Sizes : m <= k
  BY <1>2, Least
<1>4. PICK s \in (SUBSET Packets) \ Right : m = Cardinality(s)
  BY <1>3
<1> DEFINE r == s \ {Taken(s)}
<1>5. s # {} /\ r \notin Right
  BY <1>4
<1>6. /\ Cardinality(s) \in Nat
      /\ r \in SUBSET Packets
      /\ Cardinality(r) = Cardinality(s) - 1
  BY <1>4, <1>5, TakeOne
<1>7. Cardinality(r) \in Sizes
  BY <1>5, <1>6
<1> HIDE DEF r, Sizes
<1>8. Cardinality(s) <= Cardinality(r)
  BY <1>3, <1>4, <1>7
<1>9. QED
  BY <1>6, <1>8

\* The sum at a set, by the sum without the element taken out
LEMMA SumAt ==
    ASSUME NEW g, NEW f, IsSum(g, f, SUBSET Packets)
    PROVE  /\ g[{}] = 0
           /\ \A s \in SUBSET Packets :
                s # {} => g[s] = g[s \ {Taken(s)}] + f[Taken(s)]
<1>1. \A s \in SUBSET Packets :
        g[s] = IF s = {} THEN 0 ELSE g[s \ {Taken(s)}] + f[Taken(s)]
  BY DEF IsSum
<1>2. {} \in SUBSET Packets
  OBVIOUS
<1>3. QED
  BY <1>1, <1>2, Zenon

\* A sum of natural numbers is one.
LEMMA SumIsNat ==
    ASSUME NEW f \in [Packets -> Nat]
    PROVE  SumOver(f) \in Nat
<1>1. PICK g : IsSum(g, f, SUBSET Packets) /\ SumOver(f) = g[Packets]
  BY SumOverBy
<1>g. /\ g[{}] = 0
      /\ \A s \in SUBSET Packets : s # {} => g[s] = g[s \ {Taken(s)}] + f[Taken(s)]
  <2>1. IsSum(g, f, SUBSET Packets)
    BY <1>1
  <2>2. QED
    BY <2>1, SumAt
<1> DEFINE Right == {s \in SUBSET Packets : g[s] \in Nat}
<1>2. {} \in Right
  BY <1>g
<1>3. ASSUME NEW s \in SUBSET Packets, s # {}, s \ {Taken(s)} \in Right
      PROVE  s \in Right
  <2>1. g[s] = g[s \ {Taken(s)}] + f[Taken(s)]
    BY <1>g, <1>3, Zenon
  <2>2. g[s \ {Taken(s)}] \in Nat /\ f[Taken(s)] \in Nat
    BY <1>3, TakeOne
  <2>3. QED
    BY <2>1, <2>2
<1>4. Right = SUBSET Packets
  <2> HIDE DEF Right
  <2>1. \A s \in SUBSET Packets : s # {} /\ s \ {Taken(s)} \in Right => s \in Right
    BY <1>3
  <2>2. Right \in SUBSET (SUBSET Packets)
    BY DEF Right
  <2>3. QED
    BY <1>2, <2>1, <2>2, OneByOne
<1>5. QED
  BY <1>1, <1>4

\* A sum of zeros is zero.
LEMMA SumOfZeros == SumOver([p \in Packets |-> 0]) = 0
<1> DEFINE f == [p \in Packets |-> 0]
<1>0. \A p \in Packets : f[p] = 0
  OBVIOUS
<1> HIDE DEF f
<1>1. PICK g : IsSum(g, f, SUBSET Packets) /\ SumOver(f) = g[Packets]
  BY SumOverBy
<1>g. /\ g[{}] = 0
      /\ \A s \in SUBSET Packets : s # {} => g[s] = g[s \ {Taken(s)}] + f[Taken(s)]
  <2>1. IsSum(g, f, SUBSET Packets)
    BY <1>1
  <2>2. QED
    BY <2>1, SumAt
<1> DEFINE Right == {s \in SUBSET Packets : g[s] = 0}
<1>2. {} \in Right
  BY <1>g
<1>3. ASSUME NEW s \in SUBSET Packets, s # {}, s \ {Taken(s)} \in Right
      PROVE  s \in Right
  <2>1. g[s] = g[s \ {Taken(s)}] + f[Taken(s)]
    BY <1>g, <1>3, Zenon
  <2>2. g[s \ {Taken(s)}] = 0 /\ f[Taken(s)] = 0
    BY <1>0, <1>3, TakeOne
  <2>3. QED
    BY <2>1, <2>2
<1>4. Right = SUBSET Packets
  <2> HIDE DEF Right
  <2>1. \A s \in SUBSET Packets : s # {} /\ s \ {Taken(s)} \in Right => s \in Right
    BY <1>3
  <2>2. Right \in SUBSET (SUBSET Packets)
    BY DEF Right
  <2>3. QED
    BY <1>2, <2>1, <2>2, OneByOne
<1>5. QED
  BY <1>1, <1>4 DEF f

\* One more at one packet is one more in the sum.
LEMMA SumOneMore ==
    ASSUME NEW f \in [Packets -> Nat], NEW p \in Packets
    PROVE  SumOver([f EXCEPT ![p] = @ + 1]) = SumOver(f) + 1
<1> DEFINE h == [f EXCEPT ![p] = @ + 1]
<1>0. \A q \in Packets : h[q] = f[q] + (IF q = p THEN 1 ELSE 0)
  OBVIOUS
<1> HIDE DEF h
<1>1. PICK g : IsSum(g, f, SUBSET Packets) /\ SumOver(f) = g[Packets]
  BY SumOverBy
<1>2. PICK k : IsSum(k, h, SUBSET Packets) /\ SumOver(h) = k[Packets]
  BY SumOverBy
<1>g. /\ g[{}] = 0
      /\ \A s \in SUBSET Packets : s # {} => g[s] = g[s \ {Taken(s)}] + f[Taken(s)]
  <2>1. IsSum(g, f, SUBSET Packets)
    BY <1>1
  <2>2. QED
    BY <2>1, SumAt
<1>k. /\ k[{}] = 0
      /\ \A s \in SUBSET Packets : s # {} => k[s] = k[s \ {Taken(s)}] + h[Taken(s)]
  <2>1. IsSum(k, h, SUBSET Packets)
    BY <1>2
  <2>2. QED
    BY <2>1, SumAt
<1> DEFINE more(s) == IF p \in s THEN 1 ELSE 0
           Right == {s \in SUBSET Packets : g[s] \in Nat /\ k[s] = g[s] + more(s)}
<1>3. {} \in Right
  BY <1>g, <1>k
<1>4. ASSUME NEW s \in SUBSET Packets, s # {}, s \ {Taken(s)} \in Right
      PROVE  s \in Right
  <2> DEFINE r == s \ {Taken(s)}
             t == Taken(s)
  <2>1. g[s] = g[r] + f[t] /\ k[s] = k[r] + h[t]
    BY <1>g, <1>k, <1>4, Zenon
  <2>2. g[r] \in Nat /\ k[r] = g[r] + more(r)
    BY <1>4
  <2>3. t \in s /\ t \in Packets
    BY <1>4, TakeOne
  <2>4. f[t] \in Nat /\ h[t] = f[t] + (IF t = p THEN 1 ELSE 0)
    BY <1>0, <2>3
  <2>5. more(s) = more(r) + (IF t = p THEN 1 ELSE 0) /\ more(r) \in Nat
    BY <2>3
  <2> HIDE DEF r, t, more
  <2>6. g[s] \in Nat /\ k[s] = g[s] + more(s)
    BY <2>1, <2>2, <2>4, <2>5
  <2>7. QED
    BY <2>6
<1>5. Right = SUBSET Packets
  <2> HIDE DEF Right
  <2>1. \A s \in SUBSET Packets : s # {} /\ s \ {Taken(s)} \in Right => s \in Right
    BY <1>4
  <2>2. Right \in SUBSET (SUBSET Packets)
    BY DEF Right
  <2>3. QED
    BY <1>3, <2>1, <2>2, OneByOne
<1>6. k[Packets] = g[Packets] + more(Packets)
  BY <1>5
<1>7. QED
  BY <1>1, <1>2, <1>6 DEF h

\* A consumer comes to count, or leaves.
LEMMA CountingChanges ==
    ASSUME Level1TypeOK, NEW c \in Consumers
    PROVE  /\ Cardinality(Counting) \in Nat
           /\ Goto(c, "process", "count") => Cardinality(Counting') = Cardinality(Counting) + 1
           /\ Goto(c, "count", "lock") => Cardinality(Counting') = Cardinality(Counting) - 1
<1>1. IsFiniteSet(Counting)
  BY FiniteAssumption, FS_Subset DEF Counting
<1>2. Goto(c, "process", "count") => Counting' = Counting \cup {c} /\ c \notin Counting
  BY DEF Goto, Counting, Level1TypeOK
<1>3. Goto(c, "count", "lock") => Counting' = Counting \ {c} /\ c \in Counting
  BY DEF Goto, Counting, Level1TypeOK
<1>4. QED
  BY <1>1, <1>2, <1>3, FS_CardinalityType, FS_AddElement, FS_RemoveElement

\* The queue's steps neither begin nor end a count.
LEMMA QueueKeepsCounting ==
    ASSUME L1Inv, QueueNext
    PROVE  Counting' = Counting
  BY DEF L1Inv, Level1TypeOK, QueueNext, Producer, Consume, ReadPacket, Push, Signal, Waiting,
         EndOfFiles, Lock, PopFront, FindEmpty, Return, DecideToWait, CondWait,
         SpuriousWakeup, Exit, Goto, Counting

\* Every step keeps the hits, those not counted yet included, in step with what
\* has been found.
LEMMA StepHitsCounted ==
    ASSUME L1Inv, HitsCountedOnce, [Level1Next]_level1Vars
    PROVE  HitsCountedOnce'
<1> DEFINE counting == Cardinality(Counting)
           sum == SumOver(matched)
<1>1. hits \in Nat /\ matched \in [Packets -> Nat] /\ Level1TypeOK
  BY DEF L1Inv, Level1TypeOK
<1>2. hits + counting = sum /\ sum \in Nat
  BY <1>1, SumIsNat DEF HitsCountedOnce
<1>3. HitsCountedOnce' <=> hits' + Cardinality(Counting') = SumOver(matched')
  BY DEF HitsCountedOnce
<1>4. CASE QueueNext /\ UNCHANGED tableVars
  BY <1>2, <1>3, <1>4, QueueKeepsCounting DEF tableVars
<1>5. ASSUME NEW c \in Consumers, Match(c)
      PROVE  HitsCountedOnce'
  <2>1. hits' = hits /\ Goto(c, "process", "count")
    BY <1>5 DEF Match, LookUp
  <2>2. counting \in Nat /\ Cardinality(Counting') = counting + 1
    BY <1>1, <2>1, CountingChanges
  <2>3. hand[c] \in Packets
    BY <1>5 DEF L1Inv, Hands, Match, LookUp
  <2>4. SumOver(matched') = sum + 1
    BY <1>1, <1>5, <2>3, SumOneMore DEF Match
  <2> HIDE DEF counting, sum
  <2>5. QED
    BY <1>1, <1>2, <1>3, <2>1, <2>2, <2>4
<1>6. ASSUME NEW c \in Consumers, Store(c)
      PROVE  HitsCountedOnce'
  <2>1. hits' = hits /\ matched' = matched /\ Counting' = Counting
    BY <1>1, <1>6 DEF Store, LookUp, Goto, Counting, Level1TypeOK
  <2>2. QED
    BY <1>2, <1>3, <2>1
<1>7. ASSUME NEW c \in Consumers, Count(c)
      PROVE  HitsCountedOnce'
  <2>1. hits' = hits + 1 /\ matched' = matched /\ Goto(c, "count", "lock")
    BY <1>7 DEF Count
  <2>2. counting \in Nat /\ Cardinality(Counting') = counting - 1
    BY <1>1, <2>1, CountingChanges
  <2> HIDE DEF counting, sum
  <2>3. SumOver(matched') = sum
    BY <2>1 DEF sum
  <2>4. QED
    BY <1>1, <1>2, <1>3, <2>1, <2>2, <2>3
<1>8. CASE UNCHANGED level1Vars
  <2>1. hits' = hits /\ matched' = matched /\ Counting' = Counting
    BY <1>8 DEF level1Vars, vars, tableVars, Counting
  <2>2. QED
    BY <1>2, <1>3, <2>1
<1>9. QED
  BY <1>4, <1>5, <1>6, <1>7, <1>8 DEF Level1Next, Work1

\* Every hit is of a packet seen before, and is counted once.
THEOREM HitsAreCountedRepeats == Level1SafeSpec => []HitsAreRepeats
<1>1. Level1Init => HitsCountedOnce
  <2> SUFFICES ASSUME Level1Init PROVE HitsCountedOnce
    OBVIOUS
  <2>1. hits = 0 /\ matched = [p \in Packets |-> 0] /\ Counting = {}
    BY DEF Level1Init, Init, Counting
  <2>2. SumOver(matched) = 0
    BY <2>1, SumOfZeros
  <2>3. QED
    BY <2>1, <2>2, FS_EmptySet DEF HitsCountedOnce
<1>2. L1Inv /\ HitsCountedOnce /\ [Level1Next]_level1Vars => HitsCountedOnce'
  BY StepHitsCounted
<1>3. L1Inv => OnlyRepeatsMatch
  BY DEF L1Inv, SeenBefore, OnlyRepeatsMatch
<1>4. HitsCountedOnce /\ OnlyRepeatsMatch => HitsAreRepeats
  BY DEF HitsAreRepeats
<1>5. QED
  BY <1>1, <1>2, <1>3, <1>4, TableInvariant, PTL DEF Level1SafeSpec

-----------------------------------------------------------------------------
(* Refinement *)

\* The queue sees a look-up as a stutter or as the end of the processing.
LEMMA WorkRefines ==
    ASSUME L1Inv, NEW c \in Consumers, Work1(c)
    PROVE  Queue!Process(c) \/ UNCHANGED Queue!vars
<1> USE DEF L1Inv, Level1TypeOK, LookUp, Goto, QueuePc, producerVars, InDeque
<1>1. CASE Match(c)
  <2>1. QueuePc' = QueuePc
    BY <1>1 DEF Match
  <2>2. QED
    BY <1>1, <2>1 DEF Match, Queue!vars, Queue!producerVars
<1>2. CASE Store(c)
  BY <1>2 DEF Store, Queue!Process, Queue!Goto, Queue!producerVars
<1>3. CASE Count(c)
  BY <1>3 DEF Count, Queue!Process, Queue!Goto, Queue!producerVars
<1>4. QED
  BY <1>1, <1>2, <1>3 DEF Work1

\* The queue's own steps are its own.
LEMMA QueueStepRefines ==
    ASSUME L1Inv, QueueNext
    PROVE  Queue!QueueNext
<1> USE DEF L1Inv, Level1TypeOK, Goto, QueuePc, producerVars, Queue!producerVars,
            Queue!Goto, InDeque
<1>1. CASE ReadPacket
  BY <1>1 DEF ReadPacket, Queue!ReadPacket, Queue!HEADER, HEADER, Queue!QueueNext, Queue!Producer
<1>2. CASE Push
  BY <1>2 DEF Push, Queue!Push, Queue!QueueNext, Queue!Producer
<1>3. CASE Signal
  <2>1. Queue!Waiting = Waiting
    BY DEF Waiting, Queue!Waiting
  <2>2. ASSUME NEW c \in Waiting, pc' = [pc EXCEPT ![c] = "lock"]
        PROVE  QueuePc' = [QueuePc EXCEPT ![c] = "lock"]
    BY <2>2 DEF Waiting
  <2>3. UNCHANGED pc => UNCHANGED QueuePc
    OBVIOUS
  <2>4. Queue!Signal
    BY <1>3, <2>1, <2>2, <2>3 DEF Signal, Queue!Signal
  <2>5. QED
    BY <2>4 DEF Queue!QueueNext, Queue!Producer
<1>4. CASE EndOfFiles
  BY <1>4 DEF EndOfFiles, Queue!EndOfFiles, Queue!QueueNext, Queue!Producer
<1>5. ASSUME NEW c \in Consumers, Consume(c) \/ SpuriousWakeup(c)
      PROVE  Queue!Consume(c) \/ Queue!SpuriousWakeup(c)
  <2>1. CASE Lock(c)
    BY <2>1 DEF Lock, Queue!Lock, Queue!Consume
  <2>2. CASE PopFront(c)
    BY <2>2 DEF PopFront, Queue!PopFront, Queue!Consume
  <2>3. CASE FindEmpty(c)
    BY <2>3 DEF FindEmpty, Queue!FindEmpty, Queue!Consume
  <2>4. CASE Return(c)
    BY <2>4 DEF Return, Queue!Return, Queue!Consume
  <2>5. CASE DecideToWait(c)
    BY <2>5 DEF DecideToWait, Queue!DecideToWait, Queue!Consume
  <2>6. CASE CondWait(c)
    BY <2>6 DEF CondWait, Queue!CondWait, Queue!Consume
  <2>7. CASE SpuriousWakeup(c)
    BY <2>7 DEF SpuriousWakeup, Queue!SpuriousWakeup
  <2>8. QED
    BY <1>5, <2>1, <2>2, <2>3, <2>4, <2>5, <2>6, <2>7 DEF Consume
<1>6. CASE Exit
  BY <1>6 DEF Exit, Queue!Exit, Queue!QueueNext
<1>7. QED
  BY <1>1, <1>2, <1>3, <1>4, <1>5, <1>6 DEF QueueNext, Producer, Queue!QueueNext

\* Looking packets up is a way to process them: whatever the queue guarantees
\* it guarantees with level 1.
THEOREM Level1ImplementsQueue == Level1SafeSpec => Queue!SafeSpec
<1>1. Level1Init => Queue!Init
  BY DEF Level1Init, Init, Queue!Init, QueuePc, producerVars, Queue!producerVars
<1>2. L1Inv /\ [Level1Next]_level1Vars => [Queue!Next]_(Queue!vars)
  <2> SUFFICES ASSUME L1Inv, [Level1Next]_level1Vars
               PROVE  [Queue!Next]_(Queue!vars)
    OBVIOUS
  <2>1. CASE QueueNext
    BY <2>1, QueueStepRefines DEF Queue!Next
  <2>2. ASSUME NEW c \in Consumers, Work1(c)
        PROVE  [Queue!Next]_(Queue!vars)
    BY <2>2, WorkRefines DEF Queue!Next
  <2>3. CASE UNCHANGED level1Vars
    BY <2>3 DEF level1Vars, vars, producerVars, QueuePc, Queue!vars, Queue!producerVars
  <2>4. QED
    BY <2>1, <2>2, <2>3 DEF Level1Next
<1>3. QED
  BY <1>1, <1>2, TableInvariant, PTL DEF Level1SafeSpec, Queue!SafeSpec

=============================================================================
