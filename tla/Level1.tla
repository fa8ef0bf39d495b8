------------------------------- MODULE Level1 -------------------------------
(***************************************************************************)
(* Level 1 of project4/threadedRE.cpp: a consumer looks its whole packet   *)
(* up in a hash table that all consumers share.  The queue is PacketQueue, *)
(* whose step Process becomes the steps Store, or Match and Count.         *)
(*                                                                         *)
(* A slot is abstracted to the packet it holds: hash, data and length are  *)
(* always written together, under setMutex.                                *)
(***************************************************************************)
EXTENDS PacketQueue, FiniteSetsExt

CONSTANTS
    Hash,       \* SpookyHash's 32-bit hash of each packet
    ARR_SIZE    \* slots of the table

ASSUME Level1Assumption ==
    /\ Hash \in [Packets -> Nat]
    /\ ARR_SIZE \in Nat \ {0}

VARIABLES
    packetSet,      \* the packet in each slot; None where valid is 0
    hits,
    redundancy,
    looked,         \* history: how often each packet was looked up
    matched         \* history: how often each packet was found

tableVars == <<packetSet, hits, redundancy, looked, matched>>
level1Vars == <<vars, tableVars>>

Slots == 0 .. ARR_SIZE - 1

Level1Init ==
    /\ Init
    /\ packetSet = [s \in Slots |-> None]
    /\ hits = 0
    /\ redundancy = 0
    /\ looked = [p \in Packets |-> 0]
    /\ matched = [p \in Packets |-> 0]

index(p) == Hash[p] % ARR_SIZE

\* Mutant: the hash alone decides.
MatchesHash(slot, p) == slot # None /\ Hash[slot] = Hash[p]

\* Valid, the same hash, and memcmp() finds the same bytes
Matches(slot, p) ==
    /\ slot # None
    /\ Hash[slot] = Hash[p]
    /\ slot = p

\* The consumer's critical section under setMutex, and nothing else of it
LookUp(c) ==
    /\ pc[c] = "process"
    /\ looked' = [looked EXCEPT ![hand[c]] = @ + 1]
    /\ UNCHANGED <<deque, DONE, owner, producerVars, spurious, exited,
                   hits, redundancy>>

\* A hit; setMutex is released before counterMutex is taken.
Match(c) ==
    /\ LookUp(c)
    /\ Matches(packetSet[index(hand[c])], hand[c])
    /\ matched' = [matched EXCEPT ![hand[c]] = @ + 1]
    /\ Goto(c, "process", "count")
    /\ UNCHANGED <<packetSet, hand>>

\* Mutant: an empty slot may stay empty.
KeepAnySlot(s) == UNCHANGED packetSet

TakeSlot(s, p) == packetSet' = [packetSet EXCEPT ![s] = p]
KeepSlot(s) == packetSet[s] # None /\ UNCHANGED packetSet

\* A miss takes an empty slot; a collision takes the slot or, at random, not.
Store(c) ==
    LET i == index(hand[c])
    IN  /\ LookUp(c)
        /\ ~Matches(packetSet[i], hand[c])
        /\ TakeSlot(i, hand[c]) \/ KeepSlot(i)
        /\ Goto(c, "process", "lock")
        /\ hand' = [hand EXCEPT ![c] = None]
        /\ UNCHANGED matched

\* Mutant: the header is counted too.
SlotLengthWithHeader(p) == Length[packetSet[index(p)]] + HEADER

SlotLength(p) == Length[packetSet[index(p)]]

\* Mutant: the consumer returns after a hit.
CountAndReturn(c) ==
    /\ Goto(c, "count", "returned")
    /\ hits' = hits + 1
    /\ redundancy' = redundancy + SlotLength(hand[c])
    /\ hand' = [hand EXCEPT ![c] = None]
    /\ UNCHANGED <<deque, DONE, owner, producerVars, spurious, exited,
                   packetSet, looked, matched>>

\* The critical section under counterMutex: it reads the slot's length, which
\* setMutex no longer protects.  The length is written in one store, so the
\* race yields the old or the new one.
Count(c) ==
    /\ Goto(c, "count", "lock")
    /\ hits' = hits + 1
    /\ redundancy' = redundancy + SlotLength(hand[c])
    /\ hand' = [hand EXCEPT ![c] = None]
    /\ UNCHANGED <<deque, DONE, owner, producerVars, spurious, exited,
                   packetSet, looked, matched>>

Work1(c) == Match(c) \/ Store(c) \/ Count(c)

Level1Next ==
    \/ QueueNext /\ UNCHANGED tableVars
    \/ \E c \in Consumers : Work1(c)

Level1SafeSpec == Level1Init /\ [][Level1Next]_level1Vars

Level1Spec ==
    /\ Level1SafeSpec
    /\ WF_level1Vars(Producer /\ UNCHANGED tableVars)
    /\ \A c \in Consumers :
         WF_level1Vars((Consume(c) /\ UNCHANGED tableVars) \/ Work1(c))
    /\ WF_level1Vars(Exit /\ UNCHANGED tableVars)

-----------------------------------------------------------------------------
(* Properties *)

Counting == {c \in Consumers : pc[c] = "count"}

\* The sum of f over the packets
SumOver(f) == FoldSet(LAMBDA p, sum : sum + f[p], 0, Packets)

\* Type invariant of the shared table and the counters: a slot only holds a
\* packet that hashes to it.
Level1TypeOK ==
    /\ packetSet \in [Slots -> Packets \cup {None}]
    /\ \A s \in Slots : packetSet[s] # None => index(packetSet[s]) = s
    /\ hits \in Nat
    /\ redundancy \in Nat
    /\ looked \in [Packets -> Nat]
    /\ matched \in [Packets -> Nat]
    /\ pc \in [Consumers -> InDeque \cup
                 {"lock", "waiting", "process", "count", "returned"}]

\* Every packet found is counted once, in hits, or is about to be.
HitsCountedOnce == hits + Cardinality(Counting) = SumOver(matched)

\* A packet is found less often than it is looked up.
OnlyRepeatsMatch == \A p \in Packets : matched[p] > 0 => matched[p] < looked[p]

\* Whatever the consumers do in parallel, only a packet seen before is a hit,
\* and a hit is counted once ("level 1 = number of repeat packets",
\* threadedRE.cpp:53).
HitsAreRepeats == HitsCountedOnce /\ OnlyRepeatsMatch

\* The packet shares its slot with no other.
Alone(p) == \A q \in Packets : index(q) = index(p) => q = p

\* Every repeat of such a packet is a hit, even when two consumers look it up
\* at the same time: one of them stores it, and the other one finds it.
EveryRepeatHits ==
    \A p \in Packets : Alone(p) /\ looked[p] > 0 => matched[p] = looked[p] - 1

\* Its hit counts its bytes, although the slot is read after setMutex is
\* released.
HitCountsItsBytes ==
    [][\A c \in Consumers :
          Count(c) /\ Alone(hand[c]) =>
              redundancy' = redundancy + Length[hand[c]]]_level1Vars

\* Refuted: "track bytes of redundancy" (threadedRE.cpp:52), the bytes counted
\* are those of the packets that were found, apart from the hits not counted yet.
RedundancyIsMatchedBytes ==
    redundancy + MapThenSumSet(LAMBDA c : Length[hand[c]], Counting)
        = SumOver([p \in Packets |-> matched[p] * Length[p]])

\* What PacketQueue sees of a consumer
QueuePc == [c \in Consumers |-> IF pc[c] = "count" THEN "process" ELSE pc[c]]

Queue == INSTANCE PacketQueue WITH pc <- QueuePc

\* Looking packets up is a way to process them: the queue's guarantees carry
\* over, and every packet is eventually worked off.
ImplementsPacketQueue == Queue!Spec

=============================================================================
