------------------------------- MODULE Level2 -------------------------------
(***************************************************************************)
(* Level 2 of project4/threadedRE.cpp: a consumer slides a window over its *)
(* packet and looks every window up in the table all consumers share.  A   *)
(* run of matching windows is one hit.  The queue is PacketQueue, whose    *)
(* step Process becomes the steps Window, Count and EndOfPacket.           *)
(***************************************************************************)
EXTENDS PacketQueue

CONSTANTS
    WINDOW_SIZE,
    Hash,       \* SpookyHash's 32-bit hash of each window
    ARR_SIZE    \* slots of the table

\* The i-th window of a payload; like the code, counted from 0
Window(p, i) == SubSeq(p, i + 1, i + WINDOW_SIZE)

Windows == UNION {{Window(p, i) : i \in 0 .. Len(p) - WINDOW_SIZE} : p \in Packets}

ASSUME Level2Assumption ==
    /\ WINDOW_SIZE \in Nat \ {0}
    /\ ARR_SIZE \in Nat \ {0}
    /\ Hash \in [Windows -> Nat]
    \* the producer accepts no packet below MIN_PACKET - HEADER > WINDOW_SIZE
    /\ \A p \in Packets : Len(p) = Length[p] /\ Len(p) > WINDOW_SIZE

VARIABLES
    packetSet,      \* the window in each slot; None where valid is 0
    hits,
    redundancy,
    i, match        \* each consumer's locals: its window, where its run began

tableVars == <<packetSet, hits, redundancy>>
loopVars == <<i, match>>
level2Vars == <<vars, tableVars, loopVars>>

Slots == 0 .. ARR_SIZE - 1

Level2Init ==
    /\ Init
    /\ packetSet = [s \in Slots |-> None]
    /\ hits = 0
    /\ redundancy = 0
    /\ i = [c \in Consumers |-> 0]
    /\ match = [c \in Consumers |-> -1]

index(w) == Hash[w] % ARR_SIZE

\* Valid, the same hash, and memcmp() finds the same bytes
Matches(slot, w) ==
    /\ slot # None
    /\ Hash[slot] = Hash[w]
    /\ slot = w

\* for (size_t i = 0; i < sizeof(packet)-WINDOW_SIZE; i++)
InLoop(c) == pc[c] = "process" /\ i[c] < Length[hand[c]] - WINDOW_SIZE

\* Mutant: a matching window is looked up for ever.
WindowMatchesStuck(c) ==
    /\ InLoop(c)
    /\ Matches(packetSet[index(Window(hand[c], i[c]))], Window(hand[c], i[c]))
    /\ match' = [match EXCEPT ![c] = IF @ = -1 THEN i[c] ELSE @]
    /\ UNCHANGED <<vars, tableVars, i>>

\* The critical section under setMutex when the window is found
WindowMatches(c) ==
    LET w == Window(hand[c], i[c])
    IN  /\ InLoop(c)
        /\ Matches(packetSet[index(w)], w)
        /\ match' = [match EXCEPT ![c] = IF @ = -1 THEN i[c] ELSE @]
        /\ i' = [i EXCEPT ![c] = @ + 1]
        /\ UNCHANGED <<vars, tableVars>>

\* The critical section under setMutex when it is not: the window takes an
\* empty slot, and at a collision takes it or, at random, does not.  A run
\* that ends here is counted next.
WindowMisses(c) ==
    LET w == Window(hand[c], i[c])
        s == index(w)
    IN  /\ InLoop(c)
        /\ ~Matches(packetSet[s], w)
        /\ \/ packetSet' = [packetSet EXCEPT ![s] = w]
           \/ packetSet[s] # None /\ UNCHANGED packetSet
        /\ IF match[c] = -1
             THEN i' = [i EXCEPT ![c] = @ + 1] /\ UNCHANGED pc
             ELSE Goto(c, "process", "count") /\ UNCHANGED i
        /\ UNCHANGED <<deque, DONE, owner, producerVars, hand, spurious, exited,
                       hits, redundancy, match>>

\* Mutant: the byte after the run is counted too.
RunLengthPlusOne(c) == i[c] + WINDOW_SIZE - match[c]

RunLength(c) == (i[c] + WINDOW_SIZE - 1) - match[c]

\* Mutant: the loop goes on inside the run.
IntoString(c) == match[c] + 1

\* i += WINDOW_SIZE, and the loop's i++
PastString(c) == i[c] + WINDOW_SIZE + 1

\* Mutant: match is not reset
CountKeepsMatch(c) ==
    /\ Goto(c, "count", "process")
    /\ redundancy' = redundancy + RunLength(c)
    /\ hits' = hits + 1
    /\ i' = [i EXCEPT ![c] = PastString(c)]
    /\ UNCHANGED <<deque, DONE, owner, producerVars, hand, spurious, exited,
                   packetSet, match>>

\* The critical section under counterMutex, and the step past the string
Count(c) ==
    /\ Goto(c, "count", "process")
    /\ redundancy' = redundancy + RunLength(c)
    /\ hits' = hits + 1
    /\ match' = [match EXCEPT ![c] = -1]
    /\ i' = [i EXCEPT ![c] = PastString(c)]
    /\ UNCHANGED <<deque, DONE, owner, producerVars, hand, spurious, exited,
                   packetSet>>

\* The loop ends, whatever match is, and the consumer goes for another packet.
EndOfPacket(c) ==
    /\ ~InLoop(c)
    /\ Process(c)
    /\ i' = [i EXCEPT ![c] = 0]
    /\ match' = [match EXCEPT ![c] = -1]
    /\ UNCHANGED tableVars

Work2(c) ==
    WindowMatches(c) \/ WindowMisses(c) \/ Count(c) \/ EndOfPacket(c)

Level2Next ==
    \/ QueueNext /\ UNCHANGED <<tableVars, loopVars>>
    \/ \E c \in Consumers : Work2(c)

Level2SafeSpec == Level2Init /\ [][Level2Next]_level2Vars

Level2Spec ==
    /\ Level2SafeSpec
    /\ WF_level2Vars(Producer /\ UNCHANGED <<tableVars, loopVars>>)
    /\ \A c \in Consumers :
         WF_level2Vars((Consume(c) /\ UNCHANGED <<tableVars, loopVars>>) \/ Work2(c))
    /\ WF_level2Vars(Exit /\ UNCHANGED <<tableVars, loopVars>>)

-----------------------------------------------------------------------------
(* Properties *)

\* Type invariant of the shared table, the counters and the loops: a run begins
\* before the window its consumer is at.
Level2TypeOK ==
    /\ packetSet \in [Slots -> Windows \cup {None}]
    /\ hits \in Nat
    /\ redundancy \in Nat
    /\ i \in [Consumers -> Nat]
    /\ match \in [Consumers -> Nat \cup {-1}]
    /\ \A c \in Consumers : match[c] < i[c]
    /\ pc \in [Consumers -> InDeque \cup
                 {"lock", "waiting", "process", "count", "returned"}]

\* The bytes of consumer c's packet that its run of matching windows covers
RunBytes(c) ==
    UNION {j .. j + WINDOW_SIZE - 1 : j \in match[c] .. i[c] - 1}

\* "Add the bytes from the first to last matched place" (threadedRE.cpp:416):
\* what is added is the number of bytes the matched windows cover.
AddsMatchedBytes ==
    [][\A c \in Consumers :
          Count(c) => redundancy' - redundancy = Cardinality(RunBytes(c))]_level2Vars

\* A byte is counted at most once: a packet's runs do not overlap, so the
\* percentage main() prints stays below 100.
RedundancyBounded == redundancy + HEADER * numPackets <= dataProcessed

\* A run is left uncounted only if it lasts to the packet's last window, where
\* the loop ends before a window can miss (threadedRE.cpp:363-411).
OnlyLastRunIsLost ==
    [][\A c \in Consumers :
          EndOfPacket(c) /\ match[c] # -1 =>
              i[c] = Length[hand[c]] - WINDOW_SIZE]_level2Vars

\* Refuted: "If a match was found before, add the redundancy"
\* (threadedRE.cpp:410), no consumer leaves a packet with an uncounted run.
RunsAreCounted ==
    [][\A c \in Consumers : EndOfPacket(c) => match[c] = -1]_level2Vars

\* What PacketQueue sees of a consumer
QueuePc == [c \in Consumers |-> IF pc[c] = "count" THEN "process" ELSE pc[c]]

Queue == INSTANCE PacketQueue WITH pc <- QueuePc

\* Sliding a window over a packet is a way to process it: it ends, and the
\* queue's guarantees carry over.
ImplementsPacketQueue == Queue!Spec

=============================================================================
