------------------------------ MODULE VirtMem ------------------------------
(***************************************************************************)
(* The demand-paged virtual memory of project5: main.c's three fault       *)
(* handlers and frame table over page_table.c and disk.c.                  *)
(*                                                                         *)
(* The CPU executes one access at a time.  An access the page's protection *)
(* bits allow goes straight to physical memory; any other raises SIGSEGV,  *)
(* runs the chosen handler and is retried.  Page contents are abstracted   *)
(* to one value per page, protection bits to the set of rights they grant. *)
(***************************************************************************)
EXTENDS Integers, FiniteSets

CONSTANTS
    NPages,     \* npages: pages of virtual memory, blocks of the disk
    NFrames,    \* nframes: frames of physical memory
    Values,     \* contents of a page
    Policies,   \* the handlers main() may install
    Ops,        \* the kinds of access the program makes
    HeapInts,   \* ints that memory fresh from malloc() may hold
    HeapBits,   \* protection bits such an int may stand for
    MaxFaults   \* bound: no access is issued that could exceed it

Pages == 0 .. NPages - 1
Frames == 0 .. NFrames - 1

NONE == {}
READ == {"R"}
READWRITE == {"R", "W"}

ASSUME VirtMemAssumption ==
    /\ NPages \in Nat \ {0}
    /\ NFrames \in 1 .. NPages  \* main() lowers nframes to npages
    /\ Values # {}
    /\ Policies \subseteq {"rand", "fifo", "lru"}
    /\ Ops \subseteq {"read", "write"}
    /\ HeapInts \subseteq Int
    /\ HeapBits \subseteq SUBSET READWRITE
    /\ MaxFaults \in Nat

VARIABLES
    access,         \* the access the CPU is executing, or Idle
    reg,            \* the value the last read returned
    retries,        \* faults the current access has raised so far
    page_mapping,   \* page_table.c: frame of each page
    page_bits,      \* page_table.c: rights of each page, also those of the MMU
    physmem,        \* contents of the frames
    disk,           \* contents of the blocks of myvirtualdisk
    frameTable,     \* main.c: page and rights held by each frame
    handler,        \* page_table.c: the handler in use
    frameArr,       \* main.c: frames in the order fifo means to reuse them
    currFrame,      \* main.c: fifo's position in frameArr
    pageUsage,      \* main.c: lru's age of each frame, counted in faults
    diskReads, diskWrites, pageFaults,
    status          \* whether the process still runs

tables == <<page_mapping, page_bits, physmem, frameTable>>
policyState == <<handler, frameArr, currFrame, pageUsage>>
counters == <<diskReads, diskWrites, pageFaults>>
vars == <<access, reg, retries, tables, disk, policyState, counters, status>>

Idle == [op |-> "idle"]
Accesses == [op : Ops, page : Pages, val : Values]

(***************************************************************************)
(* frameTable, frameArr, pageUsage and page_mapping come from malloc() and *)
(* are never initialised.  The disk file is opened without O_TRUNC, so it  *)
(* holds whatever an earlier run left.                                     *)
(***************************************************************************)
Init ==
    /\ access = Idle
    /\ reg \in Values
    /\ retries = 0
    /\ page_mapping \in [Pages -> HeapInts]
    /\ page_bits = [p \in Pages |-> NONE]
    /\ physmem \in [Frames -> Values]
    /\ disk \in [Pages -> Values]
    /\ frameTable \in [Frames -> [page : HeapInts, bits : HeapBits]]
    /\ handler \in Policies
    /\ frameArr \in [Frames -> HeapInts]
    /\ currFrame = 0
    /\ pageUsage \in [Frames -> HeapInts]
    /\ diskReads = 0 /\ diskWrites = 0 /\ pageFaults = 0
    /\ status = "running"

-----------------------------------------------------------------------------
(* The program and the memory management unit *)

\* The program makes its next access.  It has room for the two faults an
\* access can raise (TwoFaultsPerAccess) below the bound.
Issue ==
    /\ status = "running"
    /\ access = Idle
    /\ pageFaults + 2 <= MaxFaults
    /\ access' \in Accesses
    /\ retries' = 0
    /\ UNCHANGED <<reg, tables, disk, policyState, counters, status>>

Executing == status = "running" /\ access # Idle

Read ==
    /\ Executing
    /\ access.op = "read"
    /\ "R" \in page_bits[access.page]
    /\ reg' = physmem[page_mapping[access.page]]
    /\ access' = Idle
    /\ UNCHANGED <<retries, tables, disk, policyState, counters, status>>

Write ==
    /\ Executing
    /\ access.op = "write"
    /\ "W" \in page_bits[access.page]
    /\ physmem' = [physmem EXCEPT ![page_mapping[access.page]] = access.val]
    /\ access' = Idle
    /\ UNCHANGED <<reg, retries, page_mapping, page_bits, frameTable, disk,
                   policyState, counters, status>>

\* internal_fault_handler() runs: the page's bits do not allow the access.
Faulting ==
    /\ Executing
    /\ \/ access.op = "read" /\ "R" \notin page_bits[access.page]
       \/ access.op = "write" /\ "W" \notin page_bits[access.page]

-----------------------------------------------------------------------------
(* What the three handlers share *)

Absent == page_bits[access.page] = NONE

\* Mutant: the search for an empty frame stops one short.
EmptyFramesButLast == {f \in Frames \ {NFrames - 1} : frameTable[f].bits = NONE}

EmptyFrames == {f \in Frames : frameTable[f].bits = NONE}

\* find_empty() returns f
FindEmpty(f) ==
    /\ f \in EmptyFrames
    /\ \A g \in EmptyFrames : f <= g

\* page_table_set_entry() and the frame table's copy of it
SetEntry(page, f, bits) ==
    /\ page_mapping' = [page_mapping EXCEPT ![page] = f]
    /\ page_bits' = [page_bits EXCEPT ![page] = bits]
    /\ frameTable' = [frameTable EXCEPT ![f] = [page |-> page, bits |-> bits]]

\* Mutant: the page's block is not read.
FillWithoutRead(page, f) ==
    /\ SetEntry(page, f, READ)
    /\ diskReads' = diskReads + 1
    /\ UNCHANGED <<physmem, disk, diskWrites>>

\* The page goes into an empty frame.
Fill(page, f) ==
    /\ physmem' = [physmem EXCEPT ![f] = disk[page]]
    /\ SetEntry(page, f, READ)
    /\ diskReads' = diskReads + 1
    /\ UNCHANGED <<disk, diskWrites>>

\* Mutant: the evicted page keeps its rights.
ReplaceKeepsEntry(page, f) ==
    /\ Fill(page, f)
    /\ frameTable[f].bits # NONE

\* Mutant: a dirty page is not written back.
ReplaceDropsDirty(page, f) ==
    /\ physmem' = [physmem EXCEPT ![f] = disk[page]]
    /\ page_mapping' = [page_mapping EXCEPT ![page] = f]
    /\ page_bits' = [page_bits EXCEPT ![frameTable[f].page] = NONE, ![page] = READ]
    /\ frameTable' = [frameTable EXCEPT ![f] = [page |-> page, bits |-> READ]]
    /\ diskReads' = diskReads + 1
    /\ UNCHANGED <<disk, diskWrites>>

\* Mutant: a clean page is written back too.
ReplaceWritesClean(page, f) ==
    LET old == frameTable[f].page
    IN  /\ disk' = [disk EXCEPT ![old] = physmem[f]]
        /\ diskWrites' = diskWrites + 1
        /\ physmem' = [physmem EXCEPT ![f] = disk'[page]]
        /\ page_mapping' = [page_mapping EXCEPT ![page] = f]
        /\ page_bits' = [page_bits EXCEPT ![old] = NONE, ![page] = READ]
        /\ frameTable' = [frameTable EXCEPT ![f] = [page |-> page, bits |-> READ]]
        /\ diskReads' = diskReads + 1

\* The page takes the frame of another: remove_page(), then the disk read.
Replace(page, f) ==
    LET old == frameTable[f].page
        dirty == "W" \in frameTable[f].bits
    IN  /\ old \in Pages
        /\ disk' = IF dirty THEN [disk EXCEPT ![old] = physmem[f]] ELSE disk
        /\ diskWrites' = IF dirty THEN diskWrites + 1 ELSE diskWrites
        /\ physmem' = [physmem EXCEPT ![f] = disk'[page]]
        /\ page_mapping' = [page_mapping EXCEPT ![old] = f, ![page] = f]
        /\ page_bits' = [page_bits EXCEPT ![old] = NONE, ![page] = READ]
        /\ frameTable' = [frameTable EXCEPT ![f] = [page |-> page, bits |-> READ]]
        /\ diskReads' = diskReads + 1

\* Mutant: the second fault grants no more than the first.
UpgradeToRead(page) ==
    /\ SetEntry(page, page_mapping[page], READ)
    /\ UNCHANGED <<physmem, disk, diskReads, diskWrites>>

\* The page is resident and read-only, and the access is a write.
Upgrade(page) ==
    /\ SetEntry(page, page_mapping[page], READWRITE)
    /\ UNCHANGED <<physmem, disk, diskReads, diskWrites>>

\* The end of every handler; the access is then retried.
HandlerReturns ==
    /\ pageFaults' = pageFaults + 1
    /\ retries' = retries + 1
    /\ UNCHANGED <<access, reg, status>>

-----------------------------------------------------------------------------
(* The handlers *)

RandFaultHandler ==
    /\ handler = "rand"
    /\ Faulting
    /\ \/ Absent /\ \E f \in Frames : FindEmpty(f) /\ Fill(access.page, f)
       \/ /\ Absent
          /\ EmptyFrames = {}
          /\ \E f \in Frames : Replace(access.page, f)
       \/ ~Absent /\ Upgrade(access.page)
    /\ HandlerReturns
    /\ UNCHANGED policyState

\* Mutant: fifo's position never moves.
NextSlotStuck == currFrame

NextSlot == (currFrame + 1) % NFrames

\* currFrame moves on every fault; frameArr is written only when a page
\* comes in.
FifoFaultHandler ==
    /\ handler = "fifo"
    /\ Faulting
    /\ \/ \E f \in Frames :
            /\ Absent
            /\ FindEmpty(f)
            /\ Fill(access.page, f)
            /\ frameArr' = [frameArr EXCEPT ![currFrame] = f]
       \/ /\ Absent
          /\ EmptyFrames = {}
          /\ frameArr[currFrame] \in Frames
          /\ Replace(access.page, frameArr[currFrame])
          /\ UNCHANGED frameArr
       \/ ~Absent /\ Upgrade(access.page) /\ UNCHANGED frameArr
    /\ currFrame' = NextSlot
    /\ HandlerReturns
    /\ UNCHANGED <<handler, pageUsage>>

\* The first frame with the largest age
Stalest(f) ==
    \A g \in Frames : /\ pageUsage[g] <= pageUsage[f]
                      /\ g < f => pageUsage[g] < pageUsage[f]

\* Mutant: only the faulting frame's age changes.
AgeNone(f) == pageUsage' = [pageUsage EXCEPT ![f] = 1]

\* The faulting frame's age restarts and every age, its own included, grows.
Age(f) ==
    pageUsage' = [g \in Frames |-> IF g = f THEN 1 ELSE pageUsage[g] + 1]

LruFaultHandler ==
    /\ handler = "lru"
    /\ Faulting
    /\ \/ \E f \in Frames :
            Absent /\ FindEmpty(f) /\ Fill(access.page, f) /\ Age(f)
       \/ /\ Absent
          /\ EmptyFrames = {}
          /\ \E f \in Frames : Stalest(f) /\ Replace(access.page, f) /\ Age(f)
       \/ /\ ~Absent
          /\ Upgrade(access.page)
          /\ Age(page_mapping[access.page])
    /\ HandlerReturns
    /\ UNCHANGED <<handler, frameArr, currFrame>>

\* The frame a handler evicts when find_empty() finds none
Victim(f) ==
    \/ handler = "rand" /\ f \in Frames
    \/ handler = "fifo" /\ f = frameArr[currFrame]
    \/ handler = "lru" /\ f \in Frames /\ Stalest(f)

\* The frame, or the page the frame table records for it, is no legal index:
\* disk_write() or page_table_set_entry() aborts the process.
Abort ==
    /\ Faulting /\ Absent
    /\ EmptyFrames = {}
    /\ \E f \in HeapInts \cup Frames :
         /\ Victim(f)
         /\ f \in Frames => frameTable[f].page \notin Pages
    /\ status' = "aborted"
    /\ UNCHANGED <<access, reg, retries, tables, disk, policyState, counters>>

\* The program ends and main() unmaps and frees everything.
Exit ==
    /\ status = "running"
    /\ access = Idle
    /\ status' = "exited"
    /\ UNCHANGED <<access, reg, retries, tables, disk, policyState, counters>>

Fault == RandFaultHandler \/ FifoFaultHandler \/ LruFaultHandler

Next == Issue \/ Read \/ Write \/ Fault \/ Abort \/ Exit

SafeSpec == Init /\ [][Next]_vars

\* The process runs until its access is done; nothing makes the program issue
\* another one.
Spec == SafeSpec /\ WF_vars(Read \/ Write \/ Fault \/ Abort)

-----------------------------------------------------------------------------
(* Properties *)

\* Type invariant of the page table, the frame table and the counters.
TypeOK ==
    /\ access \in Accesses \cup {Idle}
    /\ reg \in Values
    /\ retries \in Nat
    /\ page_mapping \in [Pages -> Int]
    /\ page_bits \in [Pages -> SUBSET READWRITE]
    /\ physmem \in [Frames -> Values]
    /\ disk \in [Pages -> Values]
    /\ frameTable \in [Frames -> [page : Int, bits : SUBSET READWRITE]]
    /\ handler \in Policies
    /\ frameArr \in [Frames -> Int]
    /\ currFrame \in Frames
    /\ pageUsage \in [Frames -> Int]
    /\ diskReads \in Nat /\ diskWrites \in Nat /\ pageFaults \in Nat
    /\ status \in {"running", "aborted", "exited"}

\* The page table of page_table.c and the frame table of main.c are kept by
\* separate assignments and must stay each other's inverse: a frame in use
\* belongs to exactly the page whose entry points to it, with the same bits.
TablesAgree ==
    /\ \A f \in Frames : frameTable[f].bits # NONE =>
         /\ frameTable[f].page \in Pages
         /\ page_mapping[frameTable[f].page] = f
         /\ page_bits[frameTable[f].page] = frameTable[f].bits
    /\ \A p \in Pages : page_bits[p] # NONE =>
         /\ page_mapping[p] \in Frames
         /\ frameTable[page_mapping[p]].page = p
         /\ frameTable[page_mapping[p]].bits = page_bits[p]

\* remove_page() drops a frame without PROT_WRITE without writing it back, so
\* such a frame must never differ from its block on the disk.
CleanFramesOnDisk ==
    \A p \in Pages : page_bits[p] = READ => physmem[page_mapping[p]] = disk[p]

\* An access is never stuck faulting: one fault maps the page for reading, a
\* second one grants the write, and no handler evicts in between.
TwoFaultsPerAccess == retries <= 2

\* The counters main() prints (main.c:159-287): a disk write evicts a page
\* some disk read brought in, and each fault either reads a page in or makes one
\* dirty, which is written back once or is still dirty.
CountersAgree ==
    /\ diskWrites + Cardinality(Frames \ EmptyFrames) <= diskReads
    /\ diskReads + diskWrites
         + Cardinality({f \in Frames : "W" \in frameTable[f].bits}) = pageFaults

\* lab_report.pdf, Page Fault and Disk Access: while every page the program
\* has used fits into memory, a page costs one disk read and at most two
\* faults, and nothing is written back.
NoPagingWhileAllFits ==
    diskReads <= NFrames =>
        /\ diskWrites = 0
        /\ diskReads = Cardinality(Frames \ EmptyFrames)
        /\ pageFaults - diskReads
             = Cardinality({f \in Frames : "W" \in frameTable[f].bits})

\* The checks of page_table_set_entry() and disk_write() (page_table.c:112-120,
\* disk.c:52) never find an illegal index.
NeverAborts == status # "aborted"

\* "all pages filled" (main.c:150, 189, 232): when a handler finds no empty
\* frame and turns to eviction, every frame really holds a page.
FullMeansFilled ==
    Faulting /\ Absent /\ EmptyFrames = {} =>
        \A f \in Frames : \E p \in Pages : page_bits[p] # NONE /\ page_mapping[p] = f

\* Only PROT_NONE, PROT_READ and PROT_READ|PROT_WRITE are ever granted.
BitsLegal == \A p \in Pages : page_bits[p] \in {NONE, READ, READWRITE}

\* What each fault of the current access has obtained
FaultsMakeProgress ==
    access # Idle =>
        /\ retries = 1 => page_bits[access.page] # NONE
        /\ retries = 2 => page_bits[access.page] = READWRITE

\* What the handlers need of uninitialised memory: every handler that the
\* frame table grants nothing, fifo also that frameArr holds frames.
CleanFrameTable == HeapBits = {NONE}
LegalFrameArr == "fifo" \in Policies => HeapInts \subseteq Frames

\* The inductive invariant
IInv ==
    /\ TypeOK
    /\ BitsLegal
    /\ TablesAgree
    /\ CleanFramesOnDisk
    /\ TwoFaultsPerAccess
    /\ FaultsMakeProgress
    /\ LegalFrameArr =>
         /\ handler = "fifo" => frameArr \in [Frames -> Frames]
         /\ NeverAborts

\* The memory the program sees
VirtualContents ==
    [p \in Pages |-> IF page_bits[p] # NONE THEN physmem[page_mapping[p]]
                                            ELSE disk[p]]

Flat == INSTANCE FlatMemory WITH mem <- VirtualContents

\* Faults and evictions are invisible: the paged memory implements one flat
\* array, and unless the process aborts every access takes effect.
ImplementsFlatMemory ==
    /\ Flat!SafeSpec
    /\ []NeverAborts => Flat!Fairness

=============================================================================
