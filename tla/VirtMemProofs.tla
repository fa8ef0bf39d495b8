--------------------------- MODULE VirtMemProofs ---------------------------
(***************************************************************************)
(* Proofs about VirtMem and VirtMemHistory, for every number of pages and  *)
(* frames, every policy and every program.  The hypotheses CleanFrameTable *)
(* and LegalFrameArr are what the code needs of the memory malloc()        *)
(* returns; zeroed memory satisfies both.                                  *)
(***************************************************************************)
EXTENDS VirtMemHistory, TLAPS, FiniteSetTheorems

\* The part of the invariant about the tables and the page contents
Paging == BitsLegal /\ TablesAgree /\ CleanFramesOnDisk

\* The types of the paging state
PagingType ==
    /\ page_mapping \in [Pages -> Int]
    /\ page_bits \in [Pages -> SUBSET READWRITE]
    /\ physmem \in [Frames -> Values]
    /\ disk \in [Pages -> Values]
    /\ frameTable \in [Frames -> [page : Int, bits : SUBSET READWRITE]]

-----------------------------------------------------------------------------
(* What the three ways of serving a fault do to the paging state *)

\* Filling an empty frame keeps the tables inverse and the memory's contents.
LEMMA FillLemma ==
    ASSUME PagingType, Paging, NEW page \in Pages, NEW f \in Frames,
           page_bits[page] = NONE, frameTable[f].bits = NONE, Fill(page, f)
    PROVE  PagingType' /\ Paging' /\ VirtualContents' = VirtualContents
           /\ page_bits'[page] = READ
<1> USE DEF PagingType, Paging, NONE, READ, READWRITE
<1>1. /\ page_mapping' = [page_mapping EXCEPT ![page] = f]
      /\ page_bits' = [page_bits EXCEPT ![page] = READ]
      /\ frameTable' = [frameTable EXCEPT ![f] = [page |-> page, bits |-> READ]]
      /\ physmem' = [physmem EXCEPT ![f] = disk[page]]
      /\ disk' = disk
  BY DEF Fill, SetEntry
<1>2. f \in Int /\ page \in Int
  BY VirtMemAssumption DEF Frames, Pages
<1>3. PagingType' /\ page_bits'[page] = READ
  BY <1>1, <1>2
<1>4. \A p \in Pages : page_bits[p] # NONE => p # page /\ page_mapping[p] # f
  BY DEF TablesAgree
<1>5. BitsLegal'
  BY <1>1 DEF BitsLegal
<1>6. TablesAgree'
  BY <1>1, <1>4 DEF TablesAgree
<1>7. CleanFramesOnDisk'
  BY <1>1, <1>4 DEF CleanFramesOnDisk, TablesAgree
<1>8. VirtualContents' = VirtualContents
  BY <1>1, <1>4 DEF VirtualContents, TablesAgree
<1>9. QED
  BY <1>3, <1>5, <1>6, <1>7, <1>8

\* So does evicting the page of a frame in use: it is written back if it is
\* dirty, and if it is not the disk has it.
LEMMA ReplaceLemma ==
    ASSUME PagingType, Paging, NEW page \in Pages, NEW f \in Frames,
           page_bits[page] = NONE, frameTable[f].bits # NONE, Replace(page, f)
    PROVE  PagingType' /\ Paging' /\ VirtualContents' = VirtualContents
           /\ page_bits'[page] = READ
<1> USE DEF PagingType, Paging, NONE, READ, READWRITE
<1> DEFINE old == frameTable[f].page
<1>1. /\ old \in Pages /\ old # page
      /\ page_mapping[old] = f
      /\ page_bits[old] = frameTable[f].bits
  BY DEF TablesAgree
<1>2. /\ page_mapping' = [page_mapping EXCEPT ![old] = f, ![page] = f]
      /\ page_bits' = [page_bits EXCEPT ![old] = NONE, ![page] = READ]
      /\ frameTable' = [frameTable EXCEPT ![f] = [page |-> page, bits |-> READ]]
      /\ physmem' = [physmem EXCEPT ![f] = disk'[page]]
      /\ disk' = IF "W" \in page_bits[old] THEN [disk EXCEPT ![old] = physmem[f]]
                                           ELSE disk
  BY <1>1 DEF Replace
<1>3. disk' \in [Pages -> Values]
  BY <1>1, <1>2
<1>4. f \in Int /\ page \in Int
  BY VirtMemAssumption DEF Frames, Pages
<1>5. PagingType' /\ page_bits'[page] = READ
  BY <1>1, <1>2, <1>3, <1>4
<1>6. \A p \in Pages \ {old} : page_bits[p] # NONE => p # page /\ page_mapping[p] # f
  BY DEF TablesAgree
<1>7. disk'[old] = physmem[f] /\ \A p \in Pages \ {old} : disk'[p] = disk[p]
  <2>1. "W" \notin page_bits[old] => page_bits[old] = READ
    BY <1>1 DEF BitsLegal
  <2>2. QED
    BY <1>1, <1>2, <2>1 DEF CleanFramesOnDisk
<1>8. BitsLegal'
  BY <1>1, <1>2 DEF BitsLegal
<1>9. TablesAgree'
  BY <1>1, <1>2, <1>6 DEF TablesAgree
<1>10. CleanFramesOnDisk'
  BY <1>1, <1>2, <1>6, <1>7 DEF CleanFramesOnDisk, TablesAgree
<1>11. VirtualContents' = VirtualContents
  <2> SUFFICES ASSUME NEW p \in Pages
               PROVE  VirtualContents'[p] = VirtualContents[p]
    BY DEF VirtualContents
  <2>1. CASE p = page
    BY <1>1, <1>2, <1>7, <2>1 DEF VirtualContents
  <2>2. CASE p = old
    BY <1>1, <1>2, <1>7, <2>2 DEF VirtualContents
  <2>3. CASE p # page /\ p # old
    BY <1>1, <1>2, <1>6, <1>7, <2>3 DEF VirtualContents, TablesAgree
  <2>4. QED
    BY <2>1, <2>2, <2>3
<1>12. QED
  BY <1>5, <1>8, <1>9, <1>10, <1>11

\* Granting PROT_WRITE to a resident page changes no contents.
LEMMA UpgradeLemma ==
    ASSUME PagingType, Paging, NEW page \in Pages,
           page_bits[page] # NONE, Upgrade(page)
    PROVE  PagingType' /\ Paging' /\ VirtualContents' = VirtualContents
           /\ page_bits'[page] = READWRITE
<1> USE DEF PagingType, Paging, NONE, READ, READWRITE
<1> DEFINE f == page_mapping[page]
<1>1. f \in Frames /\ frameTable[f].page = page
  BY DEF TablesAgree
<1>2. /\ page_mapping' = page_mapping
      /\ page_bits' = [page_bits EXCEPT ![page] = READWRITE]
      /\ frameTable' = [frameTable EXCEPT ![f] = [page |-> page, bits |-> READWRITE]]
      /\ physmem' = physmem /\ disk' = disk
  BY DEF Upgrade, SetEntry
<1>3. page \in Int
  BY VirtMemAssumption DEF Pages
<1>4. PagingType' /\ page_bits'[page] = READWRITE
  BY <1>1, <1>2, <1>3
<1>5. \A p \in Pages \ {page} : page_bits[p] # NONE => page_mapping[p] # f
  BY <1>1 DEF TablesAgree
<1>6. BitsLegal' /\ CleanFramesOnDisk' /\ VirtualContents' = VirtualContents
  BY <1>2 DEF BitsLegal, CleanFramesOnDisk, VirtualContents
<1>7. TablesAgree'
  BY <1>1, <1>2, <1>5 DEF TablesAgree
<1>8. QED
  BY <1>4, <1>6, <1>7

-----------------------------------------------------------------------------
(* A fault, whatever the policy *)

\* The handlers differ only in the frame they choose.
Serve ==
    \/ \E f \in Frames :
         Absent /\ frameTable[f].bits = NONE /\ Fill(access.page, f)
    \/ \E f \in Frames :
         Absent /\ frameTable[f].bits # NONE /\ Replace(access.page, f)
    \/ ~Absent /\ Upgrade(access.page)

\* The handler stays, frameArr and currFrame stay frames, ages integers.
PolicyType ==
    /\ handler \in Policies
    /\ frameArr \in [Frames -> Int]
    /\ currFrame \in Frames
    /\ pageUsage \in [Frames -> Int]
    /\ LegalFrameArr /\ handler = "fifo" => frameArr \in [Frames -> Frames]

\* An access in progress names a page.
LEMMA AccessType ==
    ASSUME TypeOK, access # Idle
    PROVE  access \in Accesses /\ access.page \in Pages
BY DEF TypeOK, Accesses

\* Every policy serves a fault in one of the three ways.
LEMMA FaultServes ==
    ASSUME IInv, Fault
    PROVE  Faulting /\ Serve /\ HandlerReturns /\ PolicyType'
<1> USE DEF IInv, TypeOK, Serve, PolicyType, EmptyFrames, FindEmpty
<1>1. CASE RandFaultHandler
  BY <1>1 DEF RandFaultHandler, policyState
<1>2. CASE FifoFaultHandler
  <2>1. currFrame' \in Frames /\ UNCHANGED <<handler, pageUsage>>
    BY <1>2, VirtMemAssumption DEF FifoFaultHandler, NextSlot, Frames
  <2>2. Frames \subseteq Int
    BY DEF Frames
  <2>3. frameArr' \in [Frames -> Int]
    BY <1>2, <2>2 DEF FifoFaultHandler
  <2>4. LegalFrameArr => frameArr' \in [Frames -> Frames]
    BY <1>2 DEF FifoFaultHandler
  <2>5. Faulting /\ Serve /\ HandlerReturns
    BY <1>2 DEF FifoFaultHandler
  <2>6. QED
    BY <1>2, <2>1, <2>3, <2>4, <2>5 DEF FifoFaultHandler
<1>3. CASE LruFaultHandler
  <2>1. \A f \in Frames : Age(f) => pageUsage' \in [Frames -> Int]
    BY DEF Age
  <2>2. \A f : Age(f) => pageUsage' \in [Frames -> Int]
    BY DEF Age
  <2>3. pageUsage' \in [Frames -> Int]
    BY <1>3, <2>2 DEF LruFaultHandler
  <2>4. Faulting /\ Serve /\ HandlerReturns /\ UNCHANGED <<handler, frameArr, currFrame>>
    BY <1>3 DEF LruFaultHandler
  <2>5. QED
    BY <2>3, <2>4
<1>4. QED
  BY <1>1, <1>2, <1>3 DEF Fault

\* What a fault leaves behind
LEMMA ServeLemma ==
    ASSUME IInv, Faulting, Serve
    PROVE  /\ PagingType' /\ Paging' /\ VirtualContents' = VirtualContents
           /\ diskReads' \in Nat /\ diskWrites' \in Nat
           /\ page_bits'[access.page] # NONE
           /\ ~Absent => page_bits'[access.page] = READWRITE
<1>1. access.page \in Pages
  BY AccessType DEF IInv, Faulting, Executing
<1>2. PagingType /\ Paging /\ diskReads \in Nat /\ diskWrites \in Nat
  BY DEF IInv, TypeOK, PagingType, Paging
<1>3. READ # NONE /\ READWRITE # NONE
  BY DEF READ, READWRITE, NONE
<1>4. CASE \E f \in Frames :
             Absent /\ frameTable[f].bits = NONE /\ Fill(access.page, f)
  <2>1. PICK f \in Frames :
          Absent /\ frameTable[f].bits = NONE /\ Fill(access.page, f)
    BY <1>4
  <2>2. diskReads' \in Nat /\ diskWrites' \in Nat
    BY <1>2, <2>1 DEF Fill
  <2>3. /\ PagingType' /\ Paging' /\ VirtualContents' = VirtualContents
        /\ page_bits'[access.page] = READ
    BY <1>1, <1>2, <2>1, FillLemma DEF Absent
  <2>4. QED
    BY <1>3, <2>1, <2>2, <2>3
<1>5. CASE \E f \in Frames :
             Absent /\ frameTable[f].bits # NONE /\ Replace(access.page, f)
  <2>1. PICK f \in Frames :
          Absent /\ frameTable[f].bits # NONE /\ Replace(access.page, f)
    BY <1>5
  <2>2. diskReads' \in Nat /\ diskWrites' \in Nat
    BY <1>2, <2>1 DEF Replace
  <2>3. /\ PagingType' /\ Paging' /\ VirtualContents' = VirtualContents
        /\ page_bits'[access.page] = READ
    BY <1>1, <1>2, <2>1, ReplaceLemma DEF Absent
  <2>4. QED
    BY <1>3, <2>1, <2>2, <2>3
<1>6. CASE ~Absent /\ Upgrade(access.page)
  <2>1. diskReads' \in Nat /\ diskWrites' \in Nat
    BY <1>2, <1>6 DEF Upgrade
  <2>2. /\ PagingType' /\ Paging' /\ VirtualContents' = VirtualContents
        /\ page_bits'[access.page] = READWRITE
    BY <1>1, <1>2, <1>6, UpgradeLemma DEF Absent
  <2>3. QED
    BY <1>3, <2>1, <2>2
<1>7. QED
  BY <1>4, <1>5, <1>6 DEF Serve
-----------------------------------------------------------------------------
(* The inductive invariant *)

\* A handler that returns keeps the types of what no way of serving touches.
LEMMA FaultType ==
    ASSUME IInv, Fault
    PROVE  TypeOK'
<1>1. Faulting /\ Serve /\ HandlerReturns /\ PolicyType'
  BY FaultServes
<1>2. PagingType' /\ diskReads' \in Nat /\ diskWrites' \in Nat
  BY <1>1, ServeLemma
<1>3. /\ access' \in Accesses \cup {Idle} /\ reg' \in Values
      /\ retries' \in Nat /\ pageFaults' \in Nat
      /\ status' \in {"running", "aborted", "exited"}
  BY <1>1 DEF HandlerReturns, IInv, TypeOK
<1>4. QED
  BY <1>1, <1>2, <1>3 DEF TypeOK, PagingType, PolicyType

\* The invariant survives a fault: the third fault of an access cannot happen,
\* because the second one granted every right.
LEMMA FaultStep ==
    ASSUME IInv, Fault
    PROVE  IInv'
<1>1. Faulting /\ Serve /\ HandlerReturns /\ PolicyType'
  BY FaultServes
<1>2. /\ Paging'
      /\ page_bits'[access.page] # NONE
      /\ ~Absent => page_bits'[access.page] = READWRITE
  BY <1>1, ServeLemma
<1>3. TypeOK'
  BY FaultType
<1>4. retries \in Nat /\ access # Idle /\ access \in Accesses
  BY <1>1, AccessType DEF IInv, TypeOK, Faulting, Executing
<1>5. retries # 2
  BY <1>1, <1>4 DEF IInv, FaultsMakeProgress, Faulting, READWRITE
<1>6. retries = 1 => ~Absent
  BY <1>4 DEF IInv, FaultsMakeProgress, Absent
<1>7. retries \in {0, 1}
  BY <1>4, <1>5 DEF IInv, TwoFaultsPerAccess
<1>8. retries' = retries + 1 /\ access' = access /\ status' = status
  BY <1>1 DEF HandlerReturns
<1>9. TwoFaultsPerAccess'
  BY <1>7, <1>8 DEF TwoFaultsPerAccess
<1>10. FaultsMakeProgress'
  BY <1>2, <1>6, <1>7, <1>8 DEF FaultsMakeProgress
<1>11. LegalFrameArr => NeverAborts'
  BY <1>8 DEF IInv, NeverAborts
<1>12. QED
  BY <1>1, <1>2, <1>3, <1>9, <1>10, <1>11 DEF IInv, Paging, PolicyType

\* With legal frame numbers a handler always finds a frame it can evict.
LEMMA NoAbort ==
    ASSUME IInv, LegalFrameArr
    PROVE  ~Abort
<1> SUFFICES ASSUME Abort PROVE FALSE
  OBVIOUS
<1>1. PICK f \in HeapInts \cup Frames :
         Victim(f) /\ (f \in Frames => frameTable[f].page \notin Pages)
  BY DEF Abort
<1>2. f \in Frames
  BY <1>1 DEF Victim, IInv, TypeOK
<1>3. frameTable[f].bits # NONE
  BY <1>2 DEF Abort, EmptyFrames
<1>4. QED
  BY <1>1, <1>2, <1>3 DEF IInv, TablesAgree

\* An abort changes nothing but the status.
LEMMA AbortStep ==
    ASSUME IInv, Abort
    PROVE  IInv'
<1> USE DEF Abort, tables, policyState, counters
<1>1. ~LegalFrameArr
  BY NoAbort
<1>2. TypeOK'
  BY DEF IInv, TypeOK
<1>3. QED
  BY <1>1, <1>2 DEF IInv, BitsLegal, TablesAgree, CleanFramesOnDisk,
                    TwoFaultsPerAccess, FaultsMakeProgress

\* The program's own accesses keep the invariant: only a write changes a
\* frame, and it needs the right that CleanFramesOnDisk leaves out.
LEMMA AccessStep ==
    ASSUME IInv, Issue \/ Read \/ Write \/ Exit \/ UNCHANGED vars
    PROVE  IInv'
<1> USE DEF tables, policyState, counters
<1>1. CASE Issue
  <2>1. access' \in Accesses /\ retries' = 0
    BY <1>1 DEF Issue
  <2>2. TypeOK'
    BY <1>1, <2>1 DEF Issue, IInv, TypeOK
  <2>3. TwoFaultsPerAccess' /\ FaultsMakeProgress'
    BY <2>1 DEF TwoFaultsPerAccess, FaultsMakeProgress
  <2>4. QED
    BY <1>1, <2>2, <2>3
    DEF Issue, IInv, BitsLegal, TablesAgree, CleanFramesOnDisk, NeverAborts
<1>2. CASE Read
  <2>1. access # Idle /\ "R" \in page_bits[access.page]
    BY <1>2 DEF Read, Executing
  <2>2. access.page \in Pages
    BY <2>1, AccessType DEF IInv
  <2>3. page_mapping[access.page] \in Frames
    BY <2>1, <2>2 DEF IInv, TablesAgree, NONE
  <2>4. reg' \in Values /\ access' = Idle
    BY <1>2, <2>3 DEF Read, IInv, TypeOK
  <2>5. TypeOK'
    BY <1>2, <2>4 DEF Read, IInv, TypeOK
  <2>6. FaultsMakeProgress'
    BY <2>4 DEF FaultsMakeProgress, Idle
  <2>7. QED
    BY <1>2, <2>5, <2>6
    DEF Read, IInv, BitsLegal, TablesAgree, CleanFramesOnDisk, NeverAborts,
        TwoFaultsPerAccess
<1>3. CASE Write
  <2> DEFINE f == page_mapping[access.page]
  <2>1. access # Idle /\ "W" \in page_bits[access.page]
    BY <1>3 DEF Write, Executing
  <2>2. access.page \in Pages /\ access.val \in Values
    BY <2>1, AccessType DEF IInv, Accesses
  <2>3. physmem' = [physmem EXCEPT ![f] = access.val] /\ access' = Idle
    BY <1>3 DEF Write
  <2>4. physmem' \in [Frames -> Values]
    BY <2>2, <2>3 DEF IInv, TypeOK
  <2>5. TypeOK'
    BY <1>3, <2>3, <2>4 DEF Write, IInv, TypeOK
  <2>6. FaultsMakeProgress'
    BY <2>3 DEF FaultsMakeProgress, Idle
  <2>7. \A p \in Pages : page_bits[p] = READ => page_mapping[p] # f
    BY <2>1, <2>2 DEF IInv, TablesAgree, READ, NONE
  <2>8. CleanFramesOnDisk'
    <3> SUFFICES ASSUME NEW p \in Pages, page_bits[p] = READ
                 PROVE  physmem'[page_mapping[p]] = disk[p]
      BY <1>3 DEF Write, CleanFramesOnDisk
    <3>1. page_mapping[p] # f /\ page_mapping[p] \in Frames
      BY <2>7 DEF IInv, TablesAgree, READ, NONE
    <3>2. QED
      BY <2>3, <3>1 DEF IInv, TypeOK, CleanFramesOnDisk
  <2>9. QED
    BY <1>3, <2>5, <2>6, <2>8
    DEF Write, IInv, BitsLegal, TablesAgree, NeverAborts, TwoFaultsPerAccess
<1>4. CASE Exit
  BY <1>4 DEF Exit, IInv, TypeOK, BitsLegal, TablesAgree, CleanFramesOnDisk,
              NeverAborts, TwoFaultsPerAccess, FaultsMakeProgress
<1>5. CASE UNCHANGED vars
  BY <1>5 DEF vars, IInv, TypeOK, BitsLegal, TablesAgree, CleanFramesOnDisk,
              NeverAborts, TwoFaultsPerAccess, FaultsMakeProgress
<1>6. QED
  BY <1>1, <1>2, <1>3, <1>4, <1>5

\* The uninitialised tables satisfy the invariant because nothing is mapped.
LEMMA InitIInv ==
    ASSUME CleanFrameTable, Init
    PROVE  IInv
<1>1. TypeOK
  <2>1. HeapInts \subseteq Int /\ HeapBits \subseteq SUBSET READWRITE
        /\ 0 \in Frames
    BY VirtMemAssumption DEF Frames
  <2>2. page_bits \in [Pages -> SUBSET READWRITE]
    BY DEF Init, NONE
  <2>3. frameTable \in [Frames -> [page : Int, bits : SUBSET READWRITE]]
    BY <2>1 DEF Init
  <2>4. QED
    BY <2>1, <2>2, <2>3 DEF Init, TypeOK
<1>2. \A p \in Pages : page_bits[p] = NONE
  BY DEF Init
<1>3. \A f \in Frames : frameTable[f].bits = NONE
  BY DEF Init, CleanFrameTable
<1>4. BitsLegal /\ TablesAgree /\ CleanFramesOnDisk
  BY <1>2, <1>3 DEF BitsLegal, TablesAgree, CleanFramesOnDisk, NONE, READ
<1>5. TwoFaultsPerAccess /\ FaultsMakeProgress /\ NeverAborts
  BY DEF Init, TwoFaultsPerAccess, FaultsMakeProgress, NeverAborts
<1>6. LegalFrameArr /\ handler = "fifo" => frameArr \in [Frames -> Frames]
  BY DEF Init, LegalFrameArr
<1>7. QED
  BY <1>1, <1>4, <1>5, <1>6 DEF IInv

\* Every step preserves it.
LEMMA StepIInv ==
    ASSUME CleanFrameTable, IInv, [Next]_vars
    PROVE  IInv'
BY AbortStep, FaultStep, AccessStep DEF Next

\* The page table and the frame table always agree, clean frames are on the
\* disk, and an access raises at most two faults.
THEOREM VirtMemInvariant == CleanFrameTable /\ Spec => []IInv
<1>1. CleanFrameTable /\ Init => IInv
  BY InitIInv
<1>2. CleanFrameTable /\ IInv /\ [Next]_vars => IInv'
  BY StepIInv
<1>3. CleanFrameTable /\ SafeSpec => []IInv
  <2> SUFFICES ASSUME CleanFrameTable PROVE SafeSpec => []IInv
    OBVIOUS
  <2>1. QED
    BY <1>1, <1>2, PTL DEF SafeSpec
<1>4. QED
  BY <1>3, PTL DEF Spec

\* The parts of the invariant that the runs check.
THEOREM TablesStayInverse == CleanFrameTable /\ Spec => []TablesAgree
<1>1. IInv => TablesAgree
  BY DEF IInv
<1>2. QED
  BY <1>1, VirtMemInvariant, PTL

\* Evicting a frame without PROT_WRITE loses nothing.
THEOREM CleanFramesNeedNoWrite == CleanFrameTable /\ Spec => []CleanFramesOnDisk
<1>1. IInv => CleanFramesOnDisk
  BY DEF IInv
<1>2. QED
  BY <1>1, VirtMemInvariant, PTL

\* No access faults a third time, under any policy.
THEOREM FaultsAreBounded == CleanFrameTable /\ Spec => []TwoFaultsPerAccess
<1>1. IInv => TwoFaultsPerAccess
  BY DEF IInv
<1>2. QED
  BY <1>1, VirtMemInvariant, PTL

\* With frame numbers in frameArr no assertion of page_table.c or disk.c fires.
THEOREM LegalFrameArrNeverAborts ==
    CleanFrameTable /\ LegalFrameArr /\ Spec => []NeverAborts
<1> SUFFICES ASSUME LegalFrameArr PROVE CleanFrameTable /\ Spec => []NeverAborts
  OBVIOUS
<1>1. IInv => NeverAborts
  BY DEF IInv
<1>2. QED
  BY <1>1, VirtMemInvariant, PTL

\* With a clean frame table the handlers' comment "all pages filled" is true.
THEOREM FullIsFilled == CleanFrameTable /\ Spec => []FullMeansFilled
<1>1. IInv => FullMeansFilled
  BY DEF IInv, TablesAgree, FullMeansFilled, EmptyFrames
<1>2. QED
  BY <1>1, VirtMemInvariant, PTL

-----------------------------------------------------------------------------
(* Refinement *)

\* What a step does to the contents the program sees is what a step of
\* FlatMemory does to its array: an access takes effect, a fault stutters.
LEMMA StepRefines ==
    ASSUME CleanFrameTable, IInv, [Next]_vars
    PROVE  [Flat!Next]_(Flat!vars)
<1> USE DEF tables, policyState, counters, Flat!vars
<1> USE DEF Flat!Next, Flat!Idle, Idle
<1>1. CASE Issue
  <2>1. access' \in Flat!Accesses
    BY <1>1, VirtMemAssumption DEF Issue, Accesses, Flat!Accesses
  <2>2. VirtualContents' = VirtualContents
    BY <1>1 DEF Issue, VirtualContents
  <2>3. QED
    BY <1>1, <2>1, <2>2 DEF Issue, Flat!Issue
<1>2. CASE Read
  <2>1. access.page \in Pages /\ access # Idle /\ page_bits[access.page] # NONE
    BY <1>2, AccessType DEF Read, Executing, IInv, NONE
  <2>2. VirtualContents[access.page] = physmem[page_mapping[access.page]]
    BY <2>1 DEF VirtualContents
  <2>3. VirtualContents' = VirtualContents
    BY <1>2 DEF Read, VirtualContents
  <2>4. QED
    BY <1>2, <2>1, <2>2, <2>3 DEF Read, Flat!Read
<1>3. CASE Write
  <2> DEFINE page == access.page
             f == page_mapping[page]
  <2>1. page \in Pages /\ access # Idle /\ page_bits[page] # NONE
    BY <1>3, AccessType DEF Write, Executing, IInv, NONE
  <2>2. f \in Frames /\ physmem' = [physmem EXCEPT ![f] = access.val]
    BY <1>3, <2>1 DEF Write, IInv, TablesAgree
  <2>3. \A p \in Pages \ {page} : page_bits[p] # NONE => page_mapping[p] # f
    BY <2>1 DEF IInv, TablesAgree
  <2>4. VirtualContents' = [VirtualContents EXCEPT ![page] = access.val]
    <3>1. VirtualContents'[page] = access.val
      BY <1>3, <2>1, <2>2 DEF Write, VirtualContents, IInv, TypeOK
    <3>2. ASSUME NEW p \in Pages \ {page}
          PROVE  VirtualContents'[p] = VirtualContents[p]
      BY <1>3, <2>2, <2>3 DEF Write, VirtualContents, IInv, TypeOK, TablesAgree
    <3>3. QED
      BY <3>1, <3>2 DEF VirtualContents
  <2>5. QED
    BY <1>3, <2>1, <2>4 DEF Write, Flat!Write
<1>4. CASE Fault
  <2>1. VirtualContents' = VirtualContents
    BY <1>4, FaultServes, ServeLemma
  <2>2. access' = access /\ reg' = reg
    BY <1>4, FaultServes DEF HandlerReturns
  <2>3. QED
    BY <2>1, <2>2
<1>5. CASE Exit
  BY <1>5 DEF Exit, VirtualContents
<1>6. CASE Abort \/ UNCHANGED vars
  BY <1>6 DEF vars, Abort, VirtualContents
<1>7. QED
  BY <1>1, <1>2, <1>3, <1>4, <1>5, <1>6 DEF Next

\* Demand paging is invisible to the program: the paged memory behaves like
\* one array, under every policy and for every number of frames.
THEOREM PagingIsInvisible == CleanFrameTable /\ Spec => Flat!SafeSpec
<1> SUFFICES ASSUME CleanFrameTable PROVE Spec => Flat!SafeSpec
  OBVIOUS
<1>1. Init => Flat!Init
  BY DEF Init, Flat!Init, Flat!Idle, Idle, VirtualContents
<1>2. IInv /\ [Next]_vars => [Flat!Next]_(Flat!vars)
  BY StepRefines
<1>3. Spec => []IInv
  BY VirtMemInvariant
<1>4. QED
  BY <1>1, <1>2, <1>3, PTL DEF Spec, SafeSpec, Flat!SafeSpec

-----------------------------------------------------------------------------
(* The counters main() prints, and the numbers of frames in use and of dirty *)
(* frames, which the code does not keep *)

Used == Frames \ EmptyFrames
Dirty == {f \in Frames : "W" \in frameTable[f].bits}

Agree ==
    /\ diskWrites + Cardinality(Used) <= diskReads
    /\ diskReads + diskWrites + Cardinality(Dirty) = pageFaults

AllFits ==
    diskReads <= NFrames =>
        /\ diskWrites = 0
        /\ diskReads = Cardinality(Used)
        /\ pageFaults - diskReads = Cardinality(Dirty)

CountersInv == Agree /\ AllFits

\* There are NFrames frames.
LEMMA FramesFinite ==
    /\ IsFiniteSet(Frames)
    /\ Cardinality(Frames) = NFrames
    /\ NFrames \in Nat \ {0}
<1>1. NFrames \in Nat \ {0}
  BY VirtMemAssumption
<1>2. QED
  BY <1>1, FS_Interval DEF Frames

\* The used and the dirty ones can be counted.
LEMMA FramesCounted ==
    /\ IsFiniteSet(Used) /\ Cardinality(Used) \in Nat
    /\ IsFiniteSet(Dirty) /\ Cardinality(Dirty) \in Nat
<1>1. Used \in SUBSET Frames /\ Dirty \in SUBSET Frames
  BY DEF Used, Dirty
<1>2. QED
  BY <1>1, FramesFinite, FS_Subset, FS_CardinalityType

\* A handler fills an empty frame, or evicts when there is none, or grants the
\* write a resident page did not allow.
LEMMA FaultCases ==
    ASSUME IInv, Fault
    PROVE  /\ Faulting
           /\ pageFaults' = pageFaults + 1
           /\ access.page \in Pages
           /\ \/ \E f \in EmptyFrames : Fill(access.page, f)
              \/ EmptyFrames = {} /\ \E f \in Frames : Replace(access.page, f)
              \/ ~Absent /\ Upgrade(access.page)
<1>1. Faulting /\ HandlerReturns
  BY FaultServes
<1>2. access.page \in Pages
  BY <1>1, AccessType DEF Faulting, Executing, IInv
<1>3. \/ \E f \in EmptyFrames : Fill(access.page, f)
      \/ EmptyFrames = {} /\ \E f \in Frames : Replace(access.page, f)
      \/ ~Absent /\ Upgrade(access.page)
  BY DEF Fault, RandFaultHandler, FifoFaultHandler, LruFaultHandler, FindEmpty
<1>4. QED
  BY <1>1, <1>2, <1>3 DEF HandlerReturns

\* One more frame is in use, none more is dirty, a block was read.
LEMMA FillCounts ==
    ASSUME IInv, CountersInv, NEW f \in EmptyFrames, Fill(access.page, f),
           pageFaults' = pageFaults + 1
    PROVE  CountersInv'
<1> USE DEF CountersInv, Agree, AllFits
<1>1. f \in Frames /\ frameTable[f].bits = NONE
  BY DEF EmptyFrames
<1>2. frameTable' = [frameTable EXCEPT ![f] = [page |-> access.page, bits |-> READ]]
  BY DEF Fill, SetEntry
<1>3. frameTable \in [Frames -> [page : Int, bits : SUBSET READWRITE]]
  BY DEF IInv, TypeOK
<1>4. Used' = Used \cup {f} /\ f \notin Used
  BY <1>1, <1>2, <1>3 DEF Used, EmptyFrames, NONE, READ
<1>5. Dirty' = Dirty
  BY <1>1, <1>2, <1>3 DEF Dirty, NONE, READ
<1>6. Cardinality(Used') = Cardinality(Used) + 1
  BY <1>4, FramesCounted, FS_AddElement
<1>7. diskReads' = diskReads + 1 /\ diskWrites' = diskWrites
  BY DEF Fill
<1>8. diskReads \in Nat /\ diskWrites \in Nat /\ pageFaults \in Nat /\ NFrames \in Nat
  BY FramesFinite DEF IInv, TypeOK
<1>9. QED
  BY <1>5, <1>6, <1>7, <1>8, FramesCounted

\* All frames are in use, so there were as many reads; one more and not all fits.
LEMMA ReplaceCounts ==
    ASSUME IInv, CountersInv, EmptyFrames = {}, NEW f \in Frames, Replace(access.page, f),
           pageFaults' = pageFaults + 1
    PROVE  CountersInv'
<1> USE DEF CountersInv
<1>1. frameTable' = [frameTable EXCEPT ![f] = [page |-> access.page, bits |-> READ]]
  BY DEF Replace
<1>2. frameTable \in [Frames -> [page : Int, bits : SUBSET READWRITE]]
  BY DEF IInv, TypeOK
<1>3. Used' = Frames /\ Used = Frames
  BY <1>1, <1>2 DEF Used, EmptyFrames, NONE, READ
<1>4. Dirty' = Dirty \ {f}
  BY <1>1, <1>2 DEF Dirty, READ
<1>5. diskReads \in Nat /\ diskWrites \in Nat /\ pageFaults \in Nat /\ NFrames \in Nat
  BY FramesFinite DEF IInv, TypeOK
<1>6. diskReads' = diskReads + 1
  BY DEF Replace
<1>7. diskReads >= NFrames
  BY <1>3, <1>5, FramesFinite DEF Agree
<1>8. AllFits'
  BY <1>5, <1>6, <1>7 DEF AllFits
<1>9. CASE "W" \in frameTable[f].bits
  <2>1. diskWrites' = diskWrites + 1 /\ f \in Dirty
    BY <1>9 DEF Replace, Dirty
  <2>2. Cardinality(Dirty') = Cardinality(Dirty) - 1
    BY <1>4, <2>1, FramesCounted, FS_RemoveElement
  <2>3. QED
    BY <1>3, <1>5, <1>6, <1>8, <2>1, <2>2, FramesCounted DEF Agree
<1>10. CASE "W" \notin frameTable[f].bits
  <2>1. diskWrites' = diskWrites /\ Dirty' = Dirty
    BY <1>4, <1>10 DEF Replace, Dirty
  <2>2. QED
    BY <1>3, <1>5, <1>6, <1>8, <2>1, FramesCounted DEF Agree
<1>11. QED
  BY <1>9, <1>10

\* One more frame is dirty, for one more fault.
LEMMA UpgradeCounts ==
    ASSUME IInv, CountersInv, Faulting, ~Absent, access.page \in Pages, Upgrade(access.page),
           pageFaults' = pageFaults + 1
    PROVE  CountersInv'
<1> DEFINE f == page_mapping[access.page]
<1> USE DEF CountersInv, Agree, AllFits
<1>1. f \in Frames /\ frameTable[f].bits = page_bits[access.page]
  BY DEF IInv, TablesAgree, Absent
<1>2. page_bits[access.page] = READ
  BY DEF IInv, BitsLegal, Absent, Faulting, READ, READWRITE, NONE
<1>3. frameTable \in [Frames -> [page : Int, bits : SUBSET READWRITE]]
  BY DEF IInv, TypeOK
<1>4. frameTable' = [frameTable EXCEPT ![f] = [page |-> access.page, bits |-> READWRITE]]
  BY DEF Upgrade, SetEntry
<1>5. Used' = Used
  BY <1>1, <1>2, <1>3, <1>4 DEF Used, EmptyFrames, READ, READWRITE, NONE
<1>6. Dirty' = Dirty \cup {f} /\ f \notin Dirty
  BY <1>1, <1>2, <1>3, <1>4 DEF Dirty, READ, READWRITE
<1>7. Cardinality(Dirty') = Cardinality(Dirty) + 1
  BY <1>6, FramesCounted, FS_AddElement
<1>8. diskReads' = diskReads /\ diskWrites' = diskWrites
  BY DEF Upgrade
<1>9. diskReads \in Nat /\ diskWrites \in Nat /\ pageFaults \in Nat
  BY DEF IInv, TypeOK
<1>10. QED
  BY <1>5, <1>7, <1>8, <1>9, FramesCounted

\* Only faults count, and each keeps the relation.
LEMMA StepCounts ==
    ASSUME IInv, CountersInv, [Next]_vars
    PROVE  CountersInv'
<1>1. CASE Fault
  BY <1>1, FaultCases, FillCounts, ReplaceCounts, UpgradeCounts
<1>2. CASE Issue \/ Read \/ Write \/ Abort \/ Exit \/ UNCHANGED vars
  <2>1. UNCHANGED <<frameTable, diskReads, diskWrites, pageFaults>>
    BY <1>2 DEF Issue, Read, Write, Abort, Exit, vars, tables, counters
  <2>2. QED
    BY <2>1 DEF CountersInv, Agree, AllFits, Used, Dirty, EmptyFrames
<1>3. QED
  BY <1>1, <1>2 DEF Next

\* Nothing is used, dirty or counted.
LEMMA InitCounts ==
    ASSUME CleanFrameTable, Init
    PROVE  CountersInv
<1>1. \A f \in Frames : frameTable[f].bits = NONE
  BY DEF Init, CleanFrameTable
<1>2. Used = {} /\ Dirty = {}
  BY <1>1 DEF Used, Dirty, EmptyFrames, NONE
<1>3. Cardinality({}) = 0
  BY FS_EmptySet
<1>4. diskReads = 0 /\ diskWrites = 0 /\ pageFaults = 0
  BY DEF Init
<1>5. QED
  BY <1>2, <1>3, <1>4 DEF CountersInv, Agree, AllFits

\* The inductive invariant of the counters
LEMMA CountersInvariant == CleanFrameTable /\ Spec => []CountersInv
<1>1. CleanFrameTable /\ Init => CountersInv
  BY InitCounts
<1>2. IInv /\ CountersInv /\ [Next]_vars => CountersInv'
  BY StepCounts
<1>3. QED
  BY <1>1, <1>2, VirtMemInvariant, PTL DEF Spec, SafeSpec

\* Every disk write was of a page some disk read brought in, and each fault read
\* a page in or made one dirty that is written back once or still dirty.
THEOREM CountersAlwaysAgree == CleanFrameTable /\ Spec => []CountersAgree
<1>1. CountersInv => CountersAgree
  BY DEF CountersInv, CountersAgree, Agree, Used, Dirty
<1>2. QED
  BY <1>1, CountersInvariant, PTL

\* A program that fits into memory is read in once and never written back,
\* under every policy.
THEOREM FittingProgramsDoNotPage == CleanFrameTable /\ Spec => []NoPagingWhileAllFits
<1>1. CountersInv => NoPagingWhileAllFits
  BY DEF CountersInv, NoPagingWhileAllFits, AllFits, Used, Dirty
<1>2. QED
  BY <1>1, CountersInvariant, PTL

-----------------------------------------------------------------------------
(* The order in which the fifo and the lru handler evict.  Neither keeps   *)
(* the order its promise is about: fifo has a position that moves on every *)
(* fault, lru ages that start from uninitialised memory.                   *)

\* The ages of the frames in use are different, and the older one's page has
\* faulted first.  A frame that has been in use for a fault is older than 1.
AgesAgree ==
    \A f, g \in InUse :
        /\ pageUsage[f] >= 1
        /\ f # g => pageUsage[f] # pageUsage[g]
        /\ pageUsage[f] > pageUsage[g] => <<f, g>> \in faulted

\* From currFrame on, and then from 0
ComesBefore(f, g) ==
    \/ f < g /\ ~(f < currFrame /\ currFrame <= g)
    \/ g < currFrame /\ currFrame <= f

\* The frames are filled from 0 on, at the position fifo is at; once all are in
\* use, frameArr is 0, 1, 2, ... and the oldest frame is the one at currFrame.
PositionAgrees ==
    /\ \A f \in Frames : f < currFrame => f \in InUse
    /\ EmptyFrames # {} => \A f \in InUse : f < currFrame
    /\ \A f \in InUse : frameArr[f] = f
    /\ \A f, g \in InUse : ComesBefore(f, g) => <<f, g>> \in loaded

HInv ==
    /\ diskReads <= pageFaults
    /\ handler = "lru" => AgesAgree
    /\ handler = "fifo" /\ diskReads = pageFaults => PositionAgrees

-----------------------------------------------------------------------------
(* The frames in use *)

\* A page that comes in has the frame, and no other frame changes.
LEMMA ComesIn ==
    ASSUME IInv, NEW page \in Pages, NEW f \in Frames,
           Fill(page, f) \/ Replace(page, f)
    PROVE  /\ page_mapping'[page] = f
           /\ InUse' = InUse \cup {f}
           /\ \A g \in Frames \ {f} : frameTable'[g] = frameTable[g]
           /\ diskReads' = diskReads + 1
<1>1. page_mapping \in [Pages -> Int] /\ frameTable \in [Frames -> [page : Int, bits : SUBSET READWRITE]]
  BY DEF IInv, TypeOK
<1>2. /\ frameTable' = [frameTable EXCEPT ![f] = [page |-> page, bits |-> READ]]
      /\ page_mapping'[page] = f
      /\ diskReads' = diskReads + 1
  BY <1>1 DEF Fill, SetEntry, Replace
<1>3. frameTable'[f].bits # NONE
  BY <1>1, <1>2 DEF READ, NONE
<1>4. \A g \in Frames \ {f} : frameTable'[g] = frameTable[g]
  BY <1>1, <1>2
<1>5. InUse' = InUse \cup {f}
  BY <1>3, <1>4 DEF InUse, EmptyFrames
<1>6. QED
  BY <1>2, <1>4, <1>5

\* A write fault leaves every page where it is.
LEMMA StaysIn ==
    ASSUME IInv, access.page \in Pages, ~Absent, Upgrade(access.page)
    PROVE  /\ page_mapping'[access.page] = page_mapping[access.page]
           /\ page_mapping[access.page] \in InUse
           /\ InUse' = InUse
           /\ \A g \in Frames : frameTable'[g].page = frameTable[g].page
           /\ diskReads' = diskReads
<1> DEFINE f == page_mapping[access.page]
<1>1. page_mapping \in [Pages -> Int] /\ frameTable \in [Frames -> [page : Int, bits : SUBSET READWRITE]]
  BY DEF IInv, TypeOK
<1>2. f \in Frames /\ frameTable[f].page = access.page /\ frameTable[f].bits # NONE
  BY DEF IInv, TablesAgree, Absent
<1>3. /\ frameTable' = [frameTable EXCEPT ![f] = [page |-> access.page, bits |-> READWRITE]]
      /\ page_mapping' = [page_mapping EXCEPT ![access.page] = f]
      /\ diskReads' = diskReads
  BY DEF Upgrade, SetEntry
<1>4. frameTable'[f].bits # NONE /\ frameTable'[f].page = frameTable[f].page
  BY <1>1, <1>2, <1>3 DEF READWRITE, NONE
<1>5. \A g \in Frames \ {f} : frameTable'[g] = frameTable[g]
  BY <1>1, <1>3
<1>6. page_mapping'[access.page] = f
  BY <1>1, <1>3
<1>7. InUse' = InUse /\ f \in InUse
  BY <1>2, <1>4, <1>5 DEF InUse, EmptyFrames
<1>8. QED
  BY <1>3, <1>4, <1>5, <1>6, <1>7

\* What comes after a move to the end: the frame moved, and what came after.
LEMMA Moved ==
    ASSUME NEW order, NEW f
    PROVE  /\ \A g \in InUse \ {f} : <<g, f>> \in MoveToEnd(order, f)
           /\ \A g, h : <<g, h>> \in order /\ g # f /\ h # f => <<g, h>> \in MoveToEnd(order, f)
<1>1. \A g, h : <<g, h>> \in order /\ g # f /\ h # f => <<g, h>> \in MoveToEnd(order, f)
  <2>1. SUFFICES ASSUME NEW g, NEW h, <<g, h>> \in order, g # f, h # f
                 PROVE  <<g, h>> \in {pair \in order : f \notin {pair[1], pair[2]}}
    BY DEF MoveToEnd
  <2>2. f \notin {<<g, h>>[1], <<g, h>>[2]}
    BY <2>1
  <2>3. QED
    BY <2>1, <2>2
<1>2. \A g \in InUse \ {f} : <<g, f>> \in MoveToEnd(order, f)
  BY DEF MoveToEnd
<1>3. QED
  BY <1>1, <1>2

-----------------------------------------------------------------------------
(* lru *)

\* A fault makes its frame the youngest and keeps the order of the others.
LEMMA AgeStep ==
    ASSUME IInv, AgesAgree, NEW f \in Frames, Age(f), InUse' = InUse \cup {f},
           faulted' = MoveToEnd(faulted, f)
    PROVE  AgesAgree'
<1>1. pageUsage \in [Frames -> Int]
  BY DEF IInv, TypeOK
<1>2. \A g \in InUse \ {f} : pageUsage'[g] = pageUsage[g] + 1 /\ pageUsage[g] \in Int
                             /\ pageUsage[g] >= 1
  BY <1>1 DEF Age, AgesAgree, InUse
<1>3. pageUsage'[f] = 1
  BY DEF Age
<1>4. SUFFICES ASSUME NEW g \in InUse \cup {f}, NEW h \in InUse \cup {f}
               PROVE  /\ pageUsage'[g] >= 1
                      /\ g # h => pageUsage'[g] # pageUsage'[h]
                      /\ pageUsage'[g] > pageUsage'[h] => <<g, h>> \in faulted'
  BY DEF AgesAgree
<1>5. pageUsage'[g] >= 1 /\ (g # h => pageUsage'[g] # pageUsage'[h])
  <2>1. g \in InUse \ {f} /\ h \in InUse \ {f} => (g # h => pageUsage[g] # pageUsage[h])
    BY DEF AgesAgree
  <2>2. QED
    BY <1>2, <1>3, <1>4, <2>1
<1>6. CASE g # f /\ h # f
  <2>1. pageUsage'[g] > pageUsage'[h] => pageUsage[g] > pageUsage[h]
    BY <1>2, <1>4, <1>6
  <2>2. pageUsage[g] > pageUsage[h] => <<g, h>> \in faulted
    BY <1>4, <1>6 DEF AgesAgree
  <2>3. QED
    BY <1>5, <1>6, <2>1, <2>2, Moved
<1>7. CASE h = f /\ g # f
  BY <1>4, <1>5, <1>7, Moved
<1>8. CASE g = f
  <2>1. ~(pageUsage'[g] > pageUsage'[h])
    BY <1>2, <1>3, <1>4, <1>8
  <2>2. QED
    BY <1>5, <2>1
<1>9. QED
  BY <1>6, <1>7, <1>8

\* With all frames in use, the oldest one's page has faulted first.
LEMMA StalestFirst ==
    ASSUME IInv, AgesAgree, EmptyFrames = {}, NEW f \in Frames, Stalest(f)
    PROVE  First(faulted, f)
<1>1. InUse = Frames /\ pageUsage \in [Frames -> Int]
  BY DEF InUse, IInv, TypeOK
<1>2. ASSUME NEW g \in Frames \ {f}
      PROVE  pageUsage[g] < pageUsage[f]
  <2>1. pageUsage[g] \in Int /\ pageUsage[f] \in Int
    BY <1>1
  <2>2. pageUsage[g] <= pageUsage[f]
    BY DEF Stalest
  <2>3. pageUsage[g] # pageUsage[f]
    BY <1>1 DEF AgesAgree
  <2>4. QED
    BY <2>1, <2>2, <2>3
<1>3. QED
  BY <1>1, <1>2 DEF First, AgesAgree

-----------------------------------------------------------------------------
(* fifo *)

\* currFrame goes round the frames.
LEMMA Round ==
    ASSUME IInv
    PROVE  /\ currFrame \in Nat /\ currFrame < NFrames
           /\ currFrame + 1 < NFrames => NextSlot = currFrame + 1
           /\ currFrame + 1 = NFrames => NextSlot = 0
           /\ currFrame + 1 <= NFrames
           /\ NFrames \in Nat
<1>1. NFrames \in Nat \ {0} /\ currFrame \in 0 .. NFrames - 1
  BY VirtMemAssumption DEF IInv, TypeOK, Frames
<1>2. QED
  BY <1>1 DEF NextSlot

\* The next frame to fill is at fifo's position.
LEMMA FillStep ==
    ASSUME IInv, PositionAgrees, NEW f \in Frames, FindEmpty(f),
           InUse' = InUse \cup {f}, EmptyFrames' = EmptyFrames \ {f},
           frameArr' = [frameArr EXCEPT ![currFrame] = f],
           currFrame' = NextSlot, loaded' = MoveToEnd(loaded, f)
    PROVE  PositionAgrees'
<1>1. f = currFrame
  <2>1. currFrame \in Frames /\ f \notin InUse /\ f \in EmptyFrames
    BY DEF IInv, TypeOK, InUse, FindEmpty
  <2>2. ~(f < currFrame)
    BY <2>1 DEF PositionAgrees
  <2>3. currFrame \notin InUse
    BY <2>1, Round DEF PositionAgrees
  <2>4. f <= currFrame
    BY <2>1, <2>3 DEF FindEmpty, InUse
  <2>5. QED
    BY <2>1, <2>2, <2>4 DEF Frames
<1>2. \A g \in InUse : g < currFrame /\ g # f /\ g \in Frames /\ g \in Nat
  <2>1. EmptyFrames # {}
    BY DEF FindEmpty
  <2>2. QED
    BY <2>1, <1>1, Round DEF PositionAgrees, InUse, Frames
<1>3. \A g \in Frames : g < currFrame => g \in InUse
  BY DEF PositionAgrees
<1>4. \A g \in Frames : g \in Nat /\ g <= NFrames - 1
  BY DEF Frames
<1>5. \A g \in Frames : g < currFrame' => g \in InUse'
  BY <1>1, <1>3, <1>4, Round
<1>6. EmptyFrames' # {} => \A g \in InUse' : g < currFrame'
  <2>1. CASE currFrame + 1 < NFrames
    BY <1>1, <1>2, <2>1, Round
  <2>2. CASE currFrame + 1 = NFrames
    <3>1. \A g \in Frames : g \in InUse \/ g = f
      BY <1>1, <1>3, <1>4, <2>2, Round
    <3>2. EmptyFrames \ {f} = {}
      BY <3>1 DEF InUse, EmptyFrames
    <3>3. QED
      BY <3>2
  <2>3. QED
    BY <2>1, <2>2, Round
<1>7. \A g \in InUse' : frameArr'[g] = g
  <2>1. frameArr \in [Frames -> Int]
    BY DEF IInv, TypeOK
  <2>2. QED
    BY <1>1, <1>2, <2>1 DEF PositionAgrees
<1>8. ASSUME NEW g \in InUse', NEW h \in InUse', ComesBefore(g, h)'
      PROVE  <<g, h>> \in loaded'
  <2>1. g < h
    BY <1>1, <1>2, <1>4, <1>8, Round DEF ComesBefore
  <2>2. CASE h = f
    BY <1>8, <2>1, <2>2, <1>4, Moved
  <2>3. CASE h # f
    <3>1. g \in InUse /\ h \in InUse
      BY <1>1, <1>2, <1>8, <2>1, <2>3, <1>4
    <3>2. ComesBefore(g, h)
      BY <1>2, <2>1, <3>1, Round DEF ComesBefore
    <3>3. QED
      BY <1>2, <3>1, <3>2, Moved DEF PositionAgrees
  <2>4. QED
    BY <2>2, <2>3
<1>9. QED
  BY <1>5, <1>6, <1>7, <1>8 DEF PositionAgrees

\* The evicted frame becomes the youngest, and the one behind it the oldest.
LEMMA EvictStep ==
    ASSUME IInv, PositionAgrees, EmptyFrames = {},
           InUse' = Frames, EmptyFrames' = {},
           frameArr' = frameArr, currFrame' = NextSlot,
           loaded' = MoveToEnd(loaded, currFrame)
    PROVE  PositionAgrees'
<1>1. InUse = Frames /\ currFrame \in Frames
  BY DEF InUse, IInv, TypeOK
<1>2. \A g \in Frames : g \in Nat /\ g < NFrames
  BY VirtMemAssumption DEF Frames
<1>3. ASSUME NEW g \in Frames, NEW h \in Frames, ComesBefore(g, h)'
      PROVE  <<g, h>> \in loaded'
  <2>1. g # currFrame
    BY <1>2, <1>3, Round DEF ComesBefore
  <2>2. CASE h = currFrame
    BY <1>1, <2>1, <2>2, Moved
  <2>3. CASE h # currFrame
    <3>1. ComesBefore(g, h)
      BY <1>2, <1>3, <2>1, <2>3, Round DEF ComesBefore
    <3>2. <<g, h>> \in loaded
      BY <1>1, <3>1 DEF PositionAgrees
    <3>3. QED
      BY <2>1, <2>3, <3>2, Moved
  <2>4. QED
    BY <2>2, <2>3
<1>4. QED
  BY <1>1, <1>3 DEF PositionAgrees

\* With all frames in use, the frame at fifo's position was filled first.
LEMMA PositionFirst ==
    ASSUME IInv, PositionAgrees, EmptyFrames = {}
    PROVE  frameArr[currFrame] = currFrame /\ First(loaded, currFrame)
<1>1. InUse = Frames /\ currFrame \in Frames
  BY DEF InUse, IInv, TypeOK
<1>2. \A g \in Frames \ {currFrame} : ComesBefore(currFrame, g)
  BY Round DEF ComesBefore, Frames
<1>3. QED
  BY <1>1, <1>2 DEF First, PositionAgrees
-----------------------------------------------------------------------------
(* The steps *)

\* What HNext does to the orders on a fault
Recorded ==
    /\ loaded' = IF Absent THEN MoveToEnd(loaded, FrameAfter) ELSE loaded
    /\ faulted' = MoveToEnd(faulted, FrameAfter)

\* A page that comes in takes a frame from another only if none is empty.
LEMMA OnlyThatFrame ==
    ASSUME NEW f \in Frames, NEW g \in Frames, Evicts(g),
           \A h \in Frames \ {f} : frameTable'[h] = frameTable[h]
    PROVE  g = f /\ frameTable[f].bits # NONE
  BY DEF Evicts

\* Of a step of lru
LEMMA LruStep ==
    ASSUME IInv, HInv, LruFaultHandler, Recorded
    PROVE  AgesAgree' /\ \A g \in Frames : Evicts(g) => First(faulted, g)
<1>1. AgesAgree /\ access.page \in Pages
  BY AccessType DEF HInv, LruFaultHandler, Faulting, Executing, IInv
<1>2. CASE \E f \in Frames :
              Absent /\ FindEmpty(f) /\ Fill(access.page, f) /\ Age(f)
  <2>1. PICK f \in Frames : Absent /\ FindEmpty(f) /\ Fill(access.page, f) /\ Age(f)
    BY <1>2
  <2>2. /\ FrameAfter = f /\ InUse' = InUse \cup {f}
        /\ \A g \in Frames \ {f} : frameTable'[g] = frameTable[g]
    BY <1>1, <2>1, ComesIn DEF FrameAfter
  <2>3. AgesAgree'
    BY <1>1, <2>1, <2>2, AgeStep DEF Recorded
  <2>4. \A g \in Frames : ~Evicts(g)
    BY <2>1, <2>2, OnlyThatFrame DEF FindEmpty, EmptyFrames
  <2>5. QED
    BY <2>3, <2>4
<1>3. CASE /\ Absent
           /\ EmptyFrames = {}
           /\ \E f \in Frames : Stalest(f) /\ Replace(access.page, f) /\ Age(f)
  <2>1. PICK f \in Frames : Stalest(f) /\ Replace(access.page, f) /\ Age(f)
    BY <1>3
  <2>2. /\ FrameAfter = f /\ InUse' = InUse \cup {f}
        /\ \A g \in Frames \ {f} : frameTable'[g] = frameTable[g]
    BY <1>1, <2>1, ComesIn DEF FrameAfter
  <2>3. AgesAgree'
    BY <1>1, <2>1, <2>2, AgeStep DEF Recorded
  <2>4. First(faulted, f)
    BY <1>1, <1>3, <2>1, StalestFirst
  <2>5. \A g \in Frames : Evicts(g) => g = f
    BY <2>2, OnlyThatFrame
  <2>6. QED
    BY <2>3, <2>4, <2>5
<1>4. CASE /\ ~Absent
           /\ Upgrade(access.page)
           /\ Age(page_mapping[access.page])
  <2> DEFINE f == page_mapping[access.page]
  <2>1. /\ FrameAfter = f /\ f \in InUse /\ InUse' = InUse
        /\ \A g \in Frames : frameTable'[g].page = frameTable[g].page
    BY <1>1, <1>4, StaysIn DEF FrameAfter
  <2>2. f \in Frames /\ InUse' = InUse \cup {f}
    BY <2>1 DEF InUse
  <2>3. AgesAgree'
    BY <1>1, <1>4, <2>1, <2>2, AgeStep DEF Recorded
  <2>4. \A g \in Frames : ~Evicts(g)
    BY <2>1 DEF Evicts
  <2>5. QED
    BY <2>3, <2>4
<1>5. QED
  BY <1>2, <1>3, <1>4 DEF LruFaultHandler

\* Of a step of fifo, as long as every fault has brought a page in
LEMMA FifoStep ==
    ASSUME IInv, HInv, FifoFaultHandler, Recorded, diskReads = pageFaults
    PROVE  /\ diskReads' <= pageFaults'
           /\ diskReads' = pageFaults' => PositionAgrees'
           /\ \A g \in Frames : Evicts(g) => First(loaded, g)
<1>1. PositionAgrees /\ access.page \in Pages
  BY AccessType DEF HInv, FifoFaultHandler, Faulting, Executing, IInv
<1>2. pageFaults' = pageFaults + 1 /\ currFrame' = NextSlot
  BY DEF FifoFaultHandler, HandlerReturns
<1>3. diskReads \in Nat /\ pageFaults \in Nat
  BY DEF IInv, TypeOK
<1>4. CASE \E f \in Frames :
              /\ Absent
              /\ FindEmpty(f)
              /\ Fill(access.page, f)
              /\ frameArr' = [frameArr EXCEPT ![currFrame] = f]
  <2>1. PICK f \in Frames :
              /\ Absent
              /\ FindEmpty(f)
              /\ Fill(access.page, f)
              /\ frameArr' = [frameArr EXCEPT ![currFrame] = f]
    BY <1>4
  <2>2. /\ FrameAfter = f /\ InUse' = InUse \cup {f} /\ diskReads' = diskReads + 1
        /\ \A g \in Frames \ {f} : frameTable'[g] = frameTable[g]
    BY <1>1, <2>1, ComesIn DEF FrameAfter
  <2>3. EmptyFrames' = EmptyFrames \ {f}
    BY <2>2 DEF InUse, EmptyFrames
  <2>4. PositionAgrees'
    BY <1>1, <1>2, <2>1, <2>2, <2>3, FillStep DEF Recorded
  <2>5. \A g \in Frames : ~Evicts(g)
    BY <2>1, <2>2, OnlyThatFrame DEF FindEmpty, EmptyFrames
  <2>6. QED
    BY <1>2, <1>3, <2>2, <2>4, <2>5
<1>5. CASE /\ Absent
           /\ EmptyFrames = {}
           /\ frameArr[currFrame] \in Frames
           /\ Replace(access.page, frameArr[currFrame])
           /\ UNCHANGED frameArr
  <2>1. frameArr[currFrame] = currFrame /\ First(loaded, currFrame) /\ currFrame \in Frames
    BY <1>1, <1>5, PositionFirst
  <2>2. /\ FrameAfter = currFrame /\ InUse' = InUse \cup {currFrame}
        /\ diskReads' = diskReads + 1
        /\ \A g \in Frames \ {currFrame} : frameTable'[g] = frameTable[g]
    BY <1>1, <1>5, <2>1, ComesIn DEF FrameAfter
  <2>3. InUse' = Frames /\ EmptyFrames' = {}
    BY <1>5, <2>1, <2>2 DEF InUse, EmptyFrames
  <2>4. PositionAgrees'
    BY <1>1, <1>2, <1>5, <2>2, <2>3, EvictStep DEF Recorded
  <2>5. \A g \in Frames : Evicts(g) => g = currFrame
    BY <2>1, <2>2, OnlyThatFrame
  <2>6. QED
    BY <1>2, <1>3, <2>1, <2>2, <2>4, <2>5
<1>6. CASE ~Absent /\ Upgrade(access.page)
  <2>1. diskReads' = diskReads /\ \A g \in Frames : frameTable'[g].page = frameTable[g].page
    BY <1>1, <1>6, StaysIn
  <2>2. \A g \in Frames : ~Evicts(g)
    BY <2>1 DEF Evicts
  <2>3. QED
    BY <1>2, <1>3, <2>1, <2>2
<1>7. QED
  BY <1>4, <1>5, <1>6 DEF FifoFaultHandler

\* No fault reads more than one block, and a fault on which none is read leaves
\* the two counters apart for good.
LEMMA ReadsBehind ==
    ASSUME IInv, HInv, Fault
    PROVE  /\ diskReads' <= pageFaults'
           /\ diskReads' = pageFaults' => diskReads = pageFaults
<1>1. pageFaults' = pageFaults + 1 /\ diskReads' \in {diskReads, diskReads + 1}
  BY FaultServes DEF Serve, HandlerReturns, Fill, Replace, Upgrade
<1>2. diskReads \in Nat /\ pageFaults \in Nat /\ diskReads <= pageFaults
  BY DEF IInv, TypeOK, HInv
<1>3. QED
  BY <1>1, <1>2

\* Every step keeps the invariant, and evicts the frame the policy promises.
LEMMA StepHistory ==
    ASSUME IInv, HInv, [HNext]_<<vars, history>>
    PROVE  /\ HInv'
           /\ handler = "fifo" /\ diskReads = pageFaults =>
                  \A f \in Frames : Evicts(f) => First(loaded, f)
           /\ handler = "lru" => \A f \in Frames : Evicts(f) => First(faulted, f)
<1>1. CASE Fault /\ Recorded
  <2>1. /\ diskReads' <= pageFaults'
        /\ diskReads' = pageFaults' => diskReads = pageFaults
    BY <1>1, ReadsBehind
  <2>2. CASE RandFaultHandler
    <3>1. handler = "rand" /\ handler' = "rand"
      BY <2>2 DEF RandFaultHandler, policyState
    <3>2. QED
      BY <2>1, <3>1 DEF HInv
  <2>3. CASE FifoFaultHandler
    <3>1. handler = "fifo" /\ handler' = "fifo"
      BY <2>3 DEF FifoFaultHandler
    <3>2. QED
      BY <1>1, <2>1, <2>3, <3>1, FifoStep DEF HInv
  <2>4. CASE LruFaultHandler
    <3>1. handler = "lru" /\ handler' = "lru"
      BY <2>4 DEF LruFaultHandler
    <3>2. QED
      BY <1>1, <2>1, <2>4, <3>1, LruStep DEF HInv
  <2>5. QED
    BY <1>1, <2>2, <2>3, <2>4 DEF Fault
<1>2. CASE /\ Issue \/ Abort \/ Exit \/ Read \/ Write \/ UNCHANGED vars
           /\ UNCHANGED <<loaded, faulted>>
  <2>1. UNCHANGED <<frameTable, policyState, counters>>
    BY <1>2 DEF Issue, Read, Write, Abort, Exit, vars, tables
  <2>2. UNCHANGED <<frameTable, handler, frameArr, currFrame, pageUsage, diskReads, pageFaults>>
    BY <2>1 DEF policyState, counters
  <2>3. \A f \in Frames : ~Evicts(f)
    BY <2>2 DEF Evicts
  <2>4. InUse' = InUse /\ EmptyFrames' = EmptyFrames
    BY <2>2 DEF InUse, EmptyFrames
  <2>5. HInv'
    BY <1>2, <2>2, <2>4 DEF HInv, AgesAgree, PositionAgrees, ComesBefore
  <2>6. QED
    BY <2>3, <2>5
<1>3. QED
  BY <1>1, <1>2 DEF HNext, Recorded, history, vars

\* Nothing is in use.
LEMMA InitHistory ==
    ASSUME CleanFrameTable, HInit
    PROVE  IInv /\ HInv
<1>1. IInv
  BY InitIInv DEF HInit
<1>2. \A f \in Frames : frameTable[f].bits = NONE
  BY DEF HInit, Init, CleanFrameTable
<1>3. InUse = {} /\ currFrame = 0 /\ diskReads = 0 /\ pageFaults = 0
  BY <1>2 DEF InUse, EmptyFrames, HInit, Init
<1>4. PositionAgrees /\ AgesAgree
  BY <1>3 DEF PositionAgrees, AgesAgree, Frames
<1>5. QED
  BY <1>1, <1>3, <1>4 DEF HInv

\* The inductive invariant, with that of the paged memory
THEOREM HistoryInvariant == CleanFrameTable /\ HSpec => [](IInv /\ HInv)
<1> SUFFICES ASSUME CleanFrameTable PROVE HSpec => [](IInv /\ HInv)
  OBVIOUS
<1>1. HInit => IInv /\ HInv
  BY InitHistory
<1>2. (IInv /\ HInv) /\ [HNext]_<<vars, history>> => (IInv /\ HInv)'
  <2>1. [HNext]_<<vars, history>> => [Next]_vars
    BY DEF HNext, Next
  <2>2. QED
    BY <2>1, StepIInv, StepHistory
<1>3. QED
  BY <1>1, <1>2, PTL DEF HSpec

\* The page that came in first is evicted by fifo, until the first fault that
\* brings none in, whatever frameArr held at the start.
THEOREM FifoEvictsTheOldest == CleanFrameTable /\ HSpec => FifoEvictsOldestAtFirst
<1>1. IInv /\ HInv /\ [HNext]_<<vars, history>> =>
        [handler = "fifo" /\ diskReads = pageFaults =>
            \A f \in Frames : Evicts(f) => First(loaded, f)]_vars
  BY StepHistory
<1>2. QED
  BY <1>1, HistoryInvariant, PTL DEF HSpec, FifoEvictsOldestAtFirst

\* The page whose last fault is the longest ago is evicted by lru.
THEOREM LruEvictsTheStalest == CleanFrameTable /\ HSpec => LruEvictsLongestUnfaulted
<1>1. IInv /\ HInv /\ [HNext]_<<vars, history>> =>
        [handler = "lru" => \A f \in Frames : Evicts(f) => First(faulted, f)]_vars
  BY StepHistory
<1>2. QED
  BY <1>1, HistoryInvariant, PTL DEF HSpec, LruEvictsLongestUnfaulted

=============================================================================
