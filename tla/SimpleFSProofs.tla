--------------------------- MODULE SimpleFSProofs ---------------------------
(***************************************************************************)
(* Proofs about SimpleFS, for every disk size and geometry, any number of  *)
(* files and commands, and a crash between any two disk writes: no block   *)
(* serves two purposes, a block in use is never marked free, what was      *)
(* written stays where the pointers lead, and a write never shortens.      *)
(*                                                                         *)
(* FSInv is about the direct pointers of the inodes, also those behind the *)
(* end of a file.  StrongInv is about the places of the files in use, and  *)
(* of the one being written those that will be when fs_write() returns.    *)
(***************************************************************************)
EXTENDS SimpleFS, TLAPS, WellFoundedInduction

\* What of the inodes' type is needed: the members that are assigned exist.
InodeShape ==
    /\ DOMAIN inode = Inumbers
    /\ \A n \in Inumbers :
        /\ {"isvalid", "size", "indirect", "direct"} \subseteq DOMAIN inode[n]
        /\ DOMAIN inode[n].direct = 0 .. P - 1

\* Blocks are handed out only while the inode blocks are marked.
MapInv ==
    /\ IS_MOUNTED \in BOOLEAN
    /\ pc # "idle" => IS_MOUNTED
    /\ IS_MOUNTED => 1 .. NInodeBlocks \subseteq BLOCK_MAP

FSInv == InodeShape /\ MapInv /\ DirectBlocksApart /\ DirectBlocksMarked

\* An inode that fs_create() or fs_format() has written names no block.
LEMMA EmptyShape ==
    /\ {"isvalid", "size", "indirect", "direct"} \subseteq DOMAIN EmptyInode
    /\ DOMAIN EmptyInode.direct = 0 .. P - 1
    /\ EmptyInode.isvalid = FALSE
    /\ \A k \in 0 .. P - 1 : EmptyInode.direct[k] = 0
  BY DEF EmptyInode

\* No inode is valid, nothing is mounted.
LEMMA InitFS ==
    ASSUME Init
    PROVE  FSInv
<1>1. InodeShape
  BY EmptyShape DEF Init, InodeShape
<1>2. \A n \in Inumbers : inode[n].isvalid = FALSE
  BY EmptyShape DEF Init
<1>3. Valid = {}
  BY <1>2 DEF Valid
<1>4. MapInv
  BY DEF Init, MapInv
<1>5. QED
  BY <1>1, <1>3, <1>4 DEF FSInv, DirectBlocksApart, DirectBlocksMarked

\* A step that writes no direct pointer, and makes no inode valid
LEMMA SameDirects ==
    ASSUME FSInv, InodeShape', MapInv',
           \A n \in Inumbers : inode'[n].isvalid => inode[n].isvalid /\ inode'[n].direct = inode[n].direct,
           IS_MOUNTED' => IS_MOUNTED /\ BLOCK_MAP \ {0} \subseteq BLOCK_MAP'
    PROVE  FSInv'
<1>1. Valid' \subseteq Valid /\ \A n \in Valid' : inode'[n].direct = inode[n].direct
  BY DEF Valid
<1>2. DirectBlocksApart'
  BY <1>1 DEF FSInv, DirectBlocksApart
<1>3. DirectBlocksMarked'
  BY <1>1 DEF FSInv, DirectBlocksMarked, Directs
<1>4. QED
  BY <1>2, <1>3 DEF FSInv

\* Formatting makes every inode invalid.
LEMMA FormatFS ==
    ASSUME FSInv, Format
    PROVE  FSInv'
<1>1. MapInv'
  BY DEF Format, FSInv, MapInv
<1>2. CASE UNCHANGED inode
  <2>1. InodeShape'
    BY <1>2 DEF FSInv, InodeShape
  <2>2. QED
    BY <1>1, <1>2, <2>1, SameDirects DEF Format
<1>3. CASE inode' = [n \in Inumbers |-> [EmptyInode EXCEPT !.size = inode[n].size]]
  <2>1. \A n \in Inumbers : inode'[n].isvalid = FALSE /\ inode'[n].direct = EmptyInode.direct
    BY <1>3, EmptyShape DEF EmptyInode
  <2>2. \A n \in Inumbers : DOMAIN inode'[n] = DOMAIN EmptyInode
    BY <1>3
  <2>3. InodeShape'
    BY <1>3, <2>1, <2>2, EmptyShape DEF InodeShape
  <2>4. QED
    BY <1>1, <2>1, <2>3, SameDirects DEF Format
<1>4. QED
  BY <1>2, <1>3 DEF Format

\* fs_mount() marks the direct blocks it finds, and the inode blocks.
LEMMA MountFS ==
    ASSUME FSInv, Mount
    PROVE  FSInv'
<1>1. \A n \in Valid : Directs(n) \subseteq BLOCK_MAP'
  BY DEF Mount, Marked, Valid
<1>2. 1 .. NInodeBlocks \subseteq BLOCK_MAP'
  BY DEF Mount
<1>3. UNCHANGED <<inode, pc>> /\ pc = "idle" /\ IS_MOUNTED' = TRUE
  BY DEF Mount
<1>4. Valid' = Valid /\ \A n : Directs(n)' = Directs(n)
  BY <1>3 DEF Valid, Directs
<1>5. QED
  BY <1>1, <1>2, <1>3, <1>4
  DEF FSInv, InodeShape, MapInv, DirectBlocksApart, DirectBlocksMarked

\* A new inode has no blocks.
LEMMA CreateFS ==
    ASSUME FSInv, Create
    PROVE  FSInv'
<1> DEFINE free == {n \in Inumbers \ {0} : ~inode[n].isvalid}
           new == Min(free)
<1>1. inode' = [inode EXCEPT ![new] = [EmptyInode EXCEPT !.isvalid = TRUE]]
  BY DEF Create
<1> HIDE DEF new
<1>2. UNCHANGED <<pc, IS_MOUNTED, BLOCK_MAP>>
  BY DEF Create
<1>3. \A n \in Inumbers : n # new => inode'[n] = inode[n]
  BY <1>1 DEF FSInv, InodeShape
<1>4. new \in Inumbers => /\ DOMAIN inode'[new] = DOMAIN EmptyInode
                          /\ inode'[new].direct = EmptyInode.direct
  BY <1>1, EmptyShape DEF FSInv, InodeShape, EmptyInode
<1>5. InodeShape'
  BY <1>1, <1>3, <1>4, EmptyShape DEF FSInv, InodeShape
<1>6. \A n \in Valid' : \/ n \in Valid /\ inode'[n].direct = inode[n].direct
                        \/ \A k \in 0 .. P - 1 : inode'[n].direct[k] = 0
  BY <1>3, <1>4, EmptyShape DEF Valid
<1>7. DirectBlocksApart'
  BY <1>6 DEF FSInv, DirectBlocksApart
<1>8. DirectBlocksMarked'
  BY <1>2, <1>6 DEF FSInv, DirectBlocksMarked, Directs
<1>9. QED
  BY <1>2, <1>5, <1>7, <1>8 DEF FSInv, MapInv

\* fs_delete() clears BLOCK_MAP[0] and the inode.
LEMMA DeleteFS ==
    ASSUME FSInv, NEW n \in Inumbers, Delete(n)
    PROVE  FSInv'
<1>1. inode' = [inode EXCEPT ![n] = EmptyInode] /\ BLOCK_MAP' = BLOCK_MAP \ {0}
  BY DEF Delete
<1>2. InodeShape'
  BY <1>1, EmptyShape DEF FSInv, InodeShape
<1>3. MapInv'
  BY <1>1 DEF Delete, FSInv, MapInv
<1>4. \A m \in Inumbers : inode'[m].isvalid => m # n /\ inode'[m] = inode[m]
  BY <1>1, EmptyShape DEF FSInv, InodeShape
<1>5. QED
  BY <1>1, <1>2, <1>3, <1>4, SameDirects DEF Delete

\* A block that is handed out as a direct block was not marked, so it is no
\* other's and no inode block.
LEMMA AllocFS ==
    ASSUME FSInv, AllocDirect
    PROVE  FSInv'
<1>1. IS_MOUNTED /\ IS_MOUNTED' = TRUE /\ pc' = "directData"
  BY DEF AllocDirect, FSInv, MapInv
<1>2. PICK b \in Blocks \ BLOCK_MAP :
          /\ BLOCK_MAP' = BLOCK_MAP \cup {b}
          /\ inode' = [inode EXCEPT ![w.inumber].direct[w.i] = b]
  BY DEF AllocDirect, Allocate, Free
<1>3. InodeShape'
  BY <1>2 DEF FSInv, InodeShape
<1>4. MapInv'
  BY <1>1, <1>2 DEF FSInv, MapInv
<1>5. /\ Valid' = Valid
      /\ \A n \in Valid, k \in 0 .. P - 1 :
             inode'[n].direct[k] = IF n = w.inumber /\ k = w.i THEN b ELSE inode[n].direct[k]
  BY <1>2 DEF FSInv, InodeShape, Valid
<1>6. \A n \in Valid, k \in 0 .. P - 1 : inode[n].direct[k] # 0 => inode[n].direct[k] # b
  BY <1>1, <1>2 DEF FSInv, DirectBlocksMarked, Directs
<1>7. b \notin 1 .. NInodeBlocks
  BY <1>1, <1>2 DEF FSInv, MapInv
<1>8. DirectBlocksApart'
  BY <1>5, <1>6, <1>7 DEF FSInv, DirectBlocksApart
<1>9. DirectBlocksMarked'
  BY <1>1, <1>2, <1>5 DEF FSInv, DirectBlocksMarked, Directs
<1>10. QED
  BY <1>3, <1>4, <1>8, <1>9 DEF FSInv

\* The other steps of a command write no direct pointer.
LEMMA CommandFS ==
    ASSUME FSInv, pc # "idle",
           IS_MOUNTED' = IS_MOUNTED, BLOCK_MAP \subseteq BLOCK_MAP',
           \/ UNCHANGED inode
           \/ \E n, x : inode' = [inode EXCEPT ![n].size = x]
           \/ \E n, x : inode' = [inode EXCEPT ![n].indirect = x]
    PROVE  FSInv'
<1>1. InodeShape'
  BY DEF FSInv, InodeShape
<1>2. \A n \in Inumbers : inode'[n].isvalid = inode[n].isvalid /\ inode'[n].direct = inode[n].direct
  BY DEF FSInv, InodeShape
<1>3. MapInv'
  BY DEF FSInv, MapInv
<1>4. QED
  BY <1>1, <1>2, <1>3, SameDirects

\* No disk write, crash or command breaks the invariant.
LEMMA StepFS ==
    ASSUME FSInv, [Next]_vars
    PROVE  FSInv'
<1>1. CASE Restart
  <2>1. InodeShape' /\ MapInv'
    BY <1>1 DEF Restart, FSInv, InodeShape, MapInv
  <2>2. QED
    BY <1>1, <2>1, SameDirects DEF Restart
<1>2. ASSUME NEW n \in Inumbers, CopyOut(n) \/ \E f \in Files : CopyIn(n, f)
      PROVE  FSInv'
  <2>1. UNCHANGED <<inode, IS_MOUNTED, BLOCK_MAP>> /\ IS_MOUNTED
    BY <1>2 DEF CopyIn, CopyOut
  <2>2. InodeShape' /\ MapInv'
    BY <2>1 DEF FSInv, InodeShape, MapInv
  <2>3. QED
    BY <2>1, <2>2, SameDirects
<1>3. CASE Chunk \/ WriteDirect \/ KeepTable \/ AllocPointer \/ WriteIndirect \/ DiskFull \/ ReadChunk
  <2>1. UNCHANGED <<inode, IS_MOUNTED>> /\ pc # "idle" /\ BLOCK_MAP \subseteq BLOCK_MAP'
    BY <1>3 DEF Chunk, WriteDirect, KeepTable, AllocPointer, WriteIndirect, DiskFull, ReadChunk,
                Allocate
  <2>2. QED
    BY <2>1, CommandFS
<1>4. CASE AllocTable
  BY <1>4, CommandFS DEF AllocTable, Allocate
<1>5. CASE UpdateSize \/ SetSize
  BY <1>5, CommandFS DEF UpdateSize, SetSize
<1>6. CASE UNCHANGED vars
  <2>1. InodeShape' /\ MapInv'
    BY <1>6 DEF vars, FSInv, InodeShape, MapInv
  <2>2. QED
    BY <1>6, <2>1, SameDirects DEF vars
<1>7. QED
  BY <1>1, <1>2, <1>3, <1>4, <1>5, <1>6, FormatFS, MountFS, CreateFS, DeleteFS, AllocFS
  DEF Next, Write

\* The inductive invariant: only what is not marked is handed out, and the map
\* that fs_mount() rebuilds after a crash has every direct block again.
THEOREM FSInvariant == Spec => []FSInv
<1>1. Init => FSInv
  BY InitFS
<1>2. FSInv /\ [Next]_vars => FSInv'
  BY StepFS
<1>3. QED
  BY <1>1, <1>2, PTL DEF Spec, SafeSpec

\* No block is a direct block of two files, twice of one, or an inode block.
THEOREM DirectBlocksNotShared == Spec => []DirectBlocksApart
<1>1. FSInv => DirectBlocksApart
  BY DEF FSInv
<1>2. QED
  BY <1>1, FSInvariant, PTL

\* A direct block is never marked free.
THEOREM DirectBlocksStayMarked == Spec => []DirectBlocksMarked
<1>1. FSInv => DirectBlocksMarked
  BY DEF FSInv
<1>2. QED
  BY <1>1, FSInvariant, PTL

-----------------------------------------------------------------------------
(* Arithmetic of blocks *)

\* Multiplication by a natural number is monotone.
LEMMA Monotone ==
    ASSUME NEW q \in Nat, NEW s \in Nat, NEW t \in Nat, s <= t
    PROVE  s * q <= t * q
<1>1. t * q = s * q + (t - s) * q
  OBVIOUS
<1>2. (t - s) * q >= 0
  OBVIOUS
<1>3. QED
  BY <1>1, <1>2

\* The smaller of two numbers
LEMMA MinOfTwo ==
    ASSUME NEW a \in Int, NEW b \in Int
    PROVE  Min({a, b}) = IF a <= b THEN a ELSE b
<1> DEFINE m == IF a <= b THEN a ELSE b
<1>1. m \in {a, b} /\ \A y \in {a, b} : m <= y
  OBVIOUS
<1>2. \A x \in {a, b} : (\A y \in {a, b} : x <= y) => x = m
  OBVIOUS
<1>3. QED
  BY <1>1, <1>2 DEF Min

\* A size in blocks
LEMMA BlocksOfSize ==
    ASSUME NEW s \in Nat
    PROVE  /\ BlocksOf(s) \in Nat
           /\ s <= BlocksOf(s) * B
           /\ BlocksOf(s) * B < s + B
<1>1. B \in Nat \ {0} /\ s + B - 1 \in Nat
  BY SimpleFSAssumption
<1>2. /\ BlocksOf(s) \in Nat
      /\ B * BlocksOf(s) <= s + B - 1
      /\ s + B - 1 < B * BlocksOf(s) + B
  BY <1>1 DEF BlocksOf
<1>3. QED
  BY <1>1, <1>2

\* What fits into a number of blocks
LEMMA BlocksOfFit ==
    ASSUME NEW s \in Nat, NEW j \in Nat
    PROVE  s <= j * B <=> BlocksOf(s) <= j
<1> DEFINE c == BlocksOf(s)
<1>1. B \in Nat \ {0} /\ c \in Nat /\ s <= c * B /\ c * B < s + B
  BY SimpleFSAssumption, BlocksOfSize
<1> HIDE DEF c
<1>2. ASSUME c <= j
      PROVE  s <= j * B
  <2>1. c * B <= j * B
    BY <1>1, <1>2, Monotone
  <2>2. QED
    BY <1>1, <2>1
<1>3. ASSUME j < c
      PROVE  j * B < s
  <2>1. (j + 1) * B <= c * B
    BY <1>1, <1>3, Monotone
  <2>2. (j + 1) * B = j * B + B
    BY <1>1
  <2>3. QED
    BY <1>1, <2>1, <2>2
<1>4. j * B \in Nat
  BY <1>1
<1>5. QED
  BY <1>1, <1>2, <1>3, <1>4 DEF c

\* The block and the cell in it where the k-th cell of a file is
LEMMA CellOfFile ==
    ASSUME NEW k \in Nat
    PROVE  /\ k \div B \in Nat
           /\ k % B \in Cells
           /\ k = (k \div B) * B + (k % B)
<1>1. B \in Nat \ {0}
  BY SimpleFSAssumption
<1>2. k \div B \in Nat /\ k % B \in 0 .. B - 1 /\ k = B * (k \div B) + (k % B)
  BY <1>1
<1>3. QED
  BY <1>1, <1>2 DEF Cells

\* ... and back
LEMMA CellOfBlock ==
    ASSUME NEW j \in Nat, NEW c \in Cells, NEW k \in Nat, k = j * B + c
    PROVE  k \div B = j /\ k % B = c
<1>1. B \in Nat \ {0} /\ c \in 0 .. B - 1
  BY SimpleFSAssumption DEF Cells
<1> DEFINE d == k \div B
           r == k % B
<1>2. d \in Nat /\ r \in 0 .. B - 1 /\ k = d * B + r
  BY CellOfFile DEF Cells
<1> HIDE DEF d, r
<1>3. ASSUME NEW x \in Nat, NEW y \in Nat, NEW u \in 0 .. B - 1, NEW v \in 0 .. B - 1, x < y
      PROVE  x * B + u < y * B + v
  <2>1. (x + 1) * B <= y * B
    BY <1>1, <1>3, Monotone
  <2>2. (x + 1) * B = x * B + B /\ x * B \in Nat /\ y * B \in Nat
    BY <1>1
  <2>3. QED
    BY <1>1, <2>1, <2>2
<1>4. ~(d < j) /\ ~(j < d)
  BY <1>1, <1>2, <1>3
<1>5. d = j
  BY <1>2, <1>4
<1>6. r = c
  <2>1. j * B \in Nat
    BY <1>1
  <2>2. QED
    BY <1>1, <1>2, <1>5, <2>1
<1>7. QED
  BY <1>5, <1>6 DEF d, r

\* A set of natural numbers has a least one.
LEMMA MinInSet ==
    ASSUME NEW S \in SUBSET Nat, S # {}
    PROVE  Min(S) \in S /\ \A x \in S : Min(S) <= x
<1>1. PICK x \in S : \A y \in S : ~ (<<y, x>> \in OpToRel(<, Nat))
  BY NatLessThanWellFounded, WFMin
<1>2. ASSUME NEW y \in S
      PROVE  x <= y
  <2>1. y < x => <<y, x>> \in OpToRel(<, Nat)
    BY DEF OpToRel
  <2>2. ~(y < x)
    BY <1>1, <2>1, Zenon
  <2>3. QED
    BY <2>2
<1>3. QED
  BY <1>2 DEF Min
-----------------------------------------------------------------------------
(* Where the pointers lead *)

Writing ==
    pc \in {"direct", "directData", "table", "indirect", "indirectData", "updateSize", "setSize"}

\* The blocks of its inode fs_write() has been at or will give a size to
Reached ==
    CASE pc = "direct"       -> w.i
      [] pc = "directData"   -> w.i + 1
      [] pc = "table"        -> P
      [] pc = "indirect"     -> P + w.i
      [] pc = "indirectData" -> P + w.i + 1
      [] pc \in {"updateSize", "setSize"} -> BlocksOf(w.offset + w.written)
      [] OTHER               -> 0

\* The number of an inode's blocks that are in use, or will be when fs_write()
\* returns.
Count(n) ==
    IF n = w.inumber /\ Reached > BlocksOf(inode[n].size)
      THEN Reached ELSE BlocksOf(inode[n].size)

\* An inode's places in use: its blocks, by number, and its indirect block.
IndirectPlace == -1

Places(n) ==
    (0 .. Count(n) - 1)
        \cup IF Count(n) > P \/ (n = w.inumber /\ pc = "indirect")
               THEN {IndirectPlace} ELSE {}

PlaceBlock(n, k) == IF k = IndirectPlace THEN inode[n].indirect ELSE BlockAt(n, k)

\* No two places have the same block, ...
PlacesApart ==
    \A m, n \in Valid : \A k \in Places(m), l \in Places(n) :
        PlaceBlock(m, k) = PlaceBlock(n, l) => m = n /\ k = l

\* ... which is neither an inode block nor one that is handed out, ...
PlacesLegal ==
    \A n \in Valid : \A k \in Places(n) :
        /\ PlaceBlock(n, k) \in Blocks \ (1 .. NInodeBlocks)
        /\ IS_MOUNTED => PlaceBlock(n, k) \in BLOCK_MAP \cup {0}
        /\ Writing => PlaceBlock(n, k) \in BLOCK_MAP

\* The block that has been handed out and not written to
Pending(n, k) ==
    /\ n = w.inumber
    /\ \/ pc = "directData" /\ k = w.i
       \/ pc = "indirectData" /\ k = P + w.i
       \/ pc = "indirect" /\ w.i = 0 /\ w.ni = 0 /\ k = IndirectPlace

\* Block 0 is nobody's while there is a superblock.
ZeroUnused ==
    super # "overwritten" =>
        \A n \in Valid : \A k \in Places(n) : PlaceBlock(n, k) = 0 => Pending(n, k)

\* How far a file will go when fs_write() returns
End(n) ==
    IF n = w.inumber /\ Writing /\ w.offset + w.written > inode[n].size
      THEN w.offset + w.written ELSE inode[n].size

DataInPlace ==
    \A n \in Valid : \A k \in 0 .. End(n) - 1 :
        disk[BlockAt(n, k \div B)].cells[k % B] = contents[n][k]

-----------------------------------------------------------------------------

MaxSize == 2 * P * B

CellValues == Int \X Int

InodeType ==
    [isvalid : BOOLEAN, size : 0 .. MaxSize, indirect : Blocks,
     direct : [0 .. P - 1 -> Blocks]]

BlockType == [cells : [Cells -> CellValues], ptrs : [0 .. P - 1 -> Blocks \cup {JunkPtr}]]

LocalType ==
    [inumber : Inumbers, file : Nat, offset : Nat, length : Nat, written : Nat,
     position : Nat, i : Nat, nd : Nat, ni : Nat, size : Nat]

FSTypeOK ==
    /\ super \in {"blank", "valid", "overwritten"}
    /\ inode \in [Inumbers -> InodeType]
    /\ disk \in [Blocks -> BlockType]
    /\ IS_MOUNTED \in BOOLEAN
    /\ pc \in {"idle", "chunk", "read", "direct", "directData", "table", "indirect",
               "indirectData", "updateSize", "setSize"}
    /\ w \in LocalType
    /\ contents \in [Inumbers -> [0 .. MaxSize - 1 -> CellValues]]

\* Where fs_write() is in the file
Position ==
    CASE pc \in {"direct", "directData"}           -> w.i * B + w.position
      [] pc \in {"table", "indirect", "indirectData"} -> (P + w.i) * B + w.position
      [] OTHER -> w.offset + w.written

LocalInv ==
    /\ pc # "idle" => IS_MOUNTED
    /\ Writing \/ pc = "chunk" =>
        /\ w.inumber \in Valid
        /\ w.offset <= inode[w.inumber].size
        /\ w.offset <= w.file
    /\ Writing =>
        /\ super # "blank"
        /\ w.size = inode[w.inumber].size
        /\ w.nd = (IF BlocksOf(w.size) <= P THEN BlocksOf(w.size) ELSE P)
        /\ w.ni = BlocksOf(w.size) - w.nd
        /\ w.i < P
        /\ pc # "updateSize" /\ w.position > 0 => w.written = 0
        /\ w.length <= w.file - w.offset
        /\ w.offset + w.written = Position
        /\ w.offset + w.written <= MaxSize
        /\ w.written <= w.length
        /\ pc # "updateSize" => w.written < w.length
    /\ pc = "table" => w.i = 0
    /\ pc = "directData" => w.i >= w.nd /\ w.position = 0
    /\ pc = "indirect" /\ w.position > 0 => w.ni > 0
    /\ pc = "indirectData" => w.i >= w.ni /\ w.position = 0
    /\ pc = "setSize" => w.offset + w.written = MaxSize
    /\ super = "blank" => Valid = {}
-----------------------------------------------------------------------------
(* Places *)

StrongInv == FSTypeOK /\ LocalInv /\ PlacesApart /\ PlacesLegal /\ ZeroUnused /\ DataInPlace

\* What the types say of an inode, ...
LEMMA InodeTypes ==
    ASSUME FSTypeOK, NEW n \in Inumbers
    PROVE  /\ inode[n].isvalid \in BOOLEAN
           /\ inode[n].size \in 0 .. MaxSize
           /\ inode[n].size \in Nat
           /\ inode[n].indirect \in Blocks
           /\ inode[n].direct \in [0 .. P - 1 -> Blocks]
           /\ BlocksOf(inode[n].size) \in Nat
<1>1. inode[n] \in InodeType
  BY DEF FSTypeOK
<1>2. MaxSize \in Nat
  BY SimpleFSAssumption DEF MaxSize
<1>3. inode[n].size \in 0 .. MaxSize /\ inode[n].size \in Nat
  BY <1>1, <1>2 DEF InodeType
<1>4. BlocksOf(inode[n].size) \in Nat
  BY <1>3, BlocksOfSize
<1>5. QED
  BY <1>1, <1>3, <1>4 DEF InodeType

\* ... of a block of the disk ...
LEMMA DiskTypes ==
    ASSUME FSTypeOK, NEW b \in Blocks
    PROVE  /\ disk[b] \in BlockType
           /\ disk[b].cells \in [Cells -> CellValues]
           /\ disk[b].ptrs \in [0 .. P - 1 -> Blocks \cup {JunkPtr}]
  BY DEF FSTypeOK, BlockType

\* ... and of the command's locals
LEMMA LocalTypes ==
    ASSUME FSTypeOK
    PROVE  /\ w.inumber \in Inumbers
           /\ w.file \in Nat /\ w.offset \in Nat /\ w.length \in Nat /\ w.written \in Nat
           /\ w.position \in Nat /\ w.i \in Nat /\ w.nd \in Nat /\ w.ni \in Nat
           /\ w.size \in Nat
           /\ P \in Nat \ {0} /\ B \in Nat \ {0}
           /\ Reached \in Nat
<1>1. w \in LocalType
  BY DEF FSTypeOK
<1>2. P \in Nat \ {0} /\ B \in Nat \ {0}
  BY SimpleFSAssumption
<1>3. BlocksOf(w.offset + w.written) \in Nat
  BY <1>1, BlocksOfSize DEF LocalType
<1>4. Reached \in Nat
  BY <1>1, <1>2, <1>3 DEF Reached, LocalType
<1>5. QED
  BY <1>1, <1>2, <1>4 DEF LocalType

\* Places are numbered from 0; the indirect block is one of them when a pointer
\* in it is.
LEMMA PlaceNumbers ==
    ASSUME FSTypeOK, NEW n \in Inumbers
    PROVE  /\ Count(n) \in Nat
           /\ BlocksOf(inode[n].size) <= Count(n)
           /\ \A k \in Places(n) : k \in 0 .. Count(n) - 1 \/ k = IndirectPlace
           /\ \A k \in Places(n) : k \in Nat \/ k = IndirectPlace
           /\ \A k \in Places(n) : k >= P => IndirectPlace \in Places(n)
           /\ IndirectPlace \in Places(n) <=>
                  Count(n) > P \/ (n = w.inumber /\ pc = "indirect")
           /\ \A k \in Nat : k < Count(n) <=> k \in Places(n)
<1>1. BlocksOf(inode[n].size) \in Nat /\ Reached \in Nat /\ P \in Nat \ {0}
  BY InodeTypes, LocalTypes
<1>2. Count(n) \in Nat /\ BlocksOf(inode[n].size) <= Count(n)
  BY <1>1 DEF Count
<1>3. QED
  BY <1>1, <1>2 DEF Places, IndirectPlace

\* A step that adds no place
FewerPlaces ==
    \A n \in Valid' : \A k \in Places(n)' :
        n \in Valid /\ k \in Places(n) /\ PlaceBlock(n, k)' = PlaceBlock(n, k)

\* It keeps the places apart, ...
LEMMA FewerApart ==
    ASSUME PlacesApart, FewerPlaces
    PROVE  PlacesApart'
  BY DEF PlacesApart, FewerPlaces

\* ... in blocks that are marked, unless a mark goes, ...
LEMMA FewerLegal ==
    ASSUME PlacesLegal, FewerPlaces,
           IS_MOUNTED' => IS_MOUNTED /\ BLOCK_MAP \subseteq BLOCK_MAP' \cup {0},
           Writing' => Writing /\ BLOCK_MAP \subseteq BLOCK_MAP'
    PROVE  PlacesLegal'
<1>1. UNCHANGED <<Blocks, NInodeBlocks>>
  BY DEF Blocks, NInodeBlocks
<1>2. QED
  BY <1>1 DEF PlacesLegal, FewerPlaces

\* ... and off block 0, unless a block no longer waits for its first write.
LEMMA FewerZero ==
    ASSUME ZeroUnused, FewerPlaces,
           super = "overwritten" => super' = "overwritten",
           \A n \in Valid' : \A k \in Places(n)' :
               Pending(n, k) /\ PlaceBlock(n, k) = 0 /\ super' # "overwritten" => Pending(n, k)'
    PROVE  ZeroUnused'
  BY DEF ZeroUnused, FewerPlaces

\* A step that hands out a block for a new place
OnePlaceMore(n0, k0, b) ==
    \A n \in Valid' : \A k \in Places(n)' :
        \/ n = n0 /\ k = k0 /\ PlaceBlock(n, k)' = b
        \/ n \in Valid /\ k \in Places(n) /\ PlaceBlock(n, k)' = PlaceBlock(n, k)

\* No place has a block that was not marked, ...
LEMMA MoreApart ==
    ASSUME PlacesApart, PlacesLegal, Writing, NEW n0, NEW k0, NEW b, b \notin BLOCK_MAP,
           OnePlaceMore(n0, k0, b)
    PROVE  PlacesApart'
<1> SUFFICES ASSUME NEW m \in Valid', NEW n \in Valid', NEW k \in Places(m)', NEW l \in Places(n)',
                    PlaceBlock(m, k)' = PlaceBlock(n, l)'
             PROVE  m = n /\ k = l
  BY DEF PlacesApart
<1>1. \A p \in Valid : \A q \in Places(p) : PlaceBlock(p, q) # b
  BY DEF PlacesLegal
<1>2. /\ (m = n0 /\ k = k0 /\ PlaceBlock(m, k)' = b)
           \/ (m \in Valid /\ k \in Places(m) /\ PlaceBlock(m, k)' = PlaceBlock(m, k))
      /\ (n = n0 /\ l = k0 /\ PlaceBlock(n, l)' = b)
           \/ (n \in Valid /\ l \in Places(n) /\ PlaceBlock(n, l)' = PlaceBlock(n, l))
  BY DEF OnePlaceMore
<1>3. QED
  BY <1>1, <1>2 DEF PlacesApart

\* ... the new one is marked now, ...
LEMMA MoreLegal ==
    ASSUME PlacesLegal, IS_MOUNTED, 1 .. NInodeBlocks \subseteq BLOCK_MAP, Writing,
           NEW n0, NEW k0, NEW b \in Blocks \ BLOCK_MAP, BLOCK_MAP' = BLOCK_MAP \cup {b},
           OnePlaceMore(n0, k0, b)
    PROVE  PlacesLegal'
<1>1. UNCHANGED <<Blocks, NInodeBlocks>>
  BY DEF Blocks, NInodeBlocks
<1>2. QED
  BY <1>1 DEF PlacesLegal, OnePlaceMore

\* ... and waits for its first write.
LEMMA MoreZero ==
    ASSUME ZeroUnused, NEW n0, NEW k0, NEW b, OnePlaceMore(n0, k0, b), Pending(n0, k0)',
           super = "overwritten" => super' = "overwritten",
           \A n \in Valid : \A k \in Places(n) :
               Pending(n, k) /\ PlaceBlock(n, k) = 0 => super' = "overwritten"
    PROVE  ZeroUnused'
  BY DEF ZeroUnused, OnePlaceMore

\* The places of an inode do not become more when the number of its blocks
\* does not.
LEMMA SubPlaces ==
    ASSUME FSTypeOK, NEW n \in Inumbers, Count(n)' \in Nat, Count(n)' <= Count(n),
           n = w'.inumber /\ pc' = "indirect" => IndirectPlace \in Places(n)
    PROVE  Places(n)' \subseteq Places(n)
<1>1. Count(n) \in Nat /\ P \in Nat
  BY PlaceNumbers, LocalTypes
<1>2. QED
  BY <1>1 DEF Places, IndirectPlace
-----------------------------------------------------------------------------
(* What the two data loops do *)

\* The place and the block a data loop is at
Current == IF pc \in {"direct", "directData"} THEN w.i ELSE P + w.i

CurrentBlock == PlaceBlock(w.inumber, Current)

\* The loop goes on, or is left after its last pointer.
Moves ==
    /\ w'.i = (IF w.i + 1 = P THEN 0 ELSE w.i + 1)
    /\ pc' = IF pc \in {"direct", "directData"}
               THEN IF w.i + 1 = P THEN "table" ELSE "direct"
               ELSE IF w.i + 1 = P THEN "setSize" ELSE "indirect"

\* A block before the position is passed.
Passes ==
    /\ w.position > B
    /\ w'.position = w.position - B
    /\ w'.written = w.written
    /\ Moves
    /\ UNCHANGED <<super, disk, contents>>

\* The next n cells of the file are written to block b.
Writes(b, n) ==
    LET from == w.offset + w.written
    IN  /\ w.position <= B
        /\ n <= B - w.position
        /\ n <= w.length - w.written
        /\ disk' = [disk EXCEPT
              ![b].cells = [c \in Cells |->
                 IF c \in w.position .. w.position + n - 1
                   THEN <<w.file, from + c - w.position>> ELSE @[c]],
              ![b].ptrs = IF n = 0 THEN @ ELSE JunkPtrs]
        /\ super' = (IF b = 0 /\ w.position = 0 THEN "overwritten" ELSE super)
        /\ contents' = [contents EXCEPT ![w.inumber] =
              [k \in DOMAIN @ |-> IF k \in from .. from + n - 1 THEN <<w.file, k>> ELSE @[k]]]
        /\ w'.written = w.written + n
        /\ \/ n = w.length - w.written /\ pc' = "updateSize" /\ w'.i = w.i
           \/ n = B - w.position /\ n < w.length - w.written /\ w'.position = 0 /\ Moves

\* What a round of a data loop does, and when
LEMMA WriteRound ==
    ASSUME FSTypeOK, LocalInv, WriteDirect \/ WriteIndirect
    PROVE  /\ pc \in {"direct", "directData", "indirect", "indirectData"}
           /\ pc = "direct" => w.i + 1 <= w.nd
           /\ pc = "indirect" => w.i + 1 <= w.ni
           /\ Passes \/ \E n \in Nat : Writes(CurrentBlock, n)
           /\ w' \in LocalType
           /\ w'.inumber = w.inumber /\ w'.file = w.file /\ w'.offset = w.offset
           /\ w'.length = w.length /\ w'.nd = w.nd /\ w'.ni = w.ni /\ w'.size = w.size
           /\ UNCHANGED <<inode, IS_MOUNTED, BLOCK_MAP>>
<1>1. w \in LocalType /\ P \in Nat \ {0} /\ B \in Nat \ {0}
  BY LocalTypes DEF FSTypeOK
<1>2. /\ pc \in {"direct", "directData", "indirect", "indirectData"}
      /\ pc = "direct" => w.i + 1 <= w.nd
      /\ pc = "indirect" => w.i + 1 <= w.ni
      /\ UNCHANGED <<inode, IS_MOUNTED, BLOCK_MAP>>
  BY DEF WriteDirect, WriteIndirect
<1> DEFINE n == Min({B - w.position, w.length - w.written})
           last == w.i + 1 = P
           next == IF last THEN 0 ELSE w.i + 1
<1>3. n = IF B - w.position <= w.length - w.written THEN B - w.position
                                                   ELSE w.length - w.written
  BY <1>1, MinOfTwo DEF LocalType
<1>4. w.written <= w.length
  BY <1>2 DEF LocalInv, Writing
<1>5. w.position <= B => n \in Nat
  BY <1>1, <1>3, <1>4 DEF LocalType
<1>6. CurrentBlock = IF pc \in {"direct", "directData"} THEN BlockAt(w.inumber, w.i)
                                                       ELSE BlockAt(w.inumber, P + w.i)
  BY <1>1 DEF CurrentBlock, Current, PlaceBlock, IndirectPlace, LocalType
<1>7. PICK more, rest :
        /\ WriteBlock(CurrentBlock, more, rest)
        /\ pc \in {"direct", "directData"} => more = "direct" /\ rest = "table"
        /\ pc \notin {"direct", "directData"} => more = "indirect" /\ rest = "setSize"
  BY <1>6 DEF WriteDirect, WriteIndirect
<1>8. /\ w.inumber \in Inumbers
      /\ w.offset \in Nat /\ w.length \in Nat /\ w.written \in Nat
      /\ w.position \in Nat /\ w.i \in Nat
  BY LocalTypes
<1> DEFINE Pass ==
             /\ w.position > B
             /\ w' = [w EXCEPT !.position = w.position - B, !.i = next]
             /\ pc' = IF last THEN rest ELSE more
             /\ UNCHANGED <<super, disk, contents>>
           Put ==
             /\ w.position <= B
             /\ disk' = [disk EXCEPT
                     ![CurrentBlock].cells = [c \in Cells |->
                        IF c \in w.position .. w.position + n - 1
                          THEN <<w.file, w.offset + w.written + c - w.position>> ELSE @[c]],
                     ![CurrentBlock].ptrs = IF n = 0 THEN @ ELSE JunkPtrs]
             /\ super' = (IF CurrentBlock = 0 /\ w.position = 0 THEN "overwritten" ELSE super)
             /\ contents' = [contents EXCEPT ![w.inumber] =
                     [k \in DOMAIN @ |->
                        IF k \in w.offset + w.written .. w.offset + w.written + n - 1
                          THEN <<w.file, k>> ELSE @[k]]]
             /\ IF w.written + n = w.length
                    THEN /\ pc' = "updateSize"
                         /\ w' = [w EXCEPT !.written = w.written + n]
                    ELSE /\ pc' = IF last THEN rest ELSE more
                         /\ w' = [w EXCEPT !.written = w.written + n, !.position = 0, !.i = next]
<1>9. Pass \/ Put
  BY <1>7 DEF WriteBlock
<1>10. next \in Nat
  BY <1>1, <1>8
<1> HIDE DEF n
<1>11. CASE Pass
  <2>1. w.position - B \in Nat
    BY <1>1, <1>8, <1>11
  <2>2. /\ w' \in LocalType
        /\ w'.position = w.position - B /\ w'.i = next /\ w'.written = w.written
        /\ w'.inumber = w.inumber /\ w'.file = w.file /\ w'.offset = w.offset
        /\ w'.length = w.length /\ w'.nd = w.nd /\ w'.ni = w.ni /\ w'.size = w.size
    BY <1>1, <1>11, <1>10, <2>1 DEF LocalType
  <2>3. Passes
    <3>1. /\ w.position > B
          /\ pc' = (IF last THEN rest ELSE more)
          /\ UNCHANGED <<super, disk, contents>>
      BY <1>11
    <3>2. Moves
      BY <1>2, <1>7, <2>2, <3>1 DEF Moves
    <3>3. QED
      BY <2>2, <3>1, <3>2 DEF Passes
  <2>4. QED
    BY <1>2, <2>2, <2>3
<1>12. CASE Put
  <2>1. w.written + n \in Nat
    BY <1>1, <1>5, <1>12, <1>8
  <2>2. /\ w' \in LocalType
        /\ w'.written = w.written + n
        /\ w'.inumber = w.inumber /\ w'.file = w.file /\ w'.offset = w.offset
        /\ w'.length = w.length /\ w'.nd = w.nd /\ w'.ni = w.ni /\ w'.size = w.size
        /\ IF w.written + n = w.length
             THEN pc' = "updateSize" /\ w'.i = w.i
             ELSE pc' = (IF last THEN rest ELSE more) /\ w'.position = 0 /\ w'.i = next
    <3>1. CASE w.written + n = w.length
      <4>1. w' = [w EXCEPT !.written = w.written + n] /\ pc' = "updateSize"
        BY <1>12, <3>1
      <4>2. QED
        BY <1>1, <2>1, <3>1, <4>1 DEF LocalType
    <3>2. CASE w.written + n # w.length
      <4>1. /\ w' = [w EXCEPT !.written = w.written + n, !.position = 0, !.i = next]
            /\ pc' = IF last THEN rest ELSE more
        BY <1>12, <3>2
      <4> HIDE DEF next, last
      <4>2. QED
        BY <1>1, <1>10, <2>1, <3>2, <4>1 DEF LocalType
    <3>3. QED
      BY <3>1, <3>2
  <2>3. n <= B - w.position /\ n <= w.length - w.written
    BY <1>1, <1>3, <1>8
  <2>4. \/ n = w.length - w.written /\ pc' = "updateSize" /\ w'.i = w.i
        \/ n = B - w.position /\ n < w.length - w.written /\ w'.position = 0 /\ Moves
    <3>1. CASE w.written + n = w.length
      BY <1>1, <1>3, <1>8, <2>2, <3>1
    <3>2. CASE w.written + n # w.length
      <4>1. n = B - w.position /\ n < w.length - w.written
        BY <1>1, <1>3, <1>8, <3>2
      <4>2. Moves
        BY <1>2, <1>7, <2>2, <3>2 DEF Moves
      <4>3. QED
        BY <2>2, <3>2, <4>1, <4>2
    <3>3. QED
      BY <3>1, <3>2
  <2>5. Writes(CurrentBlock, n)
    BY <1>12, <2>2, <2>3, <2>4 DEF Writes
  <2>6. QED
    BY <1>2, <1>5, <1>12, <2>2, <2>5
<1>13. QED
  <2> HIDE DEF Pass, Put
  <2>1. QED
    BY <1>9, <1>11, <1>12
-----------------------------------------------------------------------------
(* Types and locals *)

\* What is known of the sizes of the file that is written
LEMMA WritingFacts ==
    ASSUME FSTypeOK, LocalInv, Writing
    PROVE  LET size == inode[w.inumber].size
               blocks == BlocksOf(size)
           IN  /\ w.inumber \in Inumbers /\ w.inumber \in Valid
               /\ size \in Nat /\ size <= MaxSize /\ MaxSize = (P + P) * B
               /\ blocks \in Nat
               /\ size <= blocks * B
               /\ blocks <= P + P
               /\ w.size = size
               /\ w.nd = (IF blocks <= P THEN blocks ELSE P)
               /\ w.ni = (IF blocks <= P THEN 0 ELSE blocks - P)
<1>1. w.inumber \in Inumbers /\ w.inumber \in Valid /\ P \in Nat \ {0} /\ B \in Nat \ {0}
  BY LocalTypes DEF LocalInv
<1> DEFINE size == inode[w.inumber].size
           blocks == BlocksOf(size)
<1>2. size \in Nat /\ size \in 0 .. MaxSize /\ blocks \in Nat /\ size <= blocks * B
  BY <1>1, InodeTypes, BlocksOfSize
<1>3. MaxSize = (P + P) * B
  BY <1>1 DEF MaxSize
<1>4. blocks <= P + P
  BY <1>1, <1>2, <1>3, BlocksOfFit
<1>5. /\ w.size = size
      /\ w.nd = (IF blocks <= P THEN blocks ELSE P)
      /\ w.ni = blocks - w.nd
  BY DEF LocalInv
<1> HIDE DEF blocks, size
<1>6. w.ni = (IF blocks <= P THEN 0 ELSE blocks - P)
  BY <1>1, <1>2, <1>5
<1>7. QED
  BY <1>1, <1>2, <1>3, <1>4, <1>5, <1>6 DEF blocks, size

\* Where a loop is in the file
LEMMA CurrentPosition ==
    ASSUME FSTypeOK, LocalInv, pc \in {"direct", "directData", "table", "indirect", "indirectData"}
    PROVE  /\ Current \in Nat /\ Current < P + P
           /\ w.offset + w.written = Current * B + w.position
           /\ pc = "table" => Current = P
<1>1. Writing /\ w.i < P /\ (pc = "table" => w.i = 0)
  BY DEF LocalInv, Writing
<1>2. w.i \in Nat /\ P \in Nat
  BY LocalTypes
<1>3. w.offset + w.written = Position
  BY <1>1 DEF LocalInv
<1>4. QED
  BY <1>1, <1>2, <1>3 DEF Position, Current

\* Behind the end of the file the loops only write whole blocks.
LEMMA PositionBehindEnd ==
    ASSUME FSTypeOK, LocalInv, pc \in {"direct", "directData", "table", "indirect", "indirectData"},
           BlocksOf(inode[w.inumber].size) <= Current
    PROVE  w.position = 0
<1> DEFINE size == inode[w.inumber].size
           blocks == BlocksOf(size)
<1>1. Writing
  BY DEF Writing
<1>2. size \in Nat /\ blocks \in Nat /\ size <= blocks * B
  BY <1>1, WritingFacts
<1>3. /\ Current \in Nat
      /\ w.offset + w.written = Current * B + w.position
  BY CurrentPosition
<1>4. w.offset \in Nat /\ w.written \in Nat /\ w.position \in Nat /\ B \in Nat
  BY LocalTypes
<1>5. w.offset <= size /\ (w.position > 0 => w.written = 0)
  BY <1>1 DEF LocalInv
<1> HIDE DEF blocks, size
<1>6. blocks * B <= Current * B
  BY <1>2, <1>3, <1>4, Monotone DEF blocks, size
<1>7. Current * B \in Nat /\ blocks * B \in Nat
  BY <1>2, <1>3, <1>4
<1>8. QED
  BY <1>2, <1>3, <1>4, <1>5, <1>6, <1>7

\* The block of a data loop is one of the file's.
LEMMA CurrentIsPlace ==
    ASSUME StrongInv, WriteDirect \/ WriteIndirect
    PROVE  /\ Current \in Places(w.inumber)
           /\ Current < Count(w.inumber)
           /\ CurrentBlock \in Blocks \ (1 .. NInodeBlocks)
           /\ CurrentBlock \in BLOCK_MAP
           /\ Writing
<1>1. FSTypeOK /\ LocalInv
  BY DEF StrongInv
<1>2. /\ pc \in {"direct", "directData", "indirect", "indirectData"}
      /\ pc = "direct" => w.i + 1 <= w.nd
      /\ pc = "indirect" => w.i + 1 <= w.ni
  BY <1>1, WriteRound
<1>3. Writing
  BY <1>2 DEF Writing
<1> DEFINE blocks == BlocksOf(inode[w.inumber].size)
<1>4. /\ w.inumber \in Inumbers /\ w.inumber \in Valid
      /\ blocks \in Nat
      /\ w.nd = (IF blocks <= P THEN blocks ELSE P)
      /\ w.ni = (IF blocks <= P THEN 0 ELSE blocks - P)
  BY <1>1, <1>3, WritingFacts
<1>5. w.i \in Nat /\ P \in Nat
  BY <1>1, LocalTypes
<1>6. Current < Count(w.inumber)
  BY <1>2, <1>4, <1>5 DEF Count, Reached, Current
<1>7. Current \in Nat
  BY <1>5 DEF Current
<1>8. Current \in Places(w.inumber)
  BY <1>1, <1>4, <1>6, <1>7, PlaceNumbers
<1>9. QED
  BY <1>3, <1>4, <1>6, <1>8 DEF StrongInv, PlacesLegal, CurrentBlock

\* An empty inode, an unused block, and no command
LEMMA EmptyTypes ==
    /\ EmptyInode \in InodeType
    /\ [EmptyInode EXCEPT !.isvalid = TRUE] \in InodeType
    /\ EmptyInode.isvalid = FALSE
    /\ EmptyInode.size = 0
    /\ JunkCells \in [Cells -> CellValues]
    /\ JunkPtrs \in [0 .. P - 1 -> Blocks \cup {JunkPtr}]
    /\ NoFile \in [0 .. MaxSize - 1 -> CellValues]
    /\ NoLocals \in LocalType
    /\ 0 \in Blocks
<1>1. P \in Nat \ {0} /\ B \in Nat \ {0} /\ NBlocks \in Nat \ {0}
  BY SimpleFSAssumption
<1>2. MaxSize \in Nat /\ 0 \in 0 .. MaxSize /\ 0 \in Blocks
  BY <1>1 DEF MaxSize, Blocks
<1>3. EmptyInode \in InodeType /\ [EmptyInode EXCEPT !.isvalid = TRUE] \in InodeType
  BY <1>2 DEF EmptyInode, InodeType
<1>4. Junk \in CellValues
  BY DEF Junk, CellValues
<1>5. 0 \in Inumbers
  <2>1. NInodeBlocks \in Nat \ {0}
    BY <1>1 DEF NInodeBlocks
  <2>2. INODES_PER_BLOCK \in Nat \ {0}
    BY SimpleFSAssumption
  <2>3. INODES_PER_BLOCK * NInodeBlocks \in Nat
    BY <2>1, <2>2
  <2>4. 1 * NInodeBlocks <= INODES_PER_BLOCK * NInodeBlocks
    BY <2>1, <2>2, Monotone
  <2>5. QED
    BY <2>1, <2>3, <2>4 DEF Inumbers
<1>6. NoLocals \in LocalType
  BY <1>5 DEF NoLocals, LocalType
<1>7. QED
  BY <1>2, <1>3, <1>4, <1>6 DEF EmptyInode, JunkCells, JunkPtrs, NoFile, MaxSize
\* A round of a data loop keeps the types, ...
LEMMA WriteTypes ==
    ASSUME StrongInv, WriteDirect \/ WriteIndirect
    PROVE  FSTypeOK'
<1>1. FSTypeOK /\ LocalInv
  BY DEF StrongInv
<1>2. /\ CurrentBlock \in Blocks
      /\ w' \in LocalType
      /\ UNCHANGED <<inode, IS_MOUNTED>>
      /\ Passes \/ \E n \in Nat : Writes(CurrentBlock, n)
  BY <1>1, CurrentIsPlace, WriteRound
<1>3. CASE Passes
  BY <1>1, <1>2, <1>3 DEF Passes, Moves, FSTypeOK
<1>4. ASSUME NEW n \in Nat, Writes(CurrentBlock, n)
      PROVE  FSTypeOK'
  <2> DEFINE b == CurrentBlock
             from == w.offset + w.written
             cells == [c \in Cells |-> IF c \in w.position .. w.position + n - 1
                                         THEN <<w.file, from + c - w.position>>
                                         ELSE disk[b].cells[c]]
             ptrs == IF n = 0 THEN disk[b].ptrs ELSE JunkPtrs
             file == [k \in DOMAIN contents[w.inumber] |->
                         IF k \in from .. from + n - 1 THEN <<w.file, k>>
                         ELSE contents[w.inumber][k]]
  <2>1. /\ w.position \in Nat /\ from \in Nat /\ w.file \in Nat
        /\ w.inumber \in Inumbers /\ b \in Blocks
    BY <1>1, <1>2, LocalTypes
  <2>2. cells \in [Cells -> CellValues]
    <3>1. ASSUME NEW c \in Cells
          PROVE  cells[c] \in CellValues
      <4>1. c \in Int /\ disk[b].cells[c] \in CellValues
        BY <1>1, <2>1, DiskTypes, SimpleFSAssumption DEF Cells
      <4>2. w.file \in Int /\ from + c - w.position \in Int
        BY <2>1, <4>1
      <4>3. <<w.file, from + c - w.position>> \in CellValues
        BY <4>2 DEF CellValues
      <4>4. QED
        BY <4>1, <4>3
    <3>2. QED
      BY <3>1
  <2>3. ptrs \in [0 .. P - 1 -> Blocks \cup {JunkPtr}]
    BY <1>1, <2>1, DiskTypes, EmptyTypes
  <2>4. contents[w.inumber] \in [0 .. MaxSize - 1 -> CellValues]
    BY <1>1, <2>1 DEF FSTypeOK
  <2>5. file \in [0 .. MaxSize - 1 -> CellValues]
    <3>1. ASSUME NEW k \in 0 .. MaxSize - 1
          PROVE  file[k] \in CellValues
      <4>1. <<w.file, k>> \in CellValues
        BY <2>1 DEF CellValues
      <4>2. QED
        BY <2>4, <4>1
    <3>2. DOMAIN contents[w.inumber] = 0 .. MaxSize - 1
      BY <2>4
    <3>3. QED
      BY <3>1, <3>2
  <2>6. /\ disk' = [disk EXCEPT ![b].cells = cells, ![b].ptrs = ptrs]
        /\ contents' = [contents EXCEPT ![w.inumber] = file]
    BY <1>4 DEF Writes
  <2> HIDE DEF cells, ptrs, file, b
  <2>7. disk' \in [Blocks -> BlockType]
    BY <1>1, <2>1, <2>2, <2>3, <2>6 DEF FSTypeOK, BlockType
  <2>8. contents' \in [Inumbers -> [0 .. MaxSize - 1 -> CellValues]]
    BY <1>1, <2>1, <2>5, <2>6 DEF FSTypeOK
  <2>9. /\ super' \in {"blank", "valid", "overwritten"}
        /\ pc' \in {"idle", "chunk", "read", "direct", "directData", "table", "indirect",
                    "indirectData", "updateSize", "setSize"}
    BY <1>1, <1>4 DEF Writes, Moves, FSTypeOK
  <2>10. QED
    BY <1>1, <1>2, <2>7, <2>8, <2>9 DEF FSTypeOK, InodeType, BlockType, LocalType, CellValues,
       MaxSize, Inumbers, Blocks, Cells, NInodeBlocks
<1>5. QED
  BY <1>2, <1>3, <1>4

\* ... and the place in the file.
LEMMA WriteLocal ==
    ASSUME StrongInv, WriteDirect \/ WriteIndirect
    PROVE  LocalInv'
<1>1. FSTypeOK /\ LocalInv /\ Writing
  BY CurrentIsPlace DEF StrongInv
<1>2. /\ pc \in {"direct", "directData", "indirect", "indirectData"}
      /\ Passes \/ \E n \in Nat : Writes(CurrentBlock, n)
      /\ w'.inumber = w.inumber /\ w'.file = w.file /\ w'.offset = w.offset
      /\ w'.length = w.length /\ w'.nd = w.nd /\ w'.ni = w.ni /\ w'.size = w.size
      /\ UNCHANGED <<inode, IS_MOUNTED, BLOCK_MAP>>
  BY <1>1, WriteRound
<1>3. /\ w.offset \in Nat /\ w.written \in Nat /\ w.position \in Nat /\ w.i \in Nat
      /\ w.length \in Nat /\ w.file \in Nat
      /\ P \in Nat \ {0} /\ B \in Nat \ {0}
  BY <1>1, LocalTypes
<1>4. /\ Current \in Nat /\ Current < P + P
      /\ w.offset + w.written = Current * B + w.position
      /\ w.i < P
      /\ w.offset + w.written <= MaxSize
      /\ w.written < w.length
      /\ w.position > 0 => w.written = 0
      /\ pc = "indirect" /\ w.position > 0 => w.ni > 0
      /\ pc \in {"directData", "indirectData"} => w.position = 0
      /\ super # "blank"
      /\ MaxSize = (P + P) * B
  BY <1>1, <1>2, CurrentPosition, WritingFacts DEF LocalInv
<1>5. (Current + 1) * B = Current * B + B /\ (Current + 1) * B <= (P + P) * B
  BY <1>3, <1>4, Monotone
<1>6. /\ Valid' = Valid
      /\ super' # "blank"
  BY <1>1, <1>2, <1>4 DEF Valid, Passes, Writes
<1>7. ASSUME Moves
      PROVE  /\ pc' \in {"direct", "table", "indirect", "setSize"}
             /\ pc' = "table" => w'.i = 0
             /\ w'.i \in Nat /\ w'.i < P
             /\ pc' = "direct" => w'.i = Current + 1
             /\ pc' \in {"table", "indirect"} => P + w'.i = Current + 1
             /\ pc' = "setSize" => Current + 1 = P + P
             /\ pc' = "indirect" => pc \in {"indirect", "indirectData"}
  BY <1>2, <1>3, <1>4, <1>7 DEF Moves, Current
<1>8. /\ Writing'
      /\ w'.offset + w'.written = Position'
      /\ w'.offset + w'.written <= MaxSize
      /\ w'.i < P
      /\ pc' = "table" => w'.i = 0
      /\ pc' \notin {"directData", "indirectData"}
      /\ pc' = "setSize" => w'.offset + w'.written = MaxSize
      /\ w'.written <= w'.length
      /\ pc' # "updateSize" => w'.written < w'.length
      /\ pc' # "updateSize" /\ w'.position > 0 => w'.written = 0
      /\ pc' = "indirect" /\ w'.position > 0 => w'.ni > 0
  <2>1. CASE Passes
    <3>1. /\ w.position > B /\ w'.position = w.position - B /\ w'.written = w.written /\ Moves
      BY <2>1 DEF Passes
    <3>2. pc' # "setSize"
      BY <1>3, <1>4, <1>5, <1>7, <3>1
    <3>3. w'.offset + w'.written = Position'
      BY <1>2, <1>3, <1>4, <1>5, <1>7, <3>1, <3>2 DEF Position
    <3>4. QED
      BY <1>2, <1>3, <1>4, <1>7, <3>1, <3>2, <3>3 DEF Writing
  <2>2. ASSUME NEW n \in Nat, Writes(CurrentBlock, n), pc' = "updateSize"
        PROVE  /\ Writing'
               /\ w'.offset + w'.written = Position'
               /\ w'.offset + w'.written <= MaxSize
               /\ w'.i < P
               /\ w'.written <= w'.length
    <3>1. Writing' /\ w'.i < P /\ w'.written <= w'.length
      BY <1>2, <1>3, <1>4, <1>5, <2>2 DEF Writes, Writing, Moves
    <3>2. w'.offset + w'.written = Position' /\ w'.offset + w'.written <= MaxSize
      BY <1>2, <1>3, <1>4, <1>5, <2>2 DEF Writes, Writing, Position, Moves
    <3>3. QED
      BY <3>1, <3>2
  <2>3. ASSUME NEW n \in Nat, Writes(CurrentBlock, n), pc' # "updateSize"
        PROVE  /\ Writing'
               /\ w'.offset + w'.written = Position'
               /\ w'.offset + w'.written <= MaxSize
               /\ w'.i < P
               /\ pc' = "table" => w'.i = 0
               /\ pc' \notin {"directData", "indirectData"}
               /\ pc' = "setSize" => w'.offset + w'.written = MaxSize
               /\ w'.written < w'.length
               /\ w'.written <= w'.length
               /\ w'.position = 0
    <3>1. /\ n = B - w.position /\ n < w.length - w.written
          /\ w'.position = 0 /\ Moves /\ w'.written = w.written + n
      BY <2>3 DEF Writes
    <3>2. w'.offset + w'.written = (Current + 1) * B
      BY <1>2, <1>3, <1>4, <1>5, <3>1
    <3>3. w'.offset + w'.written = Position'
      BY <1>3, <1>4, <1>7, <3>1, <3>2 DEF Position
    <3>4. QED
      BY <1>2, <1>3, <1>4, <1>5, <1>7, <3>1, <3>2, <3>3 DEF Writing
  <2>4. CASE \E n \in Nat : Writes(CurrentBlock, n)
    <3>1. PICK n \in Nat : Writes(CurrentBlock, n)
      BY <2>4
    <3>2. CASE pc' = "updateSize"
      BY <2>2, <3>1, <3>2
    <3>3. CASE pc' # "updateSize"
      BY <1>7, <2>3, <3>1, <3>3
    <3>4. QED
      BY <3>2, <3>3
  <2>5. QED
    BY <1>2, <2>1, <2>4
<1>9. QED
  <2>1. UNCHANGED <<MaxSize, inode>>
    BY <1>2 DEF MaxSize
  <2>2. QED
    BY <1>1, <1>2, <1>4, <1>6, <1>8, <2>1 DEF LocalInv
-----------------------------------------------------------------------------
(* Types and locals, for the other actions *)

\* The types are constants.
LEMMA SameTypes ==
    UNCHANGED <<Inumbers, Blocks, Cells, MaxSize, InodeType, BlockType, LocalType, CellValues>>
  BY DEF Inumbers, NInodeBlocks, Blocks, Cells, MaxSize, InodeType, BlockType, LocalType, CellValues

\* Between commands and while reading there is little to know.
LEMMA RestLocal ==
    ASSUME pc' \in {"idle", "read"}, pc' = "read" => IS_MOUNTED', super' = "blank" => Valid' = {}
    PROVE  LocalInv'
  BY DEF LocalInv, Writing

\* fs_format() writes empty inodes and zeroed blocks.
LEMMA FormatLocal ==
    ASSUME StrongInv, Format
    PROVE  FSTypeOK' /\ LocalInv'
<1>1. FSTypeOK /\ pc' = "idle" /\ super' = "valid"
  BY DEF StrongInv, Format
<1>2. LocalInv'
  BY <1>1, RestLocal
<1>3. inode' \in [Inumbers -> InodeType] /\ disk' \in [Blocks -> BlockType]
  <2>1. CASE UNCHANGED <<inode, disk>>
    BY <1>1, <2>1 DEF FSTypeOK
  <2>2. CASE /\ inode' = [n \in Inumbers |-> [EmptyInode EXCEPT !.size = inode[n].size]]
             /\ disk' = [b \in Blocks |-> [cells |-> JunkCells, ptrs |-> JunkPtrs]]
    <3>1. ASSUME NEW n \in Inumbers
          PROVE  [EmptyInode EXCEPT !.size = inode[n].size] \in InodeType
      BY <1>1, InodeTypes, EmptyTypes DEF InodeType
    <3>2. [cells |-> JunkCells, ptrs |-> JunkPtrs] \in BlockType
      BY EmptyTypes DEF BlockType
    <3>3. QED
      BY <2>2, <3>1, <3>2
  <2>3. QED
    BY <2>1, <2>2 DEF Format
<1>4. contents' \in [Inumbers -> [0 .. MaxSize - 1 -> CellValues]]
  BY EmptyTypes DEF Format
<1>5. FSTypeOK'
  BY <1>1, <1>3, <1>4, SameTypes DEF Format, FSTypeOK
<1>6. QED
  BY <1>2, <1>5

\* fs_mount() only reads the disk.
LEMMA MountLocal ==
    ASSUME StrongInv, Mount
    PROVE  FSTypeOK' /\ LocalInv'
<1>1. FSTypeOK /\ pc' = "idle" /\ super' = "valid"
  BY DEF StrongInv, Mount
<1>2. LocalInv'
  BY <1>1, RestLocal
<1>3. FSTypeOK'
  BY <1>1, SameTypes DEF Mount, FSTypeOK
<1>4. QED
  BY <1>2, <1>3

\* fs_create() writes one inode, a valid one.
LEMMA CreateLocal ==
    ASSUME StrongInv, Create
    PROVE  FSTypeOK' /\ LocalInv'
<1>1. FSTypeOK /\ pc' = "idle" /\ super' = "valid"
  BY DEF StrongInv, Create
<1>2. LocalInv'
  BY <1>1, RestLocal
<1>3. PICK new : inode' = [inode EXCEPT ![new] = [EmptyInode EXCEPT !.isvalid = TRUE]]
  BY DEF Create
<1>4. inode' \in [Inumbers -> InodeType]
  BY <1>1, <1>3, EmptyTypes DEF FSTypeOK
<1>5. FSTypeOK'
  BY <1>1, <1>4, SameTypes DEF Create, FSTypeOK
<1>6. QED
  BY <1>2, <1>5

\* fs_delete() writes one inode, an empty one.
LEMMA DeleteLocal ==
    ASSUME StrongInv, NEW n \in Inumbers, Delete(n)
    PROVE  FSTypeOK' /\ LocalInv'
<1>1. FSTypeOK /\ LocalInv /\ pc' = "idle" /\ super' = super
  BY DEF StrongInv, Delete
<1>2. inode' = [inode EXCEPT ![n] = EmptyInode] /\ contents' = [contents EXCEPT ![n] = NoFile]
  BY DEF Delete
<1>3. inode' \in [Inumbers -> InodeType]
  BY <1>1, <1>2, EmptyTypes DEF FSTypeOK
<1>4. contents' \in [Inumbers -> [0 .. MaxSize - 1 -> CellValues]]
  BY <1>1, <1>2, EmptyTypes DEF FSTypeOK
<1>5. Valid' \subseteq Valid
  BY <1>1, <1>2, EmptyTypes, SameTypes DEF FSTypeOK, Valid
<1>6. LocalInv'
  BY <1>1, <1>5, RestLocal DEF LocalInv
<1>7. FSTypeOK'
  BY <1>1, <1>3, <1>4, SameTypes DEF Delete, FSTypeOK
<1>8. QED
  BY <1>6, <1>7

\* What a crash leaves is no command.
LEMMA RestartLocal ==
    ASSUME StrongInv, Restart
    PROVE  FSTypeOK' /\ LocalInv'
<1>1. FSTypeOK /\ LocalInv /\ pc' = "idle" /\ super' = super /\ inode' = inode /\ w' = NoLocals
  BY DEF StrongInv, Restart
<1>2. Valid' = Valid
  BY <1>1, SameTypes DEF Valid
<1>3. LocalInv'
  BY <1>1, <1>2, RestLocal DEF LocalInv
<1>4. FSTypeOK'
  BY <1>1, EmptyTypes, SameTypes DEF Restart, FSTypeOK
<1>5. QED
  BY <1>3, <1>4

\* A copy begins at the beginning of the file.
LEMMA CopyLocal ==
    ASSUME StrongInv, NEW n \in Inumbers, CopyOut(n) \/ \E f \in Files : CopyIn(n, f)
    PROVE  FSTypeOK' /\ LocalInv'
<1>1. FSTypeOK /\ LocalInv /\ IS_MOUNTED /\ n \in Valid
      /\ UNCHANGED <<super, inode, disk, IS_MOUNTED, contents>>
  BY DEF StrongInv, CopyOut, CopyIn, Valid
<1>2. Valid' = Valid
  BY <1>1, SameTypes DEF Valid
<1>3. CASE CopyOut(n)
  <2>1. pc' = "read" /\ w' = [NoLocals EXCEPT !.inumber = n]
    BY <1>3 DEF CopyOut
  <2>2. w' \in LocalType
    BY <2>1, EmptyTypes DEF LocalType
  <2>3. QED
    BY <1>1, <1>2, <2>1, <2>2, RestLocal, SameTypes DEF FSTypeOK, LocalInv
<1>4. ASSUME NEW f \in Files, CopyIn(n, f)
      PROVE  FSTypeOK' /\ LocalInv'
  <2>1. pc' = "chunk" /\ w' = [NoLocals EXCEPT !.inumber = n, !.file = f]
    BY <1>4 DEF CopyIn
  <2>2. f \in Nat
    BY SimpleFSAssumption
  <2>3. w' \in LocalType /\ w'.inumber = n /\ w'.file = f
    BY <2>1, <2>2, EmptyTypes DEF LocalType
  <2>4. w'.offset = 0
    BY <2>1 DEF NoLocals
  <2>5. FSTypeOK'
    BY <1>1, <2>1, <2>3, SameTypes DEF FSTypeOK
  <2>6. inode'[n].size \in Nat
    BY <1>1, InodeTypes
  <2>7. LocalInv'
    BY <1>1, <1>2, <2>4, <2>1, <2>2, <2>3, <2>6 DEF LocalInv, Writing
  <2>8. QED
    BY <2>5, <2>7
<1>5. QED
  BY <1>3, <1>4

\* What fs_read() returns is a number.
LEMMA ReadLengthType ==
    ASSUME NEW size \in Nat, NEW length \in Nat, NEW offset \in Nat
    PROVE  ReadLength(size, length, offset) \in Int
<1>1. B \in Nat \ {0} /\ BlocksOf(size) \in Nat
  BY SimpleFSAssumption, BlocksOfSize
<1> DEFINE first == offset \div B
           Read(k) == (k - first) * B
           FileEnds(k) == size - offset + Read(k) < B
           RequestEnds(k) == Read(k) + B + (IF k = first THEN offset % B ELSE 0) >= length
           ends == {k \in first .. BlocksOf(size) - 1 : FileEnds(k) \/ RequestEnds(k)}
<1>2. first \in Nat
  BY <1>1
<1>3. ends \in SUBSET Nat
  BY <1>1, <1>2
<1>4. ends # {} => Min(ends) \in Int
  BY <1>3, MinInSet
<1> HIDE DEF ends
<1>5. ends # {} => Read(Min(ends)) \in Int
  BY <1>1, <1>2, <1>4
<1>6. AfterLoops(size, Read(BlocksOf(size))) \in Int
  BY <1>1, <1>2 DEF AfterLoops
<1> HIDE DEF Read, first, FileEnds, RequestEnds
<1>7. ReadLength(size, length, offset) =
        IF offset >= size THEN 0
        ELSE IF ends # {}
          THEN IF FileEnds(Min(ends)) THEN size - offset + 2 * Read(Min(ends))
                                      ELSE length - Read(Min(ends))
        ELSE AfterLoops(size, Read(BlocksOf(size)))
  BY DEF ReadLength, ends, Read, FileEnds, RequestEnds, first
<1>8. QED
  BY <1>5, <1>6, <1>7

\* fs_read() moves on by what it returns.
LEMMA ReadLocal ==
    ASSUME StrongInv, ReadChunk
    PROVE  FSTypeOK' /\ LocalInv'
<1>1. FSTypeOK /\ LocalInv /\ pc = "read" /\ UNCHANGED <<super, inode, disk, IS_MOUNTED, contents>>
  BY DEF StrongInv, ReadChunk
<1> DEFINE result == ReadLength(inode[w.inumber].size, BUFFER, w.offset)
<1>2. result \in Int /\ w.offset \in Nat
  <2>1. BUFFER \in Nat /\ inode[w.inumber].size \in Nat /\ w.offset \in Nat
    BY <1>1, LocalTypes, InodeTypes, SimpleFSAssumption
  <2>2. QED
    BY <2>1, ReadLengthType
<1>3. IF result <= 0 THEN pc' = "idle" /\ w' = NoLocals
                     ELSE w' = [w EXCEPT !.offset = w.offset + result] /\ pc' = pc
  BY DEF ReadChunk
<1> HIDE DEF result
<1>4. w' \in LocalType /\ pc' \in {"idle", "read"}
  <2>1. CASE result <= 0
    BY <1>3, <2>1, EmptyTypes
  <2>2. CASE ~(result <= 0)
    <3>1. w.offset + result \in Nat
      BY <1>2, <2>2
    <3>2. QED
      BY <1>1, <1>3, <2>2, <3>1 DEF FSTypeOK, LocalType
  <2>3. QED
    BY <2>1, <2>2
<1>5. FSTypeOK'
  BY <1>1, <1>4, SameTypes DEF FSTypeOK
<1>6. Valid' = Valid
  BY <1>1, SameTypes DEF Valid
<1>7. LocalInv'
  BY <1>1, <1>4, <1>6, RestLocal DEF LocalInv
<1>8. QED
  BY <1>5, <1>7
\* What an allocation or a full disk leaves as it is
LEMMA StillWriting ==
    ASSUME LocalInv, Writing, Writing', w' = w, IS_MOUNTED' = IS_MOUNTED, Valid' = Valid,
           inode'[w.inumber].size = inode[w.inumber].size, super' # "blank",
           w.offset + w.written = Position',
           pc = "updateSize" => pc' = "updateSize",
           pc' = "table" => w.i = 0,
           pc' = "directData" => w.i >= w.nd /\ w.position = 0,
           pc' = "indirect" /\ w.position > 0 => w.ni > 0,
           pc' = "indirectData" => w.i >= w.ni /\ w.position = 0,
           pc' = "setSize" => w.offset + w.written = MaxSize
    PROVE  LocalInv'
  BY SameTypes DEF LocalInv, Writing

\* A change to one inode, ...
SetDirect(n, k, b) == inode' = [inode EXCEPT ![n].direct[k] = b]

\* ... in a direct pointer, ...
LEMMA DirectType ==
    ASSUME FSTypeOK, NEW n \in Inumbers, NEW k \in 0 .. P - 1, NEW b \in Blocks, SetDirect(n, k, b)
    PROVE  /\ inode' \in [Inumbers -> InodeType]
           /\ Valid' = Valid
           /\ \A m \in Inumbers : /\ inode'[m].isvalid = inode[m].isvalid
                                  /\ inode'[m].size = inode[m].size
                                  /\ inode'[m].indirect = inode[m].indirect
           /\ \A m \in Inumbers, l \in 0 .. P - 1 :
                  inode'[m].direct[l] = IF m = n /\ l = k THEN b ELSE inode[m].direct[l]
<1>1. inode \in [Inumbers -> InodeType]
  BY DEF FSTypeOK
<1>2. inode[n].direct \in [0 .. P - 1 -> Blocks]
  BY InodeTypes
<1> DEFINE new == [inode[n].direct EXCEPT ![k] = b]
<1>3. new \in [0 .. P - 1 -> Blocks]
  BY <1>2
<1>4. inode' = [inode EXCEPT ![n].direct = new]
  BY <1>1 DEF InodeType, SetDirect
<1> HIDE DEF new
<1>5. inode' \in [Inumbers -> InodeType]
  BY <1>1, <1>3, <1>4 DEF InodeType
<1>6. \A m \in Inumbers : /\ inode'[m].isvalid = inode[m].isvalid
                          /\ inode'[m].size = inode[m].size
                          /\ inode'[m].indirect = inode[m].indirect
                          /\ inode'[m].direct = IF m = n THEN new ELSE inode[m].direct
  BY <1>1, <1>4 DEF InodeType
<1>7. \A m \in Inumbers, l \in 0 .. P - 1 :
          inode'[m].direct[l] = IF m = n /\ l = k THEN b ELSE inode[m].direct[l]
  <2>1. \A l \in 0 .. P - 1 : new[l] = IF l = k THEN b ELSE inode[n].direct[l]
    BY <1>2 DEF new
  <2> SUFFICES ASSUME NEW m \in Inumbers, NEW l \in 0 .. P - 1
               PROVE  inode'[m].direct[l] = IF m = n /\ l = k THEN b ELSE inode[m].direct[l]
    OBVIOUS
  <2>2. CASE m = n
    <3>1. inode'[m].direct = new
      BY <1>6, <2>2
    <3>2. QED
      BY <2>1, <2>2, <3>1
  <2>3. CASE m # n
    BY <1>6, <2>3
  <2>4. QED
    BY <2>2, <2>3
<1>8. Valid' = Valid
  BY <1>6, SameTypes DEF Valid
<1>9. QED
  BY <1>5, <1>6, <1>7, <1>8

\* ... or in another member.
LEMMA MemberType ==
    ASSUME FSTypeOK, NEW n \in Inumbers, NEW x,
           \/ x \in Blocks /\ inode' = [inode EXCEPT ![n].indirect = x]
           \/ x \in 0 .. MaxSize /\ inode' = [inode EXCEPT ![n].size = x]
    PROVE  /\ inode' \in [Inumbers -> InodeType]
           /\ Valid' = Valid
           /\ \A m \in Inumbers : /\ inode'[m].isvalid = inode[m].isvalid
                                  /\ inode'[m].direct = inode[m].direct
                                  /\ m # n => inode'[m] = inode[m]
<1>1. inode \in [Inumbers -> InodeType]
  BY DEF FSTypeOK
<1>2. inode' \in [Inumbers -> InodeType]
  BY <1>1 DEF InodeType
<1>3. \A m \in Inumbers : /\ inode'[m].isvalid = inode[m].isvalid
                          /\ inode'[m].direct = inode[m].direct
                          /\ m # n => inode'[m] = inode[m]
  BY <1>1 DEF InodeType
<1>4. Valid' = Valid
  BY <1>3, SameTypes DEF Valid
<1>5. QED
  BY <1>2, <1>3, <1>4

\* A direct block is handed out at the beginning of a block behind the end, ...
LEMMA AllocDirectLocal ==
    ASSUME StrongInv, AllocDirect
    PROVE  FSTypeOK' /\ LocalInv'
<1>1. FSTypeOK /\ LocalInv /\ Writing /\ Writing' /\ pc = "direct" /\ pc' = "directData"
      /\ w.i + 1 > w.nd /\ w' = w /\ UNCHANGED <<super, disk, IS_MOUNTED, contents>>
  BY DEF StrongInv, AllocDirect, Writing
<1>2. w.i \in 0 .. P - 1 /\ w.nd \in Nat /\ w.inumber \in Inumbers /\ w.position \in Nat
  BY <1>1, LocalTypes DEF LocalInv
<1>3. PICK b \in Blocks : SetDirect(w.inumber, w.i, b)
  BY DEF AllocDirect, Free, SetDirect
<1>4. /\ inode' \in [Inumbers -> InodeType]
      /\ Valid' = Valid
      /\ inode'[w.inumber].size = inode[w.inumber].size
  BY <1>1, <1>2, <1>3, DirectType
<1>5. w.i >= w.nd /\ w.position = 0
  <2>1. BlocksOf(inode[w.inumber].size) <= Current /\ w.i >= w.nd
    BY <1>1, <1>2, WritingFacts, LocalTypes DEF Current
  <2>2. QED
    BY <1>1, <2>1, PositionBehindEnd
<1>6. w.offset + w.written = Position' /\ super' # "blank"
  BY <1>1 DEF LocalInv, Position
<1>7. LocalInv'
  BY <1>1, <1>4, <1>5, <1>6, StillWriting
<1>8. FSTypeOK'
  BY <1>1, <1>4, SameTypes DEF FSTypeOK
<1>9. QED
  BY <1>7, <1>8

\* ... an indirect block when the direct ones are all in use, ...
LEMMA AllocTableLocal ==
    ASSUME StrongInv, AllocTable
    PROVE  FSTypeOK' /\ LocalInv'
<1>1. FSTypeOK /\ LocalInv /\ Writing /\ Writing' /\ pc = "table" /\ pc' = "indirect"
      /\ w.ni <= 0 /\ w' = w /\ UNCHANGED <<super, disk, IS_MOUNTED, contents>>
  BY DEF StrongInv, AllocTable, Writing
<1>2. w.i = 0 /\ w.ni \in Nat /\ w.inumber \in Inumbers /\ w.position \in Nat
  BY <1>1, LocalTypes DEF LocalInv
<1>3. PICK b \in Blocks : inode' = [inode EXCEPT ![w.inumber].indirect = b]
  BY DEF AllocTable, Free
<1>4. /\ inode' \in [Inumbers -> InodeType]
      /\ Valid' = Valid
  BY <1>1, <1>2, <1>3, MemberType
<1>5. inode'[w.inumber].size = inode[w.inumber].size
  BY <1>1, <1>2, <1>3 DEF FSTypeOK, InodeType
<1>6. w.position = 0
  <2>1. BlocksOf(inode[w.inumber].size) <= Current
    BY <1>1, <1>2, WritingFacts, LocalTypes, CurrentPosition
  <2>2. QED
    BY <1>1, <2>1, PositionBehindEnd
<1>7. w.offset + w.written = Position' /\ super' # "blank"
  BY <1>1 DEF LocalInv, Position
<1>8. LocalInv'
  BY <1>5, <1>1, <1>4, <1>6, <1>7, StillWriting
<1>9. FSTypeOK'
  BY <1>1, <1>4, SameTypes DEF FSTypeOK
<1>10. QED
  BY <1>8, <1>9

\* ... and a pointer in it at the beginning of a block again.
LEMMA AllocPointerLocal ==
    ASSUME StrongInv, AllocPointer
    PROVE  /\ FSTypeOK' /\ LocalInv'
           /\ w.i \in 0 .. P - 1 /\ w.i >= w.ni
           /\ inode[w.inumber].indirect \in Blocks
<1>1. FSTypeOK /\ LocalInv /\ Writing /\ Writing' /\ pc = "indirect" /\ pc' = "indirectData"
      /\ w.i + 1 > w.ni /\ w' = w /\ UNCHANGED <<inode, IS_MOUNTED, contents>>
      /\ super' \in {super, "overwritten"}
  BY DEF StrongInv, AllocPointer, Writing
<1>2. /\ w.i \in 0 .. P - 1 /\ w.ni \in Nat /\ w.i >= w.ni
      /\ w.inumber \in Inumbers /\ w.position \in Nat
  BY <1>1, LocalTypes DEF LocalInv
<1> DEFINE table == inode[w.inumber].indirect
<1>3. PICK b \in Blocks : disk' = [disk EXCEPT ![table] =
            [cells |-> JunkCells, ptrs |-> [disk[table].ptrs EXCEPT ![w.i] = b]]]
  BY DEF AllocPointer, Free
<1>4. table \in Blocks
  BY <1>1, <1>2, InodeTypes
<1> HIDE DEF table
<1>5. disk' \in [Blocks -> BlockType]
  <2>1. [disk[table].ptrs EXCEPT ![w.i] = b] \in [0 .. P - 1 -> Blocks \cup {JunkPtr}]
    BY <1>1, <1>2, <1>4, DiskTypes
  <2>2. [cells |-> JunkCells, ptrs |-> [disk[table].ptrs EXCEPT ![w.i] = b]] \in BlockType
    BY <2>1, EmptyTypes DEF BlockType
  <2>3. QED
    BY <1>1, <1>3, <1>4, <2>2 DEF FSTypeOK
<1>6. w.position = 0
  <2>1. BlocksOf(inode[w.inumber].size) <= Current
    BY <1>1, <1>2, WritingFacts, LocalTypes DEF Current
  <2>2. QED
    BY <1>1, <2>1, PositionBehindEnd
<1>7. w.offset + w.written = Position' /\ super' # "blank"
  BY <1>1 DEF LocalInv, Position
<1>8. Valid' = Valid
  BY <1>1, SameTypes DEF Valid
<1>9. LocalInv'
  BY <1>1, <1>2, <1>6, <1>7, <1>8, StillWriting
<1>10. FSTypeOK'
  BY <1>1, <1>5, SameTypes DEF FSTypeOK
<1>11. QED
  BY <1>2, <1>4, <1>9, <1>10 DEF table

\* Nothing is handed out when it is there already or the disk is full.
LEMMA KeepLocal ==
    ASSUME StrongInv, KeepTable \/ DiskFull
    PROVE  FSTypeOK' /\ LocalInv'
<1>1. /\ FSTypeOK /\ LocalInv /\ Writing /\ Writing'
      /\ (pc = "table" /\ w.ni > 0 /\ pc' = "indirect") \/ pc' = "updateSize"
      /\ w' = w /\ UNCHANGED <<super, inode, disk, IS_MOUNTED, contents>>
  BY DEF StrongInv, KeepTable, DiskFull, Writing
<1>2. Valid' = Valid
  BY <1>1, SameTypes DEF Valid
<1>3. w.offset + w.written = Position' /\ super' # "blank"
  BY <1>1 DEF LocalInv, Position
<1>4. LocalInv'
  BY <1>1, <1>2, <1>3, StillWriting
<1>5. FSTypeOK'
  BY <1>1, SameTypes DEF FSTypeOK
<1>6. QED
  BY <1>4, <1>5

\* fs_write() has ended: the file reaches as far as do_copyin() goes on from.
LEMMA SizeLocal ==
    ASSUME StrongInv, UpdateSize \/ SetSize
    PROVE  /\ FSTypeOK' /\ LocalInv'
           /\ pc' \in {"chunk", "idle"}
           /\ w.inumber \in Inumbers
           /\ inode' = [inode EXCEPT ![w.inumber].size =
                           IF w.offset + w.written > inode[w.inumber].size
                             THEN w.offset + w.written ELSE inode[w.inumber].size]
<1>1. FSTypeOK /\ LocalInv /\ Writing /\ pc \in {"updateSize", "setSize"}
      /\ UNCHANGED <<super, disk, IS_MOUNTED, contents>>
  BY DEF StrongInv, UpdateSize, SetSize, Writing
<1> DEFINE size == inode[w.inumber].size
           end == w.offset + w.written
           new == IF end > size THEN end ELSE size
<1>2. /\ w.inumber \in Inumbers /\ w.inumber \in Valid /\ w.size = size
      /\ size \in Nat /\ size <= MaxSize /\ MaxSize \in Nat
      /\ end \in Nat /\ end <= MaxSize /\ new \in 0 .. MaxSize
      /\ pc = "setSize" => end = MaxSize /\ w.written # w.length
      /\ w.length <= w.file - w.offset /\ w.length \in Nat /\ w.offset \in Nat /\ w.file \in Nat
  BY <1>1, WritingFacts, LocalTypes DEF LocalInv
<1>3. inode' = [inode EXCEPT ![w.inumber].size = new]
  <2>1. CASE pc = "updateSize"
    <3>1. inode' = IF end > size THEN [inode EXCEPT ![w.inumber].size = end] ELSE inode
      BY <1>2, <2>1 DEF UpdateSize, SetSize, Grew
    <3>2. inode = [inode EXCEPT ![w.inumber].size = size]
      BY <1>1, <1>2 DEF FSTypeOK, InodeType
    <3>3. QED
      BY <3>1, <3>2
  <2>2. CASE pc = "setSize"
    <3>1. inode' = [inode EXCEPT ![w.inumber].size = end]
      BY <2>2 DEF UpdateSize, SetSize
    <3>2. new = end
      BY <1>2, <2>2
    <3>3. QED
      BY <3>1, <3>2
  <2>3. QED
    BY <1>1, <2>1, <2>2
<1>4. inode' \in [Inumbers -> InodeType] /\ Valid' = Valid
  BY <1>1, <1>2, <1>3, MemberType
<1>5. inode'[w.inumber].size = new
  BY <1>1, <1>2, <1>3 DEF FSTypeOK, InodeType
<1>6. CASE w.written = w.length
  <2>1. pc' = "chunk" /\ w' = [w EXCEPT !.offset = end] /\ pc = "updateSize"
    BY <1>1, <1>2, <1>6 DEF UpdateSize, SetSize, Return
  <2> HIDE DEF new
  <2>2. w' \in LocalType
    BY <1>1, <1>2, <2>1 DEF FSTypeOK, LocalType
  <2>3. w'.inumber = w.inumber /\ w'.offset = end /\ w'.file = w.file
    <3>1. w \in LocalType
      BY <1>1 DEF FSTypeOK
    <3>2. QED
      BY <2>1, <3>1 DEF LocalType
  <2>4. end <= new /\ end <= w.file
    BY <1>2, <1>6 DEF new
  <2>5. FSTypeOK'
    BY <1>1, <1>4, <2>1, <2>2, SameTypes DEF FSTypeOK
  <2>6. LocalInv'
    BY <1>1, <1>2, <1>4, <1>5, <2>1, <2>3, <2>4 DEF LocalInv, Writing
  <2>7. QED
    BY <1>2, <1>3, <2>1, <2>5, <2>6 DEF new
<1>7. CASE w.written # w.length
  <2>1. pc' = "idle" /\ w' = NoLocals
    BY <1>7 DEF UpdateSize, SetSize, Return
  <2>2. FSTypeOK'
    BY <1>1, <1>4, <2>1, EmptyTypes, SameTypes DEF FSTypeOK
  <2>3. LocalInv'
    BY <1>1, <1>4, <2>1, RestLocal DEF LocalInv
  <2>4. QED
    BY <1>2, <1>3, <2>1, <2>2, <2>3
<1>8. QED
  BY <1>6, <1>7

\* fs_write() begins where the file ends or before.
LEMMA ChunkLocal ==
    ASSUME StrongInv, Chunk
    PROVE  /\ FSTypeOK' /\ LocalInv'
           /\ \/ pc' = "idle" /\ w' = NoLocals
              \/ /\ super = "valid" /\ pc' \in {"direct", "table"} /\ w'.inumber = w.inumber
                 /\ w'.i = 0
                 /\ w'.offset + w'.written <= inode[w.inumber].size
                 /\ pc' = "table" => P < BlocksOf(inode[w.inumber].size)
<1>1. /\ FSTypeOK /\ LocalInv /\ pc = "chunk" /\ IS_MOUNTED
      /\ UNCHANGED <<super, inode, disk, IS_MOUNTED, contents>>
  BY DEF StrongInv, Chunk, LocalInv
<1>2. Valid' = Valid
  BY <1>1, SameTypes DEF Valid
<1> DEFINE size == inode[w.inumber].size
           direct == IF P <= BlocksOf(size) THEN P ELSE BlocksOf(size)
           left == w.file - w.offset
           length == IF BUFFER <= left THEN BUFFER ELSE left
           position == IF w.offset > P * B THEN w.offset - P * B ELSE w.offset
<1>3. /\ w \in LocalType /\ w.inumber \in Inumbers /\ w.inumber \in Valid
      /\ w.offset \in Nat /\ w.file \in Nat
      /\ w.offset <= size /\ w.offset <= w.file
      /\ size \in Nat /\ size <= MaxSize /\ MaxSize \in Nat /\ BlocksOf(size) \in Nat
      /\ P \in Nat \ {0} /\ B \in Nat \ {0} /\ P * B \in Nat /\ BUFFER \in Nat \ {0}
  <2>1. w \in LocalType /\ w.inumber \in Inumbers /\ w.offset \in Nat /\ w.file \in Nat
        /\ P \in Nat \ {0} /\ B \in Nat \ {0}
    BY <1>1, LocalTypes DEF FSTypeOK
  <2>2. size \in 0 .. MaxSize /\ size \in Nat /\ BlocksOf(size) \in Nat
    BY <1>1, <2>1, InodeTypes
  <2>3. MaxSize \in Nat /\ P * B \in Nat
    BY <2>1 DEF MaxSize
  <2>4. QED
    BY <1>1, <2>1, <2>2, <2>3, SimpleFSAssumption DEF LocalInv
<1>4. CASE w.offset = w.file /\ pc' = "idle" /\ w' = NoLocals
  <2>1. FSTypeOK'
    BY <1>1, <1>4, EmptyTypes, SameTypes DEF FSTypeOK
  <2>2. LocalInv'
    BY <1>1, <1>2, <1>4, RestLocal DEF LocalInv
  <2>3. QED
    BY <1>4, <2>1, <2>2
<1>5. CASE /\ w.offset < w.file
           /\ super = "valid"
           /\ pc' = IF w.offset > P * B THEN "table" ELSE "direct"
           /\ w' = [w EXCEPT !.length = length, !.position = position,
                             !.written = 0, !.i = 0, !.size = size,
                             !.nd = direct, !.ni = BlocksOf(size) - direct]
  <2>1. /\ length \in Nat \ {0} /\ length <= w.file - w.offset
        /\ position \in Nat
        /\ direct \in Nat /\ BlocksOf(size) - direct \in Nat
        /\ direct = IF BlocksOf(size) <= P THEN BlocksOf(size) ELSE P
    BY <1>3, <1>5
  <2> HIDE DEF length, direct, size
  <2>2. w' \in LocalType
    BY <1>3, <1>5, <2>1 DEF LocalType
  <2>3. /\ w'.inumber = w.inumber /\ w'.file = w.file /\ w'.offset = w.offset
        /\ w'.length = length /\ w'.position = position /\ w'.written = 0 /\ w'.i = 0
        /\ w'.size = size /\ w'.nd = direct /\ w'.ni = BlocksOf(size) - direct
    BY <1>3, <1>5 DEF LocalType
  <2>4. FSTypeOK'
    BY <1>1, <1>5, <2>2, SameTypes DEF FSTypeOK
  <2>5. Position' = w.offset
    BY <1>3, <1>5, <2>3 DEF Position
  <2>6. Writing' /\ pc' \in {"direct", "table"}
    BY <1>5 DEF Writing
  <2>7. w'.offset + w'.written = w.offset
    BY <1>3, <2>3
  <2>8. w'.size = inode'[w'.inumber].size
    BY <1>1, <2>3 DEF size
  <2>9. LocalInv'
    BY <1>1, <1>2, <1>3, <1>5, <2>1, <2>3, <2>5, <2>6, <2>7, <2>8, SameTypes DEF LocalInv, size
  <2>10. P < BlocksOf(size) \/ pc' = "direct"
    <3>1. P \in Nat /\ ~(size <= P * B) => ~(BlocksOf(size) <= P)
      BY <1>3, BlocksOfFit
    <3>2. QED
      BY <1>3, <1>5, <3>1
  <2>11. QED
    BY <1>3, <1>5, <2>3, <2>4, <2>6, <2>7, <2>9, <2>10 DEF size
<1>6. QED
  <2>1. Min({BUFFER, left}) = length /\ Min({P, BlocksOf(size)}) = direct
    <3>1. left \in Int
      BY <1>3
    <3>2. QED
      BY <1>3, <3>1, MinOfTwo
  <2> HIDE DEF length, direct
  <2>2. \/ w.offset = w.file /\ pc' = "idle" /\ w' = NoLocals
        \/ /\ w.offset < w.file
           /\ super = "valid"
           /\ pc' = IF w.offset > P * B THEN "table" ELSE "direct"
           /\ w' = [w EXCEPT !.length = length, !.position = position,
                             !.written = 0, !.i = 0, !.size = size,
                             !.nd = direct, !.ni = BlocksOf(size) - direct]
    BY <2>1 DEF Chunk
  <2>3. QED
    BY <1>4, <1>5, <2>2 DEF length, direct

\* The types and the locals, for every step
LEMMA LocalStep ==
    ASSUME StrongInv, [Next]_vars
    PROVE  FSTypeOK' /\ LocalInv'
<1>1. CASE UNCHANGED vars
  <2>1. FSTypeOK'
    BY <1>1, SameTypes DEF StrongInv, FSTypeOK, vars
  <2>2. Valid' = Valid /\ Writing' = Writing /\ Position' = Position
    BY <1>1, SameTypes DEF vars, Valid, Writing, Position
  <2>3. LocalInv'
    BY <1>1, <2>2, SameTypes DEF StrongInv, LocalInv, vars
  <2>4. QED
    BY <2>1, <2>3
<1>2. QED
  BY <1>1, FormatLocal, MountLocal, CreateLocal, DeleteLocal, RestartLocal, CopyLocal, ChunkLocal,
     AllocDirectLocal, WriteTypes, WriteLocal, KeepLocal, AllocTableLocal, AllocPointerLocal,
     SizeLocal, ReadLocal
  DEF Next, Write
-----------------------------------------------------------------------------
(* Places, for every action *)

\* A command that ends has given the file no more blocks than were counted.
LEMMA StopPlaces ==
    ASSUME FSTypeOK, FSTypeOK', ~Writing', UNCHANGED disk,
           \A n \in Valid' :
               \/ inode'[n].size = 0
               \/ /\ n \in Valid
                  /\ inode'[n].direct = inode[n].direct
                  /\ inode'[n].indirect = inode[n].indirect
                  /\ BlocksOf(inode'[n].size) <= Count(n)
    PROVE  FewerPlaces
<1> SUFFICES ASSUME NEW n \in Valid', NEW k \in Places(n)'
             PROVE  n \in Valid /\ k \in Places(n) /\ PlaceBlock(n, k)' = PlaceBlock(n, k)
  BY DEF FewerPlaces
<1>1. n \in Inumbers /\ P \in Nat \ {0} /\ B \in Nat \ {0}
  BY SameTypes, LocalTypes DEF Valid
<1>2. Reached' = 0 /\ pc' # "indirect"
  BY DEF Reached, Writing
<1>3. inode'[n].size \in Nat
  <2>1. inode' \in [Inumbers -> InodeType]
    BY SameTypes DEF FSTypeOK
  <2>2. MaxSize \in Nat
    BY <1>1 DEF MaxSize
  <2>3. QED
    BY <1>1, <2>1, <2>2 DEF InodeType
<1>4. BlocksOf(inode'[n].size) \in Nat
  BY <1>3, BlocksOfSize
<1>5. Count(n)' = BlocksOf(inode'[n].size)
  BY <1>2, <1>4 DEF Count
<1>6. CASE inode'[n].size = 0
  <2>1. BlocksOf(inode'[n].size) = 0
    BY <1>1, <1>4, <1>6, BlocksOfFit
  <2>2. FALSE
    BY <1>1, <1>2, <1>5, <2>1 DEF Places
  <2>3. QED
    BY <2>2
<1>7. CASE inode'[n].size # 0
  <2>1. Places(n)' \subseteq Places(n)
    BY <1>1, <1>2, <1>4, <1>5, <1>7, SubPlaces
  <2>2. PlaceBlock(n, k)' = PlaceBlock(n, k)
    BY <1>7 DEF PlaceBlock, BlockAt
  <2>3. QED
    BY <1>7, <2>1, <2>2
<1>8. QED
  BY <1>6, <1>7

\* A command that goes on counts no more blocks.
LEMMA GoPlaces ==
    ASSUME FSTypeOK, FSTypeOK', UNCHANGED inode, w'.inumber = w.inumber,
           Reached' <= Count(w.inumber),
           pc' = "indirect" => IndirectPlace \in Places(w.inumber),
           \A n \in Valid : IndirectPlace \in Places(n) =>
               disk'[inode[n].indirect].ptrs = disk[inode[n].indirect].ptrs
    PROVE  FewerPlaces
<1> SUFFICES ASSUME NEW n \in Valid', NEW k \in Places(n)'
             PROVE  n \in Valid /\ k \in Places(n) /\ PlaceBlock(n, k)' = PlaceBlock(n, k)
  BY DEF FewerPlaces
<1>1. n \in Inumbers /\ n \in Valid /\ P \in Nat \ {0}
  BY SameTypes, LocalTypes DEF Valid
<1>2. Count(n) \in Nat /\ BlocksOf(inode[n].size) <= Count(n) /\ BlocksOf(inode[n].size) \in Nat
  BY <1>1, InodeTypes, PlaceNumbers
<1>3. Reached' \in Nat
  <2>1. w' \in LocalType
    BY SameTypes DEF FSTypeOK
  <2>2. BlocksOf(w'.offset + w'.written) \in Nat
    BY <2>1, BlocksOfSize DEF LocalType
  <2>3. QED
    BY <1>1, <2>1, <2>2 DEF Reached, LocalType
<1>4. Count(n)' \in Nat /\ Count(n)' <= Count(n)
  BY <1>2, <1>3 DEF Count
<1>5. k \in Places(n)
  BY <1>1, <1>4, SubPlaces
<1>6. PlaceBlock(n, k)' = PlaceBlock(n, k)
  <2>1. k # IndirectPlace /\ ~(k < P) => IndirectPlace \in Places(n)
    BY <1>1, <1>5, PlaceNumbers
  <2>2. QED
    BY <1>1, <1>5, <2>1 DEF PlaceBlock, BlockAt
<1>7. QED
  BY <1>1, <1>5, <1>6

\* After formatting there is no file.
LEMMA FormatInvalid ==
    ASSUME FSTypeOK, LocalInv, Format
    PROVE  Valid' = {}
<1>1. CASE super = "blank" /\ UNCHANGED inode
  BY <1>1, SameTypes DEF LocalInv, Valid
<1>2. CASE inode' = [n \in Inumbers |-> [EmptyInode EXCEPT !.size = inode[n].size]]
  BY <1>2, SameTypes DEF Valid, EmptyInode
<1>3. QED
  BY <1>1, <1>2 DEF Format

\* The actions outside fs_write(), and its ends
LEMMA PlainPlaces ==
    ASSUME StrongInv, FSTypeOK',
           \/ Format
           \/ Create
           \/ UpdateSize \/ SetSize
           \/ Mount \/ Restart \/ ReadChunk \/ (Chunk /\ pc' = "idle")
           \/ \E n \in Inumbers : Delete(n) \/ CopyOut(n) \/ \E f \in Files : CopyIn(n, f)
    PROVE  FewerPlaces
<1>1. FSTypeOK /\ LocalInv
  BY DEF StrongInv
<1>2. CASE Format
  BY <1>1, <1>2, FormatInvalid DEF FewerPlaces
<1>3. CASE Create
  <2>1. PICK new : inode' = [inode EXCEPT ![new] = [EmptyInode EXCEPT !.isvalid = TRUE]]
    BY <1>3 DEF Create
  <2>2. ~Writing' /\ disk' = disk
    BY <1>3 DEF Create, Writing
  <2>3. ASSUME NEW n \in Valid'
        PROVE  \/ inode'[n].size = 0
               \/ n \in Valid /\ inode'[n] = inode[n]
    BY <1>1, <2>1, <2>3, SameTypes DEF Valid, FSTypeOK, EmptyInode
  <2>4. \A n \in Valid : BlocksOf(inode[n].size) <= Count(n)
    BY <1>1, PlaceNumbers DEF Valid
  <2>5. QED
    BY <1>1, <2>2, <2>3, <2>4, StopPlaces
<1>4. CASE UpdateSize \/ SetSize
  <2>1. /\ pc' \in {"chunk", "idle"} /\ UNCHANGED disk
        /\ w.inumber \in Inumbers
        /\ inode' = [inode EXCEPT ![w.inumber].size =
                        IF w.offset + w.written > inode[w.inumber].size
                          THEN w.offset + w.written ELSE inode[w.inumber].size]
    BY <1>4, SizeLocal DEF UpdateSize, SetSize
  <2> DEFINE new == IF w.offset + w.written > inode[w.inumber].size
                          THEN w.offset + w.written ELSE inode[w.inumber].size
  <2>2. BlocksOf(new) <= Count(w.inumber)
    <3>1. Reached = BlocksOf(w.offset + w.written) /\ Reached \in Nat
      BY <1>1, <1>4, LocalTypes DEF Reached, UpdateSize, SetSize
    <3>2. BlocksOf(inode[w.inumber].size) \in Nat
      BY <1>1, <2>1, InodeTypes
    <3>3. QED
      BY <3>1, <3>2 DEF Count
  <2> HIDE DEF new
  <2>3. inode' = [inode EXCEPT ![w.inumber].size = new]
    BY <2>1 DEF new
  <2>4. \A n \in Valid' : /\ n \in Valid
                          /\ inode'[n].direct = inode[n].direct
                          /\ inode'[n].indirect = inode[n].indirect
                          /\ inode'[n].size = IF n = w.inumber THEN new ELSE inode[n].size
    BY <1>1, <2>1, <2>3, SameTypes DEF Valid, FSTypeOK, InodeType
  <2>5. \A n \in Valid : BlocksOf(inode[n].size) <= Count(n)
    BY <1>1, PlaceNumbers DEF Valid
  <2>6. ~Writing'
    BY <2>1 DEF Writing
  <2>7. QED
    BY <1>1, <2>1, <2>2, <2>4, <2>5, <2>6, StopPlaces
<1>5. CASE \/ Mount \/ Restart \/ ReadChunk \/ (Chunk /\ pc' = "idle")
           \/ \E n \in Inumbers : Delete(n) \/ CopyOut(n) \/ \E f \in Files : CopyIn(n, f)
  <2>1. /\ UNCHANGED disk
        /\ pc' \in {"idle", "chunk", "read"}
        /\ UNCHANGED inode \/ \E n \in Inumbers : inode' = [inode EXCEPT ![n] = EmptyInode]
    BY <1>5 DEF Mount, Restart, ReadChunk, Chunk, Delete, CopyOut, CopyIn
  <2>2. ~Writing'
    BY <2>1 DEF Writing
  <2>3. \A n \in Valid' : n \in Valid /\ inode'[n] = inode[n]
    BY <1>1, <2>1, EmptyTypes, SameTypes DEF Valid, FSTypeOK
  <2>4. \A n \in Valid : BlocksOf(inode[n].size) <= Count(n)
    BY <1>1, PlaceNumbers DEF Valid
  <2>5. QED
    BY <1>1, <2>1, <2>2, <2>3, <2>4, StopPlaces
<1>6. QED
  BY <1>2, <1>3, <1>4, <1>5

\* Only the block that a data loop writes to changes, and it is no indirect block.
LEMMA WriteKeeps ==
    ASSUME StrongInv, WriteDirect \/ WriteIndirect
    PROVE  /\ \A b \in Blocks : b # CurrentBlock => disk'[b] = disk[b]
           /\ \A n \in Valid : IndirectPlace \in Places(n) =>
                  /\ inode[n].indirect # CurrentBlock
                  /\ disk'[inode[n].indirect] = disk[inode[n].indirect]
<1>1. FSTypeOK /\ LocalInv /\ PlacesApart
  BY DEF StrongInv
<1>2. /\ w.inumber \in Valid
      /\ Current \in Places(w.inumber) /\ Current # IndirectPlace
      /\ CurrentBlock \in Blocks
  BY <1>1, CurrentIsPlace, WritingFacts, LocalTypes DEF Current, IndirectPlace
<1>3. \A b \in Blocks : b # CurrentBlock => disk'[b] = disk[b]
  <2>1. Passes \/ \E n \in Nat : Writes(CurrentBlock, n)
    BY <1>1, WriteRound
  <2>2. CASE Passes
    BY <2>2 DEF Passes
  <2>3. CASE \E n \in Nat : Writes(CurrentBlock, n)
    <3>1. PICK x, y : disk' = [disk EXCEPT ![CurrentBlock].cells = x, ![CurrentBlock].ptrs = y]
      BY <2>3 DEF Writes
    <3>2. QED
      BY <1>1, <3>1 DEF FSTypeOK
  <2>4. QED
    BY <2>1, <2>2, <2>3
<1>4. ASSUME NEW n \in Valid, IndirectPlace \in Places(n)
      PROVE  inode[n].indirect # CurrentBlock /\ inode[n].indirect \in Blocks
  <2>1. PlaceBlock(n, IndirectPlace) = inode[n].indirect
    BY DEF PlaceBlock
  <2>2. PlaceBlock(n, IndirectPlace) # CurrentBlock
    BY <1>1, <1>2, <1>4 DEF PlacesApart, CurrentBlock
  <2>3. QED
    BY <1>1, <2>1, <2>2, InodeTypes DEF Valid
<1>5. QED
  BY <1>3, <1>4

\* The k-th block of a file stays the k-th block.
LEMMA WriteKeepsBlocks ==
    ASSUME StrongInv, WriteDirect \/ WriteIndirect,
           NEW n \in Valid, NEW k \in Nat, k >= P => IndirectPlace \in Places(n)
    PROVE  BlockAt(n, k)' = BlockAt(n, k)
<1>1. inode' = inode
  BY DEF WriteDirect, WriteIndirect
<1>2. CASE k < P
  BY <1>1, <1>2 DEF BlockAt
<1>3. CASE ~(k < P)
  <2>1. k >= P
    BY <1>3, SimpleFSAssumption
  <2>2. disk'[inode[n].indirect] = disk[inode[n].indirect]
    BY <2>1, WriteKeeps
  <2>3. QED
    BY <1>1, <1>3, <2>2 DEF BlockAt
<1>4. QED
  BY <1>2, <1>3

\* A data loop that goes on is at the next block; one that stops has come to the
\* end of this one at most.
LEMMA WritePlaces ==
    ASSUME StrongInv, WriteDirect \/ WriteIndirect
    PROVE  FewerPlaces
<1>1. FSTypeOK /\ LocalInv /\ FSTypeOK' /\ LocalInv'
  BY WriteTypes, WriteLocal DEF StrongInv
<1>2. /\ pc \in {"direct", "directData", "indirect", "indirectData"}
      /\ Passes \/ \E n \in Nat : Writes(CurrentBlock, n)
      /\ w'.inumber = w.inumber /\ w'.offset = w.offset
      /\ UNCHANGED inode
  BY <1>1, WriteRound
<1>3. /\ Current \in Nat /\ Current < Count(w.inumber) /\ Count(w.inumber) \in Nat
      /\ Current \in Places(w.inumber)
      /\ w.inumber \in Inumbers
      /\ w.offset + w.written = Current * B + w.position
      /\ w.offset \in Nat /\ w.written \in Nat /\ w.position \in Nat /\ w.i \in Nat
      /\ P \in Nat \ {0} /\ B \in Nat \ {0}
      /\ MaxSize = (P + P) * B
  BY <1>1, <1>2, CurrentIsPlace, CurrentPosition, LocalTypes, PlaceNumbers, WritingFacts
<1>4. Reached' <= Current + 1
  <2>1. CASE Moves
    <3>1. CASE pc' # "setSize"
      BY <1>2, <1>3, <2>1, <3>1 DEF Moves, Reached, Current
    <3>2. CASE pc' = "setSize"
      <4>1. Current + 1 = P + P
        BY <1>2, <1>3, <2>1, <3>2 DEF Moves, Current
      <4>2. w'.offset + w'.written = MaxSize
        BY <1>1, <3>2 DEF LocalInv
      <4>3. MaxSize \in Nat /\ BlocksOf(MaxSize) <= P + P
        BY <1>3, BlocksOfFit
      <4>4. QED
        BY <3>2, <4>1, <4>2, <4>3 DEF Reached
    <3>3. QED
      BY <3>1, <3>2
  <2>2. ASSUME NEW n \in Nat, Writes(CurrentBlock, n), pc' = "updateSize"
        PROVE  Reached' <= Current + 1
    <3>1. w'.written = w.written + n /\ w.position <= B /\ n <= B - w.position
      BY <2>2 DEF Writes
    <3>2. (Current + 1) * B = Current * B + B /\ Current * B \in Nat
      BY <1>3
    <3>3. w'.offset + w'.written \in Nat /\ w'.offset + w'.written <= (Current + 1) * B
      BY <1>2, <1>3, <3>1, <3>2
    <3>4. Current + 1 \in Nat
      BY <1>3
    <3>5. BlocksOf(w'.offset + w'.written) <= Current + 1
      BY <3>4, <3>3, BlocksOfFit
    <3>6. QED
      BY <2>2, <3>5 DEF Reached
  <2>3. Passes => Moves
    BY DEF Passes
  <2>4. ASSUME NEW n \in Nat, Writes(CurrentBlock, n)
        PROVE  Moves \/ pc' = "updateSize"
    BY <2>4 DEF Writes
  <2>5. QED
    BY <1>2, <2>1, <2>2, <2>3, <2>4
<1>5. Reached' <= Count(w.inumber)
  <2>1. Reached' \in Nat
    <3>1. w' \in LocalType
      BY <1>1, SameTypes DEF FSTypeOK
    <3>2. BlocksOf(w'.offset + w'.written) \in Nat
      BY <3>1, BlocksOfSize DEF LocalType
    <3>3. QED
      BY <1>3, <3>1, <3>2 DEF Reached, LocalType
  <2>2. QED
    BY <1>3, <1>4, <2>1
<1>6. pc' = "indirect" => IndirectPlace \in Places(w.inumber)
  <2>1. pc' = "indirect" => Moves
    BY <1>2 DEF Passes, Writes
  <2>2. pc' = "indirect" => Current >= P
    BY <1>2, <1>3, <2>1 DEF Moves, Current
  <2>3. QED
    BY <1>1, <1>3, <2>2, PlaceNumbers
<1>7. QED
  BY <1>1, <1>2, <1>5, <1>6, WriteKeeps, GoPlaces

\* When the disk is full, fs_write() is at the end of a block.
LEMMA KeepPlaces ==
    ASSUME StrongInv, KeepTable \/ DiskFull
    PROVE  FewerPlaces
<1>1. FSTypeOK /\ LocalInv /\ FSTypeOK' /\ LocalInv'
  BY KeepLocal DEF StrongInv
<1>2. UNCHANGED <<inode, disk, w>> /\ Writing
  BY DEF KeepTable, DiskFull, Writing
<1> DEFINE blocks == BlocksOf(inode[w.inumber].size)
<1>3. /\ w.inumber \in Inumbers /\ w.i \in Nat /\ P \in Nat \ {0} /\ B \in Nat \ {0}
      /\ Reached \in Nat /\ blocks \in Nat
      /\ Count(w.inumber) = IF Reached > blocks THEN Reached ELSE blocks
      /\ w.nd = (IF blocks <= P THEN blocks ELSE P)
      /\ w.ni = (IF blocks <= P THEN 0 ELSE blocks - P)
  BY <1>1, <1>2, LocalTypes, WritingFacts DEF Count
<1> HIDE DEF blocks
<1>4. CASE KeepTable
  <2>1. pc = "table" /\ pc' = "indirect" /\ w.ni > 0 /\ w.i = 0
    BY <1>1, <1>4 DEF KeepTable, LocalInv
  <2>2. Reached' = P /\ P < blocks
    BY <1>2, <1>3, <2>1 DEF Reached
  <2>3. Count(w.inumber) > P
    BY <1>3, <2>2
  <2>4. IndirectPlace \in Places(w.inumber)
    BY <1>1, <1>3, <2>3, PlaceNumbers
  <2>5. QED
    BY <1>1, <1>2, <1>3, <2>2, <2>4, GoPlaces
<1>5. CASE DiskFull
  <2>1. /\ pc \in {"direct", "table", "indirect"} /\ pc' = "updateSize"
        /\ pc = "direct" => w.i + 1 > w.nd
        /\ pc = "table" => w.ni <= 0 /\ w.i = 0
        /\ pc = "indirect" => w.i + 1 > w.ni
        /\ w.i < P
    BY <1>1, <1>2, <1>5 DEF DiskFull, LocalInv
  <2>2. blocks <= Current /\ Current = Reached
    BY <1>3, <2>1 DEF Current, Reached
  <2>3. w.position = 0 /\ w.offset + w.written = Current * B + w.position /\ Current \in Nat
    BY <1>1, <2>1, <2>2, CurrentPosition, PositionBehindEnd DEF blocks
  <2>4. w.offset + w.written \in Nat /\ w.offset + w.written <= Current * B
    BY <1>1, <2>3, LocalTypes
  <2>5. Reached' <= Count(w.inumber)
    <3>1. Reached' = BlocksOf(w.offset + w.written)
      BY <1>2, <2>1 DEF Reached
    <3>2. BlocksOf(w.offset + w.written) <= Current
      BY <2>3, <2>4, BlocksOfFit
    <3>3. BlocksOf(w.offset + w.written) \in Nat
      BY <2>4, BlocksOfSize
    <3>4. QED
      BY <1>3, <2>2, <3>1, <3>2, <3>3
  <2>6. QED
    BY <1>1, <1>2, <2>1, <2>5, GoPlaces
<1>6. QED
  BY <1>4, <1>5

\* fs_write() begins: nothing is reached yet that the file does not have.
LEMMA ChunkPlaces ==
    ASSUME StrongInv, Chunk, pc' # "idle"
    PROVE  FewerPlaces
<1>1. FSTypeOK /\ LocalInv /\ FSTypeOK' /\ LocalInv'
  BY ChunkLocal DEF StrongInv
<1>2. /\ pc' \in {"direct", "table"} /\ w'.inumber = w.inumber /\ w'.i = 0
      /\ pc' = "table" => P < BlocksOf(inode[w.inumber].size)
      /\ UNCHANGED <<inode, disk>>
  BY ChunkLocal DEF Chunk
<1>3. /\ w.inumber \in Inumbers /\ P \in Nat /\ Count(w.inumber) \in Nat
      /\ BlocksOf(inode[w.inumber].size) \in Nat
      /\ BlocksOf(inode[w.inumber].size) <= Count(w.inumber)
  BY <1>1, LocalTypes, PlaceNumbers, InodeTypes
<1>4. Reached' <= Count(w.inumber)
  BY <1>2, <1>3 DEF Reached
<1>5. QED
  BY <1>1, <1>2, <1>4, GoPlaces

\* The new direct block is the file's next place, ...
LEMMA AllocDirectPlaces ==
    ASSUME StrongInv, AllocDirect
    PROVE  \E b \in Blocks \ BLOCK_MAP :
              /\ BLOCK_MAP' = BLOCK_MAP \cup {b}
              /\ OnePlaceMore(w.inumber, w.i, b)
<1>1. FSTypeOK /\ LocalInv /\ LocalInv' /\ Writing /\ pc = "direct" /\ pc' = "directData"
      /\ w.i + 1 > w.nd /\ UNCHANGED <<disk, w>>
  BY AllocDirectLocal DEF StrongInv, AllocDirect, Writing
<1> DEFINE m == w.inumber
           blocks == BlocksOf(inode[m].size)
<1>2. /\ w.i \in 0 .. P - 1 /\ w.i \in Nat /\ m \in Inumbers /\ P \in Nat /\ blocks \in Nat
      /\ w.nd = (IF blocks <= P THEN blocks ELSE P)
  BY <1>1, LocalTypes, WritingFacts DEF LocalInv
<1>3. PICK b \in Blocks \ BLOCK_MAP :
          /\ BLOCK_MAP' = BLOCK_MAP \cup {b}
          /\ SetDirect(m, w.i, b)
  BY DEF AllocDirect, Free, Allocate, SetDirect
<1>4. /\ Valid' = Valid
      /\ \A n \in Inumbers : /\ inode'[n].size = inode[n].size
                             /\ inode'[n].indirect = inode[n].indirect
      /\ \A n \in Inumbers, l \in 0 .. P - 1 :
             inode'[n].direct[l] = IF n = m /\ l = w.i THEN b ELSE inode[n].direct[l]
  BY <1>1, <1>2, <1>3, DirectType
<1> HIDE DEF blocks
<1>5. blocks <= w.i
  BY <1>1, <1>2
<1>6. SUFFICES ASSUME NEW n \in Valid', NEW k \in Places(n)'
               PROVE  \/ n = m /\ k = w.i /\ PlaceBlock(n, k)' = b
                      \/ n \in Valid /\ k \in Places(n) /\ PlaceBlock(n, k)' = PlaceBlock(n, k)
  BY <1>3 DEF OnePlaceMore
<1>7. n \in Inumbers /\ n \in Valid
  BY <1>4 DEF Valid
<1>8. CASE n # m
  <2>1. Count(n)' = Count(n)
    BY <1>1, <1>4, <1>7, <1>8 DEF Count
  <2>2. k \in Places(n)
    BY <1>1, <1>8, <2>1 DEF Places
  <2>3. k = IndirectPlace \/ k \in Nat
    BY <1>1, <1>7, <2>2, PlaceNumbers
  <2>4. PlaceBlock(n, k)' = PlaceBlock(n, k)
    <3>1. CASE k = IndirectPlace \/ k >= P
      BY <1>1, <1>2, <1>4, <1>7, <2>3, <3>1 DEF PlaceBlock, BlockAt, IndirectPlace
    <3>2. CASE k \in 0 .. P - 1
      <4>1. inode'[n].direct[k] = inode[n].direct[k] /\ k < P /\ k # IndirectPlace
        BY <1>2, <1>4, <1>7, <1>8, <3>2 DEF IndirectPlace
      <4>2. QED
        BY <4>1 DEF PlaceBlock, BlockAt
    <3>3. QED
      BY <1>2, <2>3, <3>1, <3>2
  <2>5. QED
    BY <1>7, <2>2, <2>4
<1>9. CASE n = m
  <2>1. Count(n)' = w.i + 1 /\ Count(n) = w.i
    <3>1. Reached = w.i /\ Reached' = w.i + 1
      BY <1>1 DEF Reached
    <3>2. BlocksOf(inode'[n].size) = blocks /\ BlocksOf(inode[n].size) = blocks
      BY <1>4, <1>7, <1>9 DEF blocks
    <3>3. QED
      BY <1>1, <1>2, <1>5, <1>9, <3>1, <3>2 DEF Count
  <2>2. k \in 0 .. w.i
    BY <1>1, <1>2, <2>1 DEF Places
  <2>3. inode'[n].direct[k] = (IF k = w.i THEN b ELSE inode[n].direct[k]) /\ k < P /\ k # IndirectPlace
    BY <1>2, <1>4, <1>7, <1>9, <2>2 DEF IndirectPlace
  <2>4. PlaceBlock(n, k)' = (IF k = w.i THEN b ELSE PlaceBlock(n, k))
    BY <2>3 DEF PlaceBlock, BlockAt
  <2>5. k # w.i => k \in Places(n)
    BY <1>2, <2>1, <2>2 DEF Places
  <2>6. QED
    BY <1>7, <1>9, <2>4, <2>5
<1>10. QED
  BY <1>8, <1>9

\* ... and the new indirect block its indirect place.
LEMMA AllocTablePlaces ==
    ASSUME StrongInv, AllocTable
    PROVE  \E b \in Blocks \ BLOCK_MAP :
              /\ BLOCK_MAP' = BLOCK_MAP \cup {b}
              /\ OnePlaceMore(w.inumber, IndirectPlace, b)
<1>1. FSTypeOK /\ LocalInv /\ Writing /\ pc = "table" /\ pc' = "indirect"
      /\ w.ni <= 0 /\ w.i = 0 /\ UNCHANGED <<disk, w>>
  BY DEF StrongInv, AllocTable, Writing, LocalInv
<1> DEFINE m == w.inumber
           blocks == BlocksOf(inode[m].size)
<1>2. /\ m \in Inumbers /\ P \in Nat \ {0} /\ blocks \in Nat
      /\ w.ni = (IF blocks <= P THEN 0 ELSE blocks - P)
  BY <1>1, LocalTypes, WritingFacts DEF LocalInv
<1>3. PICK b \in Blocks \ BLOCK_MAP :
          /\ BLOCK_MAP' = BLOCK_MAP \cup {b}
          /\ inode' = [inode EXCEPT ![m].indirect = b]
  BY DEF AllocTable, Free, Allocate
<1>4. /\ Valid' = Valid
      /\ \A n \in Inumbers : inode'[n].direct = inode[n].direct /\ (n # m => inode'[n] = inode[n])
  BY <1>1, <1>2, <1>3, MemberType
<1>5. \A n \in Inumbers : /\ inode'[n].size = inode[n].size
                          /\ inode'[n].indirect = IF n = m THEN b ELSE inode[n].indirect
  BY <1>1, <1>2, <1>3 DEF FSTypeOK, InodeType
<1> HIDE DEF blocks
<1>6. blocks <= P
  BY <1>1, <1>2
<1>7. SUFFICES ASSUME NEW n \in Valid', NEW k \in Places(n)'
               PROVE  \/ n = m /\ k = IndirectPlace /\ PlaceBlock(n, k)' = b
                      \/ n \in Valid /\ k \in Places(n) /\ PlaceBlock(n, k)' = PlaceBlock(n, k)
  BY <1>3 DEF OnePlaceMore
<1>8. n \in Inumbers /\ n \in Valid
  BY <1>4 DEF Valid
<1>9. CASE n # m
  <2>1. Count(n)' = Count(n)
    BY <1>1, <1>5, <1>8, <1>9 DEF Count
  <2>2. k \in Places(n)
    BY <1>1, <1>9, <2>1 DEF Places
  <2>3. PlaceBlock(n, k)' = PlaceBlock(n, k)
    BY <1>1, <1>4, <1>8, <1>9 DEF PlaceBlock, BlockAt
  <2>4. QED
    BY <1>8, <2>2, <2>3
<1>10. CASE n = m
  <2>1. Count(n)' = P /\ Count(n) = P
    <3>1. Reached = P /\ Reached' = P
      BY <1>1, <1>2 DEF Reached
    <3>2. BlocksOf(inode'[n].size) = blocks /\ BlocksOf(inode[n].size) = blocks
      BY <1>5, <1>8, <1>10 DEF blocks
    <3>3. QED
      BY <1>1, <1>2, <1>6, <1>10, <3>1, <3>2 DEF Count
  <2>2. k \in 0 .. P - 1 \/ k = IndirectPlace
    BY <1>1, <1>2, <2>1 DEF Places
  <2>3. CASE k = IndirectPlace
    <3>1. PlaceBlock(n, k)' = b
      BY <1>5, <1>8, <1>10, <2>3 DEF PlaceBlock
    <3>2. QED
      BY <1>10, <2>3, <3>1
  <2>4. CASE k \in 0 .. P - 1
    <3>1. k < P /\ k # IndirectPlace /\ k \in Places(n)
      BY <1>2, <2>1, <2>4 DEF IndirectPlace, Places
    <3>2. PlaceBlock(n, k)' = PlaceBlock(n, k)
      BY <1>4, <1>8, <3>1 DEF PlaceBlock, BlockAt
    <3>3. QED
      BY <1>8, <3>1, <3>2
  <2>5. QED
    BY <2>2, <2>3, <2>4
<1>11. QED
  BY <1>9, <1>10

\* A pointer that is written into an indirect block is its file's next place; the
\* other files have other indirect blocks.
LEMMA AllocPointerPlaces ==
    ASSUME StrongInv, AllocPointer
    PROVE  \E b \in Blocks \ BLOCK_MAP :
              /\ BLOCK_MAP' = BLOCK_MAP \cup {b}
              /\ OnePlaceMore(w.inumber, P + w.i, b)
<1>1. FSTypeOK /\ LocalInv /\ PlacesApart /\ Writing /\ pc = "indirect" /\ pc' = "indirectData"
      /\ UNCHANGED <<inode, w>>
  BY DEF StrongInv, AllocPointer, Writing
<1> DEFINE m == w.inumber
           blocks == BlocksOf(inode[m].size)
           table == inode[m].indirect
<1>2. /\ w.i \in 0 .. P - 1 /\ w.i \in Nat /\ m \in Inumbers /\ m \in Valid
      /\ P \in Nat \ {0} /\ blocks \in Nat
      /\ w.ni = (IF blocks <= P THEN 0 ELSE blocks - P)
      /\ w.i >= w.ni /\ table \in Blocks
  BY <1>1, LocalTypes, WritingFacts, AllocPointerLocal
<1>3. PICK b \in Blocks \ BLOCK_MAP :
          /\ BLOCK_MAP' = BLOCK_MAP \cup {b}
          /\ disk' = [disk EXCEPT ![table] =
                [cells |-> JunkCells, ptrs |-> [disk[table].ptrs EXCEPT ![w.i] = b]]]
  BY DEF AllocPointer, Free, Allocate
<1> HIDE DEF table, blocks
<1>4. /\ \A c \in Blocks : c # table => disk'[c] = disk[c]
      /\ \A j \in 0 .. P - 1 : disk'[table].ptrs[j] = IF j = w.i THEN b ELSE disk[table].ptrs[j]
  <2>1. disk'[table].ptrs = [disk[table].ptrs EXCEPT ![w.i] = b]
    BY <1>1, <1>2, <1>3 DEF FSTypeOK
  <2>2. disk[table].ptrs \in [0 .. P - 1 -> Blocks \cup {JunkPtr}]
    BY <1>1, <1>2, DiskTypes
  <2>3. \A c \in Blocks : c # table => disk'[c] = disk[c]
    BY <1>1, <1>2, <1>3 DEF FSTypeOK
  <2>4. QED
    BY <2>1, <2>2, <2>3
<1>5. blocks <= P + w.i
  BY <1>2
<1>6. SUFFICES ASSUME NEW n \in Valid', NEW k \in Places(n)'
               PROVE  \/ n = m /\ k = P + w.i /\ PlaceBlock(n, k)' = b
                      \/ n \in Valid /\ k \in Places(n) /\ PlaceBlock(n, k)' = PlaceBlock(n, k)
  BY <1>3 DEF OnePlaceMore
<1>7. n \in Inumbers /\ n \in Valid
  BY <1>1, SameTypes DEF Valid
<1>8. CASE n # m
  <2>1. Count(n)' = Count(n)
    BY <1>1, <1>8 DEF Count
  <2>2. k \in Places(n)
    BY <1>1, <1>8, <2>1 DEF Places
  <2>3. k = IndirectPlace \/ k < P => PlaceBlock(n, k)' = PlaceBlock(n, k)
    BY <1>1 DEF PlaceBlock, BlockAt
  <2>4. ASSUME k \in Nat, k >= P
        PROVE  PlaceBlock(n, k)' = PlaceBlock(n, k)
    <3>1. IndirectPlace \in Places(n) /\ IndirectPlace \in Places(m)
      BY <1>1, <1>2, <1>7, <2>2, <2>4, PlaceNumbers
    <3>2. PlaceBlock(n, IndirectPlace) # PlaceBlock(m, IndirectPlace)
      BY <1>1, <1>2, <1>7, <1>8, <3>1 DEF PlacesApart
    <3>3. inode[n].indirect # table /\ inode[n].indirect \in Blocks
      BY <1>1, <1>7, <3>2, InodeTypes DEF PlaceBlock, table
    <3>4. disk'[inode[n].indirect] = disk[inode[n].indirect]
      BY <1>4, <3>3
    <3>5. QED
      BY <1>1, <3>4 DEF PlaceBlock, BlockAt
  <2>5. k = IndirectPlace \/ k \in Nat
    BY <1>1, <1>7, <2>2, PlaceNumbers
  <2>6. QED
    BY <1>2, <1>7, <2>2, <2>3, <2>4, <2>5
<1>9. CASE n = m
  <2>1. Count(n)' = P + w.i + 1 /\ Count(n) = P + w.i
    <3>1. Reached = P + w.i /\ Reached' = P + w.i + 1
      BY <1>1 DEF Reached
    <3>2. BlocksOf(inode'[n].size) = blocks /\ BlocksOf(inode[n].size) = blocks
      BY <1>1, <1>9 DEF blocks
    <3>3. QED
      BY <1>1, <1>2, <1>5, <1>9, <3>1, <3>2 DEF Count
  <2>2. k \in 0 .. P + w.i \/ k = IndirectPlace
    BY <1>1, <1>2, <2>1 DEF Places
  <2>3. CASE k = IndirectPlace
    <3>1. k \in Places(n) /\ PlaceBlock(n, k)' = PlaceBlock(n, k)
      BY <1>1, <1>9, <2>3 DEF Places, PlaceBlock
    <3>2. QED
      BY <1>7, <3>1
  <2>4. CASE k \in 0 .. P + w.i
    <3>1. k # IndirectPlace /\ (k # P + w.i => k \in Places(n))
      BY <1>2, <2>1, <2>4 DEF IndirectPlace, Places
    <3>2. PlaceBlock(n, k)' = IF k = P + w.i THEN b ELSE PlaceBlock(n, k)
      <4>1. CASE k < P
        BY <1>1, <1>2, <3>1, <4>1 DEF PlaceBlock, BlockAt
      <4>2. CASE k >= P
        <5>1. k - P \in 0 .. P - 1 /\ (k - P = w.i <=> k = P + w.i) /\ ~(k < P)
          BY <1>2, <2>4, <4>2
        <5>2. PlaceBlock(n, k)' = disk'[table].ptrs[k - P] /\ PlaceBlock(n, k) = disk[table].ptrs[k - P]
          BY <1>1, <1>9, <3>1, <5>1 DEF PlaceBlock, BlockAt, table
        <5>3. QED
          BY <1>4, <5>1, <5>2
      <4>3. QED
        BY <1>2, <2>4, <4>1, <4>2
    <3>3. QED
      BY <1>7, <1>9, <3>1, <3>2
  <2>5. QED
    BY <2>2, <2>3, <2>4
<1>10. QED
  BY <1>8, <1>9

\* A block that waits for its first write is behind the end of the file.
LEMMA PendingBehind ==
    ASSUME FSTypeOK, LocalInv, NEW n, NEW k, Pending(n, k)
    PROVE  /\ n \in Inumbers
           /\ k = IndirectPlace => BlocksOf(inode[n].size) <= P
           /\ k # IndirectPlace => k \in Nat /\ BlocksOf(inode[n].size) <= k
           /\ w.position = 0 \/ pc = "indirect"
<1>1. n = w.inumber /\ pc \in {"directData", "indirectData", "indirect"}
  BY DEF Pending
<1>2. Writing
  BY <1>1 DEF Writing
<1> DEFINE blocks == BlocksOf(inode[n].size)
<1>3. /\ n \in Inumbers /\ blocks \in Nat /\ P \in Nat \ {0} /\ w.i \in Nat /\ w.i < P
      /\ w.nd = (IF blocks <= P THEN blocks ELSE P)
      /\ w.ni = (IF blocks <= P THEN 0 ELSE blocks - P)
  BY <1>1, <1>2, WritingFacts, LocalTypes DEF LocalInv
<1> HIDE DEF blocks
<1>4. CASE pc = "directData"
  <2>1. k = w.i /\ w.i >= w.nd /\ w.position = 0
    BY <1>4 DEF Pending, LocalInv
  <2>2. QED
    BY <1>3, <2>1 DEF IndirectPlace, blocks
<1>5. CASE pc = "indirectData"
  <2>1. k = P + w.i /\ w.i >= w.ni /\ w.position = 0
    BY <1>5 DEF Pending, LocalInv
  <2>2. QED
    BY <1>3, <2>1 DEF IndirectPlace, blocks
<1>6. CASE pc = "indirect"
  <2>1. k = IndirectPlace /\ w.ni = 0
    BY <1>6 DEF Pending
  <2>2. QED
    BY <1>3, <1>6, <2>1 DEF blocks
<1>7. QED
  BY <1>1, <1>4, <1>5, <1>6

\* A command begins or ends.
LEMMA PlainStep ==
    ASSUME StrongInv, FSTypeOK',
           \/ Format
           \/ Create
           \/ UpdateSize \/ SetSize
           \/ Restart \/ ReadChunk \/ (Chunk /\ pc' = "idle")
           \/ \E n \in Inumbers : Delete(n) \/ CopyOut(n) \/ \E f \in Files : CopyIn(n, f)
    PROVE  PlacesApart' /\ PlacesLegal' /\ ZeroUnused'
<1>1. FSTypeOK /\ LocalInv /\ PlacesApart /\ PlacesLegal /\ ZeroUnused /\ FewerPlaces
  BY PlainPlaces DEF StrongInv
<1>2. PlacesApart'
  BY <1>1, FewerApart
<1>3. /\ IS_MOUNTED' => IS_MOUNTED /\ BLOCK_MAP \subseteq BLOCK_MAP' \cup {0}
      /\ ~Writing'
      /\ super = "overwritten" => super' = "overwritten"
      /\ pc \notin {"directData", "indirectData", "indirect"} \/ Restart
  <2>1. CASE Format \/ Create \/ Restart \/ ReadChunk \/ (Chunk /\ pc' = "idle")
    BY <2>1 DEF Format, Create, Restart, ReadChunk, Chunk, Writing
  <2>2. CASE UpdateSize \/ SetSize
    BY <2>2 DEF UpdateSize, SetSize, Return, Writing
  <2>3. CASE \E n \in Inumbers : Delete(n) \/ CopyOut(n) \/ \E f \in Files : CopyIn(n, f)
    BY <2>3 DEF Delete, CopyOut, CopyIn, Writing
  <2>4. QED
    BY <2>1, <2>2, <2>3
<1>4. PlacesLegal'
  BY <1>1, <1>3, FewerLegal
<1>5. ASSUME NEW n \in Valid', NEW k \in Places(n)'
      PROVE  ~Pending(n, k)
  <2>1. CASE Restart
    <3>1. Reached' = 0 /\ pc' # "indirect" /\ inode' = inode
      BY <1>3, <2>1 DEF Reached, Writing, Restart
    <3>2. n \in Inumbers /\ BlocksOf(inode[n].size) \in Nat /\ P \in Nat
      BY <1>1, SameTypes, InodeTypes, LocalTypes DEF Valid
    <3>3. Count(n)' = BlocksOf(inode[n].size)
      BY <3>1, <3>2 DEF Count
    <3>4. /\ k \in Nat => k < BlocksOf(inode[n].size)
          /\ k = IndirectPlace => BlocksOf(inode[n].size) > P
      BY <3>1, <3>2, <3>3 DEF Places, IndirectPlace
    <3>5. QED
      BY <1>1, <3>2, <3>4, PendingBehind
  <2>2. CASE pc \notin {"directData", "indirectData", "indirect"}
    BY <2>2 DEF Pending
  <2>3. QED
    BY <1>3, <2>1, <2>2
<1>6. ZeroUnused'
  BY <1>1, <1>3, <1>5, FewerZero
<1>7. QED
  BY <1>2, <1>4, <1>6

\* fs_mount() marks every block that is in use.
LEMMA MountStep ==
    ASSUME StrongInv, FSTypeOK', Mount
    PROVE  PlacesApart' /\ PlacesLegal' /\ ZeroUnused'
<1>1. FSTypeOK /\ LocalInv /\ PlacesApart /\ PlacesLegal /\ ZeroUnused /\ FewerPlaces
  BY PlainPlaces DEF StrongInv
<1>2. PlacesApart'
  BY <1>1, FewerApart
<1>3. ~Writing' /\ ~Writing /\ pc' = pc /\ pc = "idle" /\ UNCHANGED <<super, inode, disk, w>>
  BY DEF Mount, Writing
<1>4. ZeroUnused'
  <2>1. \A n, k : ~Pending(n, k)
    BY <1>3 DEF Pending
  <2>2. QED
    BY <1>1, <1>3, <2>1, FewerZero
<1>5. ASSUME NEW n \in Valid', NEW k \in Places(n)'
      PROVE  /\ PlaceBlock(n, k)' \in Blocks \ (1 .. NInodeBlocks)
             /\ PlaceBlock(n, k)' \in BLOCK_MAP' \cup {0}
  <2>1. n \in Valid /\ n \in Inumbers /\ k \in Places(n) /\ PlaceBlock(n, k)' = PlaceBlock(n, k)
    BY <1>1 DEF FewerPlaces, Valid
  <2>2. Marked(n) \subseteq BLOCK_MAP'
    BY <2>1 DEF Mount, Valid
  <2> DEFINE blocks == BlocksOf(inode[n].size)
  <2>3. /\ inode[n].size \in Nat /\ blocks \in Nat /\ P \in Nat \ {0}
        /\ inode[n].size <= P * B <=> blocks <= P
        /\ P * B \in Nat
    <3>1. inode[n].size \in Nat /\ blocks \in Nat /\ P \in Nat \ {0} /\ B \in Nat
      BY <1>1, <2>1, InodeTypes, LocalTypes
    <3>2. QED
      BY <3>1, BlocksOfFit
  <2>4. Count(n) = blocks
    BY <1>3, <2>3 DEF Count, Reached
  <2> HIDE DEF blocks
  <2>5. k \in 0 .. blocks - 1 \/ (k = IndirectPlace /\ blocks > P)
    BY <1>3, <2>1, <2>4 DEF Places
  <2>6. CASE k \in 0 .. P - 1
    <3>1. PlaceBlock(n, k) = inode[n].direct[k]
      BY <2>3, <2>6 DEF PlaceBlock, BlockAt, IndirectPlace
    <3>2. inode[n].direct[k] \in Marked(n) \cup {0}
      BY <2>6 DEF Marked, Directs
    <3>3. QED
      BY <1>1, <2>1, <2>2, <3>1, <3>2 DEF PlacesLegal
  <2>7. CASE k \in P .. blocks - 1
    <3>1. inode[n].size > P * B
      BY <2>3, <2>7
    <3>2. PlaceBlock(n, k) = BlockAt(n, k)
      BY <2>3, <2>7 DEF PlaceBlock, IndirectPlace
    <3>3. BlockAt(n, k) \in Marked(n)
      BY <2>7, <3>1 DEF Marked, blocks
    <3>4. QED
      BY <1>1, <2>1, <2>2, <3>2, <3>3 DEF PlacesLegal
  <2>8. CASE k = IndirectPlace /\ blocks > P
    <3>1. inode[n].size > P * B
      BY <2>3, <2>8
    <3>2. PlaceBlock(n, k) \in Marked(n)
      BY <2>8, <3>1 DEF Marked, PlaceBlock
    <3>3. QED
      BY <1>1, <2>1, <2>2, <3>2 DEF PlacesLegal
  <2>9. QED
    BY <2>3, <2>5, <2>6, <2>7, <2>8
<1>6. PlacesLegal'
  <2>1. UNCHANGED <<Blocks, NInodeBlocks>>
    BY DEF Blocks, NInodeBlocks
  <2>2. QED
    BY <1>3, <1>5, <2>1 DEF PlacesLegal
<1>7. QED
  BY <1>2, <1>4, <1>6

\* fs_write() begins with every block of the inode marked, for with a superblock
\* none of them is block 0.
LEMMA ChunkStep ==
    ASSUME StrongInv, FSTypeOK', Chunk, pc' # "idle"
    PROVE  PlacesApart' /\ PlacesLegal' /\ ZeroUnused'
<1>1. FSTypeOK /\ LocalInv /\ PlacesApart /\ PlacesLegal /\ ZeroUnused /\ FewerPlaces
  BY ChunkPlaces DEF StrongInv
<1>2. PlacesApart'
  BY <1>1, FewerApart
<1>3. super = "valid" /\ pc = "chunk" /\ IS_MOUNTED /\ UNCHANGED <<super, IS_MOUNTED, BLOCK_MAP>>
  BY <1>1, ChunkLocal DEF Chunk, LocalInv
<1>4. \A n, k : ~Pending(n, k)
  BY <1>3 DEF Pending
<1>5. ZeroUnused'
  BY <1>1, <1>3, <1>4, FewerZero
<1>6. \A n \in Valid' : \A k \in Places(n)' :
          PlaceBlock(n, k)' \in Blocks \ (1 .. NInodeBlocks) /\ PlaceBlock(n, k)' \in BLOCK_MAP
  BY <1>1, <1>3, <1>4 DEF PlacesLegal, ZeroUnused, FewerPlaces
<1>7. PlacesLegal'
  <2>1. UNCHANGED <<Blocks, NInodeBlocks>>
    BY DEF Blocks, NInodeBlocks
  <2>2. QED
    BY <1>3, <1>6, <2>1 DEF PlacesLegal
<1>8. QED
  BY <1>2, <1>5, <1>7

\* A write to block 0 that was waiting for it overwrites the superblock.
LEMMA WriteStep ==
    ASSUME StrongInv, WriteDirect \/ WriteIndirect
    PROVE  PlacesApart' /\ PlacesLegal' /\ ZeroUnused'
<1>1. FSTypeOK /\ LocalInv /\ PlacesApart /\ PlacesLegal /\ ZeroUnused /\ FewerPlaces /\ Writing
  BY WritePlaces, CurrentIsPlace DEF StrongInv
<1>2. PlacesApart'
  BY <1>1, FewerApart
<1>3. /\ UNCHANGED <<IS_MOUNTED, BLOCK_MAP>>
      /\ pc = "indirect" => w.i + 1 <= w.ni
      /\ Passes \/ \E n \in Nat : Writes(CurrentBlock, n)
  BY <1>1, WriteRound
<1>4. PlacesLegal'
  BY <1>1, <1>3, FewerLegal
<1>5. super = "overwritten" => super' = "overwritten"
  BY <1>3 DEF Passes, Writes
<1>6. ASSUME NEW n, NEW k, Pending(n, k), PlaceBlock(n, k) = 0
      PROVE  super' = "overwritten"
  <2>1. w.i \in Nat /\ w.ni \in Nat /\ B \in Nat \ {0} /\ P \in Nat
    BY <1>1, LocalTypes
  <2>2. pc # "indirect" /\ n = w.inumber /\ k = Current
    BY <1>3, <1>6, <2>1 DEF Pending, Current
  <2>3. w.position = 0 /\ CurrentBlock = 0
    BY <1>1, <1>6, <2>2, PendingBehind DEF CurrentBlock
  <2>4. ~Passes
    BY <2>1, <2>3 DEF Passes
  <2>5. PICK c \in Nat : Writes(CurrentBlock, c)
    BY <1>3, <2>4
  <2>6. QED
    BY <2>3, <2>5 DEF Writes
<1>7. ZeroUnused'
  BY <1>1, <1>5, <1>6, FewerZero
<1>8. QED
  BY <1>2, <1>4, <1>7

\* A full disk leaves an indirect block that was never written to behind the end.
LEMMA KeepStep ==
    ASSUME StrongInv, KeepTable \/ DiskFull
    PROVE  PlacesApart' /\ PlacesLegal' /\ ZeroUnused'
<1>1. FSTypeOK /\ LocalInv /\ PlacesApart /\ PlacesLegal /\ ZeroUnused /\ FewerPlaces
  BY KeepPlaces DEF StrongInv
<1>2. PlacesApart'
  BY <1>1, FewerApart
<1>3. /\ UNCHANGED <<super, inode, IS_MOUNTED, BLOCK_MAP, w>> /\ Writing
      /\ (pc = "table" /\ pc' = "indirect") \/ pc' = "updateSize"
      /\ pc \in {"direct", "table", "indirect"}
      /\ pc = "indirect" => pc' = "updateSize"
  BY DEF KeepTable, DiskFull, Writing
<1>4. PlacesLegal'
  BY <1>1, <1>3, FewerLegal
<1>5. ASSUME NEW n \in Valid', NEW k \in Places(n)', Pending(n, k)
      PROVE  FALSE
  <2> DEFINE blocks == BlocksOf(inode[n].size)
  <2>1. pc = "indirect" /\ w.i = 0 /\ w.ni = 0 /\ k = IndirectPlace /\ n = w.inumber
        /\ pc' = "updateSize"
    BY <1>3, <1>5 DEF Pending
  <2>2. blocks <= P /\ n \in Inumbers /\ blocks \in Nat /\ P \in Nat /\ B \in Nat
    BY <1>1, <1>5, <2>1, PendingBehind, InodeTypes, LocalTypes
  <2>3. Current = P
    BY <2>1, <2>2 DEF Current
  <2>4. w.position = 0 /\ w.offset + w.written = Current * B + w.position
    BY <1>1, <2>1, <2>2, <2>3, CurrentPosition, PositionBehindEnd
  <2>5. w.offset + w.written \in Nat /\ w.offset + w.written <= P * B
    BY <1>1, <2>2, <2>3, <2>4, LocalTypes
  <2>6. BlocksOf(w.offset + w.written) <= P
    BY <2>2, <2>5, BlocksOfFit
  <2>7. Count(n)' <= P
    BY <1>3, <2>1, <2>2, <2>6 DEF Count, Reached
  <2>8. Count(n)' \in Nat
    BY <1>3, <2>1, <2>2, <2>5, BlocksOfSize DEF Count, Reached
  <2>9. QED
    BY <2>1, <2>2, <2>7, <2>8 DEF Places, IndirectPlace
<1>6. ZeroUnused'
  BY <1>1, <1>3, <1>5, FewerZero
<1>7. QED
  BY <1>2, <1>4, <1>6

\* A block that is handed out is nobody's.
LEMMA AllocStep ==
    ASSUME StrongInv, MapInv, AllocDirect \/ AllocTable \/ AllocPointer
    PROVE  PlacesApart' /\ PlacesLegal' /\ ZeroUnused'
<1>1. FSTypeOK /\ LocalInv /\ PlacesApart /\ PlacesLegal /\ ZeroUnused
      /\ Writing /\ IS_MOUNTED /\ 1 .. NInodeBlocks \subseteq BLOCK_MAP
  BY DEF StrongInv, MapInv, AllocDirect, AllocTable, AllocPointer, Writing, LocalInv
<1>2. PICK m, place, b :
          /\ b \in Blocks \ BLOCK_MAP
          /\ BLOCK_MAP' = BLOCK_MAP \cup {b}
          /\ OnePlaceMore(m, place, b)
          /\ m = w.inumber
          /\ \/ AllocDirect /\ place = w.i
             \/ AllocTable /\ place = IndirectPlace
             \/ AllocPointer /\ place = P + w.i
  BY AllocDirectPlaces, AllocTablePlaces, AllocPointerPlaces
<1>3. Pending(m, place)'
  <2>1. w' = w
    BY DEF AllocDirect, AllocTable, AllocPointer
  <2>2. CASE AllocDirect /\ place = w.i
    BY <1>2, <2>1, <2>2 DEF Pending, AllocDirect
  <2>3. CASE AllocTable /\ place = IndirectPlace
    <3>1. pc' = "indirect" /\ w.i = 0 /\ w.ni <= 0 /\ w.ni \in Nat
      BY <1>1, <2>3, LocalTypes DEF AllocTable, LocalInv
    <3>2. w.ni = 0
      BY <3>1
    <3>3. QED
      BY <1>2, <2>1, <2>3, <3>1, <3>2 DEF Pending
  <2>4. CASE AllocPointer /\ place = P + w.i
    BY <1>2, <2>1, <2>4 DEF Pending, AllocPointer
  <2>5. QED
    BY <1>2, <2>2, <2>3, <2>4
<1>4. /\ super = "overwritten" => super' = "overwritten"
      /\ \A n \in Valid : \A k \in Places(n) :
             Pending(n, k) /\ PlaceBlock(n, k) = 0 => super' = "overwritten"
  BY DEF AllocDirect, AllocTable, AllocPointer, Pending, PlaceBlock
<1>5. PlacesApart'
  BY <1>1, <1>2, MoreApart
<1>6. PlacesLegal'
  BY <1>1, <1>2, MoreLegal
<1>7. ZeroUnused'
  BY <1>1, <1>2, <1>3, <1>4, MoreZero
<1>8. QED
  BY <1>5, <1>6, <1>7
-----------------------------------------------------------------------------
(* Contents *)

\* What is promised of a file is in places of it, none of which waits for its
\* first write.
LEMMA DataPlaces ==
    ASSUME FSTypeOK, LocalInv, NEW n \in Valid
    PROVE  /\ n \in Inumbers
           /\ End(n) \in Nat /\ inode[n].size \in Nat /\ inode[n].size <= End(n)
           /\ End(n) <= MaxSize
           /\ \A k \in 0 .. End(n) - 1 :
                  /\ k \in Nat /\ k \div B \in Nat
                  /\ k \div B \in Places(n)
                  /\ /\ n = w.inumber
                     /\ pc \in {"direct", "directData", "table", "indirect", "indirectData"}
                     /\ BlocksOf(inode[n].size) <= Current
                     => k \div B < Current
<1> DEFINE size == inode[n].size
           blocks == BlocksOf(size)
           end == w.offset + w.written
<1>1. /\ n \in Inumbers /\ size \in Nat /\ size <= MaxSize /\ MaxSize \in Nat
      /\ blocks \in Nat /\ size <= blocks * B
      /\ blocks <= Count(n) /\ Count(n) \in Nat
      /\ end \in Nat /\ Reached \in Nat
      /\ P \in Nat \ {0} /\ B \in Nat \ {0}
  <2>1. n \in Inumbers
    BY DEF Valid
  <2>2. size \in 0 .. MaxSize /\ size \in Nat
    BY <2>1, InodeTypes
  <2>3. P \in Nat \ {0} /\ B \in Nat \ {0} /\ end \in Nat /\ Reached \in Nat
    BY LocalTypes
  <2>4. MaxSize \in Nat
    BY <2>3 DEF MaxSize
  <2>5. blocks \in Nat /\ size <= blocks * B
    BY <2>2, BlocksOfSize
  <2>6. blocks <= Count(n) /\ Count(n) \in Nat
    BY <2>1, PlaceNumbers
  <2> HIDE DEF blocks, size
  <2>7. size <= MaxSize
    BY <2>2, <2>4
  <2>8. QED
    BY <2>1, <2>2, <2>3, <2>4, <2>5, <2>6, <2>7
<1>2. End(n) = IF n = w.inumber /\ Writing /\ end > size THEN end ELSE size
  BY DEF End
<1> HIDE DEF blocks, size, end
<1>3. End(n) \in Nat /\ size <= End(n) /\ End(n) <= MaxSize
  <2>1. Writing => end <= MaxSize
    BY DEF LocalInv, end
  <2>2. QED
    BY <1>1, <1>2, <2>1
<1>4. ASSUME NEW c \in Nat, End(n) <= c * B, NEW k \in 0 .. End(n) - 1
      PROVE  k \in Nat /\ k \div B \in Nat /\ k \div B < c
  <2>1. k \in Nat /\ k < c * B
    <3>1. c * B \in Nat
      BY <1>1
    <3>2. QED
      BY <1>3, <1>4, <3>1
  <2> DEFINE d == k \div B
             r == k % B
  <2>2. d \in Nat /\ r \in 0 .. B - 1 /\ k = d * B + r
    BY <2>1, CellOfFile DEF Cells
  <2> HIDE DEF d, r
  <2>3. d >= c => d * B >= c * B
    BY <1>1, <2>2, <1>4, Monotone
  <2>4. d * B \in Nat /\ c * B \in Nat
    BY <1>1, <1>4, <2>2
  <2>5. d < c
    BY <1>1, <2>1, <2>2, <2>3, <2>4
  <2>6. QED
    BY <2>1, <2>2, <2>5 DEF d
<1>5. ASSUME n = w.inumber,
             pc \in {"direct", "directData", "table", "indirect", "indirectData"},
             blocks <= Current
      PROVE  End(n) <= Current * B /\ Current \in Nat
  <2>1. w.position = 0 /\ end = Current * B + w.position /\ Current \in Nat
    BY <1>5, CurrentPosition, PositionBehindEnd DEF blocks, size, end
  <2>2. blocks * B <= Current * B
    BY <1>1, <1>5, <2>1, Monotone
  <2>3. Current * B \in Nat /\ blocks * B \in Nat
    BY <1>1, <2>1
  <2>4. QED
    BY <1>1, <1>2, <2>1, <2>2, <2>3
<1>6. End(n) <= Count(n) * B
  <2>1. CASE End(n) = size
    <3>1. blocks * B <= Count(n) * B
      BY <1>1, Monotone
    <3>2. blocks * B \in Nat /\ Count(n) * B \in Nat
      BY <1>1
    <3>3. QED
      BY <1>1, <2>1, <3>1, <3>2
  <2>2. CASE End(n) # size
    <3>1. n = w.inumber /\ Writing /\ end > size /\ End(n) = end
      BY <1>2, <2>2
    <3>2. Reached <= Count(n)
      BY <1>1, <3>1 DEF Count, blocks, size
    <3>3. CASE pc \in {"updateSize", "setSize"}
      <4>1. end <= Reached * B
        BY <1>1, <3>3, BlocksOfSize DEF Reached, end
      <4>2. Reached * B <= Count(n) * B
        BY <1>1, <3>2, Monotone
      <4>3. Reached * B \in Nat /\ Count(n) * B \in Nat
        BY <1>1
      <4>4. QED
        BY <1>1, <3>1, <4>1, <4>2, <4>3
    <3>4. CASE pc \in {"direct", "directData", "table", "indirect", "indirectData"}
      <4>1. Current \in Nat /\ end = Current * B + w.position /\ w.position \in Nat
            /\ (pc = "table" => Current = P) /\ w.i \in Nat
        BY <3>4, CurrentPosition, LocalTypes DEF end
      <4>2. w.position = 0
        <5>1. w.position > 0 => w.written = 0
          BY <3>1, <3>4 DEF LocalInv
        <5>2. w.offset <= size /\ w.offset \in Nat
          BY <3>1, LocalTypes DEF LocalInv, size
        <5>3. QED
          BY <1>1, <3>1, <4>1, <5>1, <5>2 DEF end
      <4>3. Current <= Reached
        BY <1>1, <3>4, <4>1 DEF Current, Reached
      <4>4. Current * B <= Count(n) * B
        BY <1>1, <3>2, <4>1, <4>3, Monotone
      <4>5. Current * B \in Nat /\ Count(n) * B \in Nat
        BY <1>1, <4>1
      <4>6. QED
        BY <3>1, <4>1, <4>2, <4>4, <4>5
    <3>5. QED
      BY <3>1, <3>3, <3>4 DEF Writing
  <2>3. QED
    BY <2>1, <2>2
<1>7. ASSUME NEW k \in 0 .. End(n) - 1
      PROVE  k \in Nat /\ k \div B \in Nat /\ k \div B \in Places(n)
  <2>1. k \in Nat /\ k \div B \in Nat /\ k \div B < Count(n)
    BY <1>1, <1>4, <1>6
  <2>2. QED
    BY <1>1, <2>1 DEF Places
<1>8. QED
  BY <1>1, <1>3, <1>4, <1>5, <1>7 DEF size, blocks

\* A step that changes neither the data nor the blocks where it is
LEMMA SameData ==
    ASSUME DataInPlace,
           \A n \in Valid' :
               \/ End(n)' = 0
               \/ /\ n \in Valid
                  /\ End(n) \in Nat /\ End(n)' \in Nat /\ End(n)' <= End(n)
                  /\ contents'[n] = contents[n]
                  /\ \A k \in 0 .. End(n) - 1 :
                         disk'[BlockAt(n, k \div B)'].cells = disk[BlockAt(n, k \div B)].cells
    PROVE  DataInPlace'
<1> SUFFICES ASSUME NEW n \in Valid', NEW k \in 0 .. End(n)' - 1
             PROVE  disk'[BlockAt(n, k \div B)'].cells[k % B] = contents'[n][k]
  BY DEF DataInPlace
<1>1. End(n)' # 0
  OBVIOUS
<1>2. /\ n \in Valid /\ k \in 0 .. End(n) - 1 /\ contents'[n] = contents[n]
      /\ disk'[BlockAt(n, k \div B)'].cells = disk[BlockAt(n, k \div B)].cells
  BY <1>1
<1>3. QED
  BY <1>2 DEF DataInPlace

\* ... because it leaves the blocks of the disk as they are.
LEMMA SameDisk ==
    ASSUME StrongInv, UNCHANGED disk,
           \A n \in Valid' :
               \/ End(n)' = 0
               \/ /\ n \in Valid
                  /\ inode'[n].direct = inode[n].direct
                  /\ inode'[n].indirect = inode[n].indirect
                  /\ End(n)' \in Nat /\ End(n)' <= End(n)
                  /\ contents'[n] = contents[n]
    PROVE  DataInPlace'
<1>1. FSTypeOK /\ LocalInv /\ DataInPlace
  BY DEF StrongInv
<1>2. \A n \in Valid : End(n) \in Nat
  BY <1>1, DataPlaces
<1>3. \A n \in Valid' : End(n)' # 0 => \A j : BlockAt(n, j)' = BlockAt(n, j)
  BY DEF BlockAt
<1>4. QED
  BY <1>1, <1>2, <1>3, SameData

\* A command begins, ends or goes on.
LEMMA PlainData ==
    ASSUME StrongInv,
           \/ Format
           \/ Create
           \/ UpdateSize \/ SetSize
           \/ Mount \/ Restart \/ ReadChunk \/ Chunk
           \/ \E n \in Inumbers : Delete(n) \/ CopyOut(n) \/ \E f \in Files : CopyIn(n, f)
           \/ KeepTable \/ DiskFull
    PROVE  DataInPlace'
<1>1. FSTypeOK /\ LocalInv /\ DataInPlace
  BY DEF StrongInv
<1>2. \A n \in Valid : /\ n \in Inumbers
                       /\ End(n) \in Nat /\ inode[n].size \in Nat /\ inode[n].size <= End(n)
  BY <1>1, DataPlaces
<1>3. CASE Format
  BY <1>1, <1>3, FormatInvalid DEF DataInPlace
<1>4. CASE Create
  <2>1. PICK new : inode' = [inode EXCEPT ![new] = [EmptyInode EXCEPT !.isvalid = TRUE]]
    BY <1>4 DEF Create
  <2>2. ~Writing' /\ UNCHANGED <<disk, contents>>
    BY <1>4 DEF Create, Writing
  <2>3. ASSUME NEW n \in Valid'
        PROVE  \/ inode'[n].size = 0
               \/ n \in Valid /\ inode'[n] = inode[n]
    BY <1>1, <2>1, <2>3, SameTypes DEF Valid, FSTypeOK, EmptyInode
  <2>4. \A n : End(n)' = inode'[n].size
    BY <2>2 DEF End
  <2>5. QED
    BY <1>2, <2>2, <2>3, <2>4, SameDisk
<1>5. CASE UpdateSize \/ SetSize
  <2>1. /\ ~Writing' /\ Writing /\ UNCHANGED <<disk, contents>>
        /\ w.inumber \in Inumbers
        /\ inode' = [inode EXCEPT ![w.inumber].size =
                        IF w.offset + w.written > inode[w.inumber].size
                          THEN w.offset + w.written ELSE inode[w.inumber].size]
    BY <1>5, SizeLocal DEF UpdateSize, SetSize, Writing
  <2> DEFINE new == IF w.offset + w.written > inode[w.inumber].size
                      THEN w.offset + w.written ELSE inode[w.inumber].size
  <2>2. End(w.inumber) = new
    BY <2>1 DEF End
  <2> HIDE DEF new
  <2>3. inode' = [inode EXCEPT ![w.inumber].size = new]
    BY <2>1 DEF new
  <2>4. \A n \in Valid' : /\ n \in Valid
                          /\ inode'[n].direct = inode[n].direct
                          /\ inode'[n].indirect = inode[n].indirect
                          /\ inode'[n].size = IF n = w.inumber THEN new ELSE inode[n].size
    BY <1>1, <2>1, <2>3, SameTypes DEF Valid, FSTypeOK, InodeType
  <2>5. \A n : End(n)' = inode'[n].size
    BY <2>1 DEF End
  <2>6. \A n \in Valid' : End(n)' = End(n)
    BY <2>2, <2>4, <2>5 DEF End
  <2>7. QED
    BY <1>2, <2>1, <2>4, <2>6, SameDisk
<1>6. CASE \/ Mount \/ Restart \/ ReadChunk \/ Chunk
           \/ \E n \in Inumbers : Delete(n) \/ CopyOut(n) \/ \E f \in Files : CopyIn(n, f)
           \/ KeepTable \/ DiskFull
  <2>1. /\ UNCHANGED disk
        /\ \/ UNCHANGED <<inode, contents>>
           \/ \E n \in Inumbers : /\ inode' = [inode EXCEPT ![n] = EmptyInode]
                                  /\ contents' = [contents EXCEPT ![n] = NoFile]
    BY <1>6 DEF Mount, Restart, ReadChunk, Chunk, Delete, CopyOut, CopyIn, KeepTable, DiskFull
  <2>2. \A n \in Valid' : n \in Valid /\ inode'[n] = inode[n] /\ contents'[n] = contents[n]
    BY <1>1, <2>1, EmptyTypes, SameTypes DEF Valid, FSTypeOK
  <2>3. ASSUME NEW n \in Valid'
        PROVE  End(n)' \in {End(n), inode[n].size}
    <3>1. CASE KeepTable \/ DiskFull
      BY <2>2, <3>1 DEF KeepTable, DiskFull, End, Writing
    <3>2. CASE Chunk /\ pc' # "idle"
      <4>1. w'.inumber = w.inumber /\ w'.offset + w'.written <= inode[w.inumber].size
            /\ w' \in LocalType /\ inode' = inode
        BY <3>2, ChunkLocal, SameTypes DEF Chunk, FSTypeOK
      <4>2. w'.offset + w'.written \in Nat /\ inode[n].size \in Nat
        BY <1>2, <2>2, <4>1 DEF LocalType
      <4>3. QED
        BY <4>1, <4>2 DEF End
    <3>3. CASE ~Writing'
      BY <2>2, <3>3 DEF End
    <3>4. QED
      BY <1>6, <3>1, <3>2, <3>3
      DEF Mount, Restart, ReadChunk, Chunk, Delete, CopyOut, CopyIn, Writing
  <2>4. QED
    BY <1>2, <2>1, <2>2, <2>3, SameDisk
<1>7. QED
  BY <1>3, <1>4, <1>5, <1>6

\* What is handed out is no place of data yet, and an indirect block has none.
LEMMA AllocData ==
    ASSUME StrongInv, AllocDirect \/ AllocTable \/ AllocPointer
    PROVE  DataInPlace'
<1>1. FSTypeOK /\ LocalInv /\ DataInPlace /\ PlacesApart
  BY DEF StrongInv
<1>2. PICK m, place, b :
          /\ OnePlaceMore(m, place, b)
          /\ m = w.inumber
          /\ \/ AllocDirect /\ place = w.i
             \/ AllocTable /\ place = IndirectPlace
             \/ AllocPointer /\ place = P + w.i
  BY AllocDirectPlaces, AllocTablePlaces, AllocPointerPlaces
<1>3. /\ UNCHANGED <<w, contents>> /\ Writing /\ Writing'
      /\ pc \in {"direct", "table", "indirect"}
      /\ pc = "direct" => AllocDirect /\ w.i + 1 > w.nd /\ pc' = "directData"
      /\ pc = "table" => AllocTable /\ w.ni <= 0 /\ pc' = "indirect" /\ w.i = 0
      /\ pc = "indirect" => AllocPointer /\ w.i + 1 > w.ni /\ pc' = "indirectData"
  BY <1>1, <1>2 DEF AllocDirect, AllocTable, AllocPointer, Writing, LocalInv
<1> DEFINE blocks == BlocksOf(inode[w.inumber].size)
<1>4. /\ w.inumber \in Inumbers /\ w.inumber \in Valid
      /\ w.i \in Nat /\ w.i < P /\ P \in Nat \ {0} /\ blocks \in Nat
      /\ w.nd = (IF blocks <= P THEN blocks ELSE P)
      /\ w.ni = (IF blocks <= P THEN 0 ELSE blocks - P)
      /\ Reached \in Nat
  BY <1>1, <1>3, LocalTypes, WritingFacts DEF LocalInv
<1>5. blocks <= Current /\ Current \in Nat
  BY <1>3, <1>4 DEF Current
<1>6. /\ Valid' = Valid
      /\ \A n \in Inumbers : inode'[n].size = inode[n].size
  <2>1. CASE pc = "direct"
    <3>1. PICK c \in Blocks : SetDirect(w.inumber, w.i, c)
      BY <1>3, <2>1 DEF AllocDirect, Free, SetDirect
    <3>2. QED
      BY <1>1, <1>4, <3>1, DirectType
  <2>2. CASE pc = "table"
    <3>1. PICK c \in Blocks : inode' = [inode EXCEPT ![w.inumber].indirect = c]
      BY <1>3, <2>2 DEF AllocTable, Free
    <3>2. QED
      BY <1>1, <1>4, <3>1, SameTypes DEF FSTypeOK, InodeType, Valid
  <2>3. CASE pc = "indirect"
    BY <1>3, <2>3, SameTypes DEF AllocPointer, Valid
  <2>4. QED
    BY <1>3, <2>1, <2>2, <2>3
<1> HIDE DEF blocks
<1>7. ASSUME NEW n \in Valid
      PROVE  /\ End(n)' = End(n) /\ End(n) \in Nat
             /\ \A k \in 0 .. End(n) - 1 :
                    disk'[BlockAt(n, k \div B)'].cells = disk[BlockAt(n, k \div B)].cells
  <2>1. End(n)' = End(n) /\ End(n) \in Nat /\ n \in Inumbers
    BY <1>1, <1>3, <1>6, DataPlaces DEF End
  <2>2. Count(n) \in Nat /\ Count(n)' >= Count(n) /\ Count(n)' \in Nat
    <3>1. Reached' >= Reached /\ Reached' \in Nat
      BY <1>3, <1>4 DEF Reached
    <3>2. BlocksOf(inode[n].size) \in Nat /\ inode'[n].size = inode[n].size
      BY <1>1, <1>6, <2>1, InodeTypes
    <3>3. QED
      BY <1>3, <1>4, <3>1, <3>2 DEF Count
  <2>3. ASSUME NEW k \in 0 .. End(n) - 1
        PROVE  disk'[BlockAt(n, k \div B)'].cells = disk[BlockAt(n, k \div B)].cells
    <3> DEFINE j == k \div B
    <3>1. j \in Nat /\ j \in Places(n) /\ (n = w.inumber => j < Current)
      BY <1>1, <1>3, <1>5, DataPlaces DEF blocks
    <3> HIDE DEF j
    <3>2. j \in Places(n)' /\ j # IndirectPlace
      BY <2>1, <2>2, <3>1, <1>1, PlaceNumbers DEF Places, IndirectPlace
    <3>3. ~(n = m /\ j = place)
      <4>1. /\ AllocDirect => pc = "direct"
            /\ AllocTable => pc = "table"
            /\ AllocPointer => pc = "indirect"
        BY DEF AllocDirect, AllocTable, AllocPointer
      <4>2. place = Current \/ place = IndirectPlace
        BY <1>2, <4>1 DEF Current
      <4>3. QED
        BY <1>2, <1>5, <3>1, <3>2, <4>2
    <3>4. PlaceBlock(n, j)' = PlaceBlock(n, j)
      BY <1>2, <1>6, <3>2, <3>3 DEF OnePlaceMore
    <3>5. BlockAt(n, j)' = BlockAt(n, j) /\ BlockAt(n, j) = PlaceBlock(n, j)
      BY <3>2, <3>4 DEF PlaceBlock
    <3>6. disk'[PlaceBlock(n, j)] = disk[PlaceBlock(n, j)]
      <4>1. CASE pc \in {"direct", "table"}
        BY <1>3, <4>1 DEF AllocDirect, AllocTable
      <4>2. CASE pc = "indirect"
        <5>1. IndirectPlace \in Places(w.inumber)
          BY <1>1, <1>4, <4>2, PlaceNumbers
        <5>2. PlaceBlock(n, j) # PlaceBlock(w.inumber, IndirectPlace)
          BY <1>1, <1>4, <3>1, <3>2, <5>1 DEF PlacesApart
        <5>3. PlaceBlock(n, j) # inode[w.inumber].indirect
          BY <5>2 DEF PlaceBlock
        <5>4. PICK c : disk' = [disk EXCEPT ![inode[w.inumber].indirect] = c]
          BY <1>3, <4>2 DEF AllocPointer
        <5>5. PlaceBlock(n, j) \in Blocks
          BY <3>1 DEF StrongInv, PlacesLegal
        <5>6. QED
          BY <1>1, <5>3, <5>4, <5>5 DEF FSTypeOK
      <4>3. QED
        BY <1>3, <4>1, <4>2
    <3>7. disk'[BlockAt(n, j)'].cells = disk[BlockAt(n, j)].cells
      BY <3>5, <3>6
    <3>8. QED
      BY <3>7 DEF j
  <2>4. QED
    BY <2>1, <2>3
<1>8. QED
  BY <1>1, <1>3, <1>6, <1>7, SameData

\* The cells that are written are the file's next ones, and lie in no other place.
LEMMA WriteData ==
    ASSUME StrongInv, WriteDirect \/ WriteIndirect
    PROVE  DataInPlace'
<1>1. FSTypeOK /\ LocalInv /\ DataInPlace /\ PlacesApart /\ FSTypeOK' /\ LocalInv'
  BY WriteTypes, WriteLocal DEF StrongInv
<1>2. /\ pc \in {"direct", "directData", "indirect", "indirectData"}
      /\ Passes \/ \E n \in Nat : Writes(CurrentBlock, n)
      /\ w'.inumber = w.inumber /\ w'.offset = w.offset
      /\ UNCHANGED inode
  BY <1>1, WriteRound
<1>3. /\ Current \in Nat /\ Current \in Places(w.inumber) /\ Current # IndirectPlace
      /\ CurrentBlock \in Blocks /\ CurrentBlock = BlockAt(w.inumber, Current)
      /\ w.inumber \in Inumbers /\ w.inumber \in Valid
      /\ w.offset + w.written = Current * B + w.position
      /\ w.offset \in Nat /\ w.written \in Nat /\ w.position \in Nat
      /\ B \in Nat \ {0} /\ P \in Nat
      /\ Writing
  <2>1. Current \in Nat /\ Current # IndirectPlace /\ P \in Nat
    BY <1>1, <1>2, CurrentPosition, LocalTypes DEF IndirectPlace
  <2>2. CurrentBlock = BlockAt(w.inumber, Current)
    BY <2>1 DEF CurrentBlock, PlaceBlock
  <2>3. QED
    BY <1>1, <1>2, <2>1, <2>2, CurrentIsPlace, CurrentPosition, LocalTypes, WritingFacts
<1>4. Valid' = Valid
  BY <1>2, SameTypes DEF Valid
<1>5. ASSUME NEW n \in Valid, NEW k \in 0 .. End(n) - 1
      PROVE  /\ k \div B \in Nat
             /\ BlockAt(n, k \div B)' = BlockAt(n, k \div B)
             /\ BlockAt(n, k \div B) \in Blocks
             /\ BlockAt(n, k \div B) = CurrentBlock => n = w.inumber /\ k \div B = Current
  <2> DEFINE j == k \div B
  <2>1. j \in Nat /\ j \in Places(n) /\ n \in Inumbers
    BY <1>1, DataPlaces
  <2> HIDE DEF j
  <2>2. j # IndirectPlace /\ PlaceBlock(n, j) = BlockAt(n, j)
    BY <2>1 DEF IndirectPlace, PlaceBlock
  <2>3. j >= P => IndirectPlace \in Places(n)
    BY <1>1, <2>1, PlaceNumbers
  <2>4. BlockAt(n, j)' = BlockAt(n, j)
    BY <2>1, <2>3, WriteKeepsBlocks
  <2>5. BlockAt(n, j) \in Blocks
    BY <2>1, <2>2 DEF StrongInv, PlacesLegal
  <2>6. BlockAt(n, j) = CurrentBlock => n = w.inumber /\ j = Current
    BY <1>1, <1>3, <2>1, <2>2 DEF PlacesApart, CurrentBlock
  <2>7. QED
    BY <2>1, <2>4, <2>5, <2>6 DEF j
<1>6. \A n \in Valid : End(n) \in Nat /\ inode[n].size \in Nat /\ End(n) <= MaxSize /\ n \in Inumbers
  BY <1>1, DataPlaces
<1>7. CASE Passes
  <2>1. UNCHANGED <<disk, contents>> /\ w'.written = w.written
    BY <1>7 DEF Passes
  <2>2. \A n : End(n)' = End(n)
    <3>1. Writing'
      BY <1>2, <1>7 DEF Passes, Moves, Writing
    <3>2. QED
      BY <1>2, <1>3, <2>1, <3>1 DEF End
  <2>3. QED
    BY <1>1, <1>4, <1>5, <1>6, <2>1, <2>2, SameData
<1>8. ASSUME NEW c \in Nat, Writes(CurrentBlock, c)
      PROVE  DataInPlace'
  <2> DEFINE from == w.offset + w.written
             b == CurrentBlock
             m == w.inumber
  <2>1. /\ w.position <= B /\ c <= B - w.position
        /\ w'.written = w.written + c
        /\ \A d \in Cells : disk'[b].cells[d] =
               IF d \in w.position .. w.position + c - 1
                 THEN <<w.file, from + d - w.position>> ELSE disk[b].cells[d]
        /\ \A k \in 0 .. MaxSize - 1 : contents'[m][k] =
               IF k \in from .. from + c - 1 THEN <<w.file, k>> ELSE contents[m][k]
        /\ \A n \in Inumbers : n # m => contents'[n] = contents[n]
    <3> DEFINE cells == [d \in Cells |-> IF d \in w.position .. w.position + c - 1
                                           THEN <<w.file, from + d - w.position>>
                                           ELSE disk[b].cells[d]]
               ptrs == IF c = 0 THEN disk[b].ptrs ELSE JunkPtrs
               file == [k \in DOMAIN contents[m] |->
                           IF k \in from .. from + c - 1 THEN <<w.file, k>> ELSE contents[m][k]]
    <3>1. /\ w.position <= B /\ c <= B - w.position
          /\ w'.written = w.written + c
          /\ disk' = [disk EXCEPT ![b].cells = cells, ![b].ptrs = ptrs]
          /\ contents' = [contents EXCEPT ![m] = file]
      BY <1>8 DEF Writes
    <3>2. contents[m] \in [0 .. MaxSize - 1 -> CellValues]
      BY <1>1, <1>3 DEF FSTypeOK
    <3>3. \A d \in Cells : cells[d] = IF d \in w.position .. w.position + c - 1
                                        THEN <<w.file, from + d - w.position>>
                                        ELSE disk[b].cells[d]
      OBVIOUS
    <3>4. \A k \in 0 .. MaxSize - 1 : file[k] = IF k \in from .. from + c - 1
                                                  THEN <<w.file, k>> ELSE contents[m][k]
      BY <3>2
    <3> HIDE DEF cells, ptrs, file, b, m
    <3>5. disk'[b].cells = cells
      BY <1>1, <1>3, <3>1 DEF FSTypeOK, BlockType, b
    <3>6. contents'[m] = file /\ \A n \in Inumbers : n # m => contents'[n] = contents[n]
      BY <1>1, <1>3, <3>1 DEF FSTypeOK, m
    <3>7. QED
      BY <3>1, <3>3, <3>4, <3>5, <3>6
  <2>2. SUFFICES ASSUME NEW n \in Valid', NEW k \in 0 .. End(n)' - 1
                 PROVE  disk'[BlockAt(n, k \div B)'].cells[k % B] = contents'[n][k]
    BY DEF DataInPlace
  <2>3. n \in Valid /\ n \in Inumbers
    BY <1>4, <1>6
  <2>4. Writing'
    BY <1>2, <1>8 DEF Writes, Moves, Writing
  <2>5. End(n)' = IF n = m /\ from + c > inode[n].size THEN from + c ELSE inode[n].size
    BY <1>2, <1>3, <2>1, <2>4 DEF End
  <2>6. End(n) = IF n = m /\ from > inode[n].size THEN from ELSE inode[n].size
    BY <1>3 DEF End
  <2>7. from \in Nat /\ from = Current * B + w.position /\ Current * B \in Nat
    BY <1>3
  <2> HIDE DEF from, b, m
  <2>8. CASE n = m /\ k \in from .. from + c - 1
    <3> DEFINE d == k - Current * B
    <3>1. k \in Nat /\ d \in Cells /\ d \in w.position .. w.position + c - 1
          /\ k = Current * B + d
          /\ from + d - w.position = k
      BY <1>3, <2>1, <2>7, <2>8 DEF Cells
    <3> HIDE DEF d
    <3>2. k \div B = Current /\ k % B = d
      BY <1>3, <3>1, CellOfBlock
    <3>3. BlockAt(n, k \div B)' = b
      <4> DEFINE j == k \div B
      <4>1. j = Current /\ (j >= P => IndirectPlace \in Places(n))
        BY <1>1, <1>3, <2>8, <3>2, PlaceNumbers DEF m
      <4> HIDE DEF j
      <4>2. BlockAt(n, j)' = BlockAt(n, j)
        BY <1>3, <2>3, <4>1, WriteKeepsBlocks
      <4>3. BlockAt(n, j) = b
        BY <1>3, <2>8, <4>1 DEF b, m
      <4>4. QED
        BY <4>2, <4>3 DEF j
    <3>4. k \in 0 .. MaxSize - 1
      <4>1. w'.offset + w'.written <= MaxSize
        BY <1>1, <2>4 DEF LocalInv
      <4>2. from + c <= MaxSize
        BY <1>2, <1>3, <2>1, <4>1 DEF from
      <4>3. MaxSize \in Nat
        BY <1>3 DEF MaxSize
      <4>4. QED
        BY <2>7, <2>8, <4>2, <4>3
    <3>5. contents'[n][k] = <<w.file, k>>
      BY <2>1, <2>8, <3>4
    <3>6. disk'[b].cells[d] = <<w.file, k>>
      BY <2>1, <3>1
    <3>7. disk'[BlockAt(n, k \div B)'].cells[(k % B)] = disk'[b].cells[d]
      BY <3>2, <3>3
    <3>8. QED
      BY <3>5, <3>6, <3>7
  <2>9. CASE ~(n = m /\ k \in from .. from + c - 1)
    <3>1. k \in 0 .. End(n) - 1
      BY <1>6, <2>3, <2>5, <2>6, <2>7, <2>9
    <3>2. disk[BlockAt(n, k \div B)].cells[k % B] = contents[n][k]
      BY <1>1, <2>3, <3>1 DEF DataInPlace
    <3>3. k \in 0 .. MaxSize - 1 /\ k \in Nat
      <4>1. MaxSize \in Nat
        BY <1>3 DEF MaxSize
      <4>2. QED
        BY <1>6, <2>3, <3>1, <4>1
    <3>4. contents'[n][k] = contents[n][k]
      BY <2>1, <2>3, <2>9, <3>3
    <3> DEFINE j == k \div B
               d == k % B
    <3>5. j \in Nat /\ d \in Cells /\ k = j * B + d
      BY <3>3, CellOfFile
    <3>6. /\ BlockAt(n, j)' = BlockAt(n, j)
          /\ BlockAt(n, j) \in Blocks
          /\ BlockAt(n, j) = b => n = m /\ j = Current
      BY <1>5, <2>3, <3>1 DEF b, m
    <3> HIDE DEF j, d
    <3>7. disk'[BlockAt(n, j)].cells[d] = disk[BlockAt(n, j)].cells[d]
      <4>1. CASE BlockAt(n, j) # b
        BY <3>6, <4>1, WriteKeeps DEF b
      <4>2. CASE BlockAt(n, j) = b
        <5>1. n = m /\ k = Current * B + d
          BY <3>5, <3>6, <4>2
        <5>2. d \notin w.position .. w.position + c - 1
          <6>1. d \in Int
            BY <1>3, <3>5 DEF Cells
          <6>2. QED
            BY <1>3, <2>7, <2>9, <3>3, <5>1, <6>1
        <5>3. QED
          BY <2>1, <3>5, <4>2, <5>2
      <4>3. QED
        BY <4>1, <4>2
    <3>8. disk'[BlockAt(n, j)'].cells[d] = contents'[n][k]
      BY <3>2, <3>4, <3>6, <3>7 DEF j, d
    <3>9. QED
      BY <3>8 DEF j, d
  <2>10. QED
    BY <2>8, <2>9
<1>9. QED
  BY <1>2, <1>7, <1>8

-----------------------------------------------------------------------------
(* The theorems about all blocks *)

\* On a new disk there is no file.
LEMMA InitStrong ==
    ASSUME Init
    PROVE  StrongInv
<1>1. FSTypeOK
  <2>1. [cells |-> JunkCells, ptrs |-> JunkPtrs] \in BlockType
    BY EmptyTypes DEF BlockType
  <2>2. QED
    BY <2>1, EmptyTypes DEF Init, FSTypeOK
<1>2. Valid = {}
  BY EmptyTypes DEF Init, Valid
<1>3. LocalInv
  BY <1>2 DEF Init, LocalInv, Writing
<1>4. QED
  BY <1>1, <1>2, <1>3 DEF StrongInv, PlacesApart, PlacesLegal, ZeroUnused, DataInPlace

\* A step that changes nothing
LEMMA StutterStrong ==
    ASSUME StrongInv, UNCHANGED vars
    PROVE  PlacesApart' /\ PlacesLegal' /\ ZeroUnused' /\ DataInPlace'
<1>1. UNCHANGED <<super, inode, disk, IS_MOUNTED, BLOCK_MAP, pc, w, contents>>
  BY DEF vars
<1>2. UNCHANGED <<Blocks, NInodeBlocks, Valid, Writing, Reached>>
  BY <1>1, SameTypes DEF Blocks, NInodeBlocks, Valid, Writing, Reached
<1>3. \A n : Count(n)' = Count(n) /\ End(n)' = End(n)
  BY <1>1, <1>2 DEF Count, End
<1>4. \A n : Places(n)' = Places(n) /\ \A k : PlaceBlock(n, k)' = PlaceBlock(n, k)
  BY <1>1, <1>3 DEF Places, PlaceBlock, BlockAt
<1>5. \A n, k : Pending(n, k)' <=> Pending(n, k)
  BY <1>1 DEF Pending
<1>6. \A n, j : BlockAt(n, j)' = BlockAt(n, j)
  BY <1>1 DEF BlockAt
<1>7. PlacesApart' /\ PlacesLegal' /\ ZeroUnused'
  BY <1>1, <1>2, <1>4, <1>5 DEF StrongInv, PlacesApart, PlacesLegal, ZeroUnused
<1>8. DataInPlace'
  BY <1>1, <1>2, <1>3, <1>6 DEF StrongInv, DataInPlace
<1>9. QED
  BY <1>7, <1>8

\* No disk write, crash or command breaks it.
LEMMA StepStrong ==
    ASSUME StrongInv, MapInv, [Next]_vars
    PROVE  StrongInv'
<1>1. FSTypeOK' /\ LocalInv'
  BY LocalStep
<1>2. CASE UNCHANGED vars
  BY <1>1, <1>2, StutterStrong DEF StrongInv
<1>3. CASE \/ Format
           \/ Create
           \/ UpdateSize \/ SetSize
           \/ Restart \/ ReadChunk \/ (Chunk /\ pc' = "idle")
           \/ \E n \in Inumbers : Delete(n) \/ CopyOut(n) \/ \E f \in Files : CopyIn(n, f)
  <2>1. PlacesApart' /\ PlacesLegal' /\ ZeroUnused'
    BY <1>1, <1>3, PlainStep
  <2>2. DataInPlace'
    BY <1>3, PlainData
  <2>3. QED
    BY <1>1, <2>1, <2>2 DEF StrongInv
<1>4. CASE Mount
  BY <1>1, <1>4, MountStep, PlainData DEF StrongInv
<1>5. CASE Chunk /\ pc' # "idle"
  BY <1>1, <1>5, ChunkStep, PlainData DEF StrongInv
<1>6. CASE WriteDirect \/ WriteIndirect
  BY <1>1, <1>6, WriteStep, WriteData DEF StrongInv
<1>7. CASE KeepTable \/ DiskFull
  BY <1>1, <1>7, KeepStep, PlainData DEF StrongInv
<1>8. CASE AllocDirect \/ AllocTable \/ AllocPointer
  BY <1>1, <1>8, AllocStep, AllocData DEF StrongInv
<1>9. QED
  BY <1>2, <1>3, <1>4, <1>5, <1>6, <1>7, <1>8 DEF Next, Write

\* What holds of all blocks, in use or in the middle of being written, and of the
\* direct pointers, also of those behind the end of a file
THEOREM StrongInvariant == Spec => [](FSInv /\ StrongInv)
<1>1. Init => FSInv /\ StrongInv
  BY InitFS, InitStrong
<1>2. FSInv /\ StrongInv /\ [Next]_vars => (FSInv /\ StrongInv)'
  BY StepFS, StepStrong DEF FSInv
<1>3. QED
  BY <1>1, <1>2, PTL DEF Spec, SafeSpec

\* The place of the proof that a use of a block is
PlaceOf(u) == IF u[2] = "data" THEN u[3] ELSE IndirectPlace

\* It is one that is counted, and has the same block.
LEMMA UsePlaces ==
    ASSUME FSTypeOK, NEW u \in AllUses
    PROVE  /\ u = <<u[1], u[2], u[3]>>
           /\ u[1] \in Valid
           /\ u[2] = "data" \/ (u[2] = "indirect" /\ u[3] = 0)
           /\ u[2] = "data" => u[3] # IndirectPlace
           /\ PlaceOf(u) \in Places(u[1])
           /\ BlockOf(u) = PlaceBlock(u[1], PlaceOf(u))
<1>1. PICK n \in Valid : u \in Uses(n)
  BY DEF AllUses
<1> DEFINE count == BlocksOf(inode[n].size)
<1>2. n \in Inumbers
  BY DEF Valid
<1>3. /\ count \in Nat /\ P \in Nat /\ count <= Count(n) /\ Count(n) \in Nat
      /\ IndirectPlace \in Places(n) <=> Count(n) > P \/ (n = w.inumber /\ pc = "indirect")
      /\ \A k \in Nat : k < Count(n) <=> k \in Places(n)
  BY <1>2, InodeTypes, LocalTypes, PlaceNumbers
<1>4. \/ \E k \in 0 .. count - 1 : u = <<n, "data", k>>
      \/ count > P /\ u = <<n, "indirect", 0>>
  BY <1>1 DEF Uses
<1> HIDE DEF count
<1>5. ASSUME NEW k \in 0 .. count - 1, u = <<n, "data", k>>
      PROVE  /\ u[1] = n /\ u[2] = "data" /\ u[3] = k
             /\ k # IndirectPlace /\ k \in Places(n)
  BY <1>3, <1>5 DEF IndirectPlace
<1>6. ASSUME count > P, u = <<n, "indirect", 0>>
      PROVE  /\ u[1] = n /\ u[2] = "indirect" /\ u[3] = 0
             /\ IndirectPlace \in Places(n)
  BY <1>3, <1>6
<1>7. CASE \E k \in 0 .. count - 1 : u = <<n, "data", k>>
  <2>1. PICK k \in 0 .. count - 1 : u = <<n, "data", k>>
    BY <1>7
  <2>2. u[1] = n /\ u[2] = "data" /\ u[3] = k /\ k # IndirectPlace /\ k \in Places(n)
    BY <1>5, <2>1
  <2>3. PlaceOf(u) = k /\ BlockOf(u) = BlockAt(n, k) /\ PlaceBlock(n, k) = BlockAt(n, k)
    BY <2>2 DEF PlaceOf, BlockOf, PlaceBlock
  <2>4. u = <<u[1], u[2], u[3]>>
    BY <2>1
  <2>5. QED
    BY <2>2, <2>3, <2>4
<1>8. CASE count > P /\ u = <<n, "indirect", 0>>
  <2>1. u[1] = n /\ u[2] = "indirect" /\ u[3] = 0 /\ IndirectPlace \in Places(n)
    BY <1>6, <1>8
  <2>2. PlaceOf(u) = IndirectPlace /\ BlockOf(u) = inode[n].indirect
        /\ PlaceBlock(n, IndirectPlace) = inode[n].indirect
    BY <2>1 DEF PlaceOf, BlockOf, PlaceBlock
  <2>3. QED
    BY <1>8, <2>1, <2>2
<1>9. QED
  BY <1>4, <1>7, <1>8

\* Uses are places, so what holds of the places holds of them.
LEMMA PlacesAreUses ==
    ASSUME FSInv, StrongInv
    PROVE  NoSharedBlocks /\ UsedBlocksMarked /\ ContentsIntact
<1>1. FSTypeOK /\ LocalInv /\ PlacesApart /\ PlacesLegal /\ DataInPlace
      /\ DirectBlocksApart /\ DirectBlocksMarked
  BY DEF FSInv, StrongInv
<1>2. ASSUME NEW u \in AllUses
      PROVE  /\ BlockOf(u) \in Blocks \ (1 .. NInodeBlocks)
             /\ IS_MOUNTED => BlockOf(u) \in BLOCK_MAP \cup {0}
  BY <1>1, UsePlaces DEF PlacesLegal
<1>3. ASSUME NEW u \in AllUses, NEW v \in AllUses, BlockOf(u) = BlockOf(v)
      PROVE  u = v
  <2>1. u[1] = v[1] /\ PlaceOf(u) = PlaceOf(v)
    BY <1>1, <1>3, UsePlaces DEF PlacesApart
  <2>2. u[2] = v[2] /\ u[3] = v[3]
    BY <1>1, <2>1, UsePlaces DEF PlaceOf
  <2>3. u = <<u[1], u[2], u[3]>> /\ v = <<v[1], v[2], v[3]>>
    BY <1>1, UsePlaces
  <2>4. QED
    BY <2>1, <2>2, <2>3
<1>4. UsesApart
  BY <1>2, <1>3 DEF UsesApart
<1>5. UsedBlocksMarked
  BY <1>1, <1>2 DEF UsedBlocksMarked
<1>6. ContentsIntact
  <2>1. ASSUME NEW n \in Valid, NEW k \in 0 .. inode[n].size - 1
        PROVE  k \in 0 .. End(n) - 1
    BY <1>1, DataPlaces
  <2>2. QED
    BY <1>1, <2>1 DEF ContentsIntact, DataInPlace
<1>7. QED
  BY <1>1, <1>4, <1>5, <1>6 DEF NoSharedBlocks

\* No block serves two purposes, direct or indirect, and none in use is an inode
\* block.
THEOREM BlocksNotShared == Spec => []NoSharedBlocks
<1>1. FSInv /\ StrongInv => NoSharedBlocks
  BY PlacesAreUses
<1>2. QED
  BY <1>1, StrongInvariant, PTL

\* A block in use is never marked free.
THEOREM BlocksStayMarked == Spec => []UsedBlocksMarked
<1>1. FSInv /\ StrongInv => UsedBlocksMarked
  BY PlacesAreUses
<1>2. QED
  BY <1>1, StrongInvariant, PTL

\* What was written is where the pointers lead.
THEOREM ContentsStayIntact == Spec => []ContentsIntact
<1>1. FSInv /\ StrongInv => ContentsIntact
  BY PlacesAreUses
<1>2. QED
  BY <1>1, StrongInvariant, PTL

\* Only the ends of fs_write() set a size, and none to less than it was.
LEMMA SizeStep ==
    ASSUME StrongInv, [Next]_vars, pc \notin {"idle", "read"}, NEW n \in Inumbers
    PROVE  inode'[n].size >= inode[n].size
<1>1. FSTypeOK /\ LocalInv
  BY DEF StrongInv
<1>2. inode[n].size \in Nat
  BY <1>1, InodeTypes
<1>3. CASE AllocDirect
  <2>1. PICK b \in Blocks : SetDirect(w.inumber, w.i, b)
    BY <1>3 DEF AllocDirect, Free, SetDirect
  <2>2. w.inumber \in Inumbers /\ w.i \in 0 .. P - 1
    BY <1>1, <1>3, LocalTypes DEF LocalInv, Writing, AllocDirect
  <2>3. QED
    BY <1>1, <1>2, <2>1, <2>2, DirectType
<1>4. CASE AllocTable
  <2>1. PICK b : inode' = [inode EXCEPT ![w.inumber].indirect = b]
    BY <1>4 DEF AllocTable
  <2>2. inode'[n].size = inode[n].size
    BY <1>1, <2>1 DEF FSTypeOK, InodeType
  <2>3. QED
    BY <1>2, <2>2
<1>5. CASE UpdateSize \/ SetSize
  <2> DEFINE new == IF w.offset + w.written > inode[w.inumber].size
                      THEN w.offset + w.written ELSE inode[w.inumber].size
  <2>1. inode' = [inode EXCEPT ![w.inumber].size = new]
    BY <1>5, SizeLocal
  <2>2. inode'[n].size = IF n = w.inumber THEN new ELSE inode[n].size
    <3> HIDE DEF new
    <3>1. QED
      BY <1>1, <2>1 DEF FSTypeOK, InodeType
  <2>3. w.offset + w.written \in Nat
    BY <1>1, LocalTypes
  <2>4. QED
    BY <1>2, <2>2, <2>3
<1>6. CASE UNCHANGED inode
  BY <1>2, <1>6
<1>7. QED
  BY <1>3, <1>4, <1>5, <1>6
  DEF Next, Write, vars, Format, Mount, Create, Delete, CopyOut, CopyIn, Restart, Chunk, WriteDirect,
      KeepTable, AllocPointer, WriteIndirect, DiskFull, ReadChunk

\* Copying into an inode never makes its file shorter.
THEOREM SizesNeverShrink == Spec => SizeNeverShrinks
<1>1. StrongInv /\ [Next]_vars =>
        [pc \notin {"idle", "read"} => \A n \in Inumbers : inode'[n].size >= inode[n].size]_vars
  BY SizeStep
<1>2. QED
  BY <1>1, StrongInvariant, PTL DEF Spec, SafeSpec, SizeNeverShrinks

=============================================================================
