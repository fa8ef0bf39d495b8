------------------------------ MODULE SimpleFS ------------------------------
(***************************************************************************)
(* The file system of project6: fs.c over disk.c, driven by the commands   *)
(* of shell.c.  A step is one disk_write(), so a crash can fall between    *)
(* any two of them; what only reads the disk is part of the next step.     *)
(*                                                                         *)
(* Bytes are abstracted to cells, B to a block.  A file is named by its    *)
(* length, and its k-th cell is the pair of the file and k.                *)
(***************************************************************************)
EXTENDS Integers, FiniteSets, FiniteSetsExt

CONSTANTS
    NBlocks,        \* disk_size()
    B,              \* DISK_BLOCK_SIZE, in cells
    P,              \* POINTERS_PER_INODE
    INODES_PER_BLOCK,
    BUFFER,         \* the buffer of copyin and copyout, in cells
    Files,          \* the files copied in, as their lengths in cells
    MaxCopies       \* bound: copyin and copyout commands given

\* As in the program, the buffer holds several whole blocks and the direct
\* blocks of an inode are not a whole number of buffers.
ASSUME SimpleFSAssumption ==
    /\ NBlocks \in Nat \ {0} /\ B \in Nat \ {0} /\ P \in Nat \ {0}
    /\ INODES_PER_BLOCK \in Nat \ {0, 1}
    /\ BUFFER \in Nat \ {0} /\ BUFFER % B = 0 /\ (P * B) % BUFFER # 0
    /\ Files \subseteq Nat
    /\ MaxCopies \in Nat

NInodeBlocks == NBlocks \div 10 + 1     \* nblocks * .10 + 1
Inumbers == 0 .. INODES_PER_BLOCK * NInodeBlocks - 1
Blocks == 0 .. NBlocks - 1
Cells == 0 .. B - 1
Junk == <<-1, 0>>   \* a cell of zeroes, or of another kind of block
JunkPtr == -1       \* a pointer read from anything but an indirect block

VARIABLES
    super,          \* block 0: blank, a valid superblock, or overwritten
    inode,          \* blocks 1 .. NInodeBlocks
    disk,           \* every other use of a block: cells and pointers
    IS_MOUNTED,
    BLOCK_MAP,      \* the blocks marked 1
    pc,             \* where the running command is, "idle" between commands
    w,              \* the command's locals
    contents,       \* history: what fs_write() has put into each inode
    copies          \* copyin and copyout commands so far

vars == <<super, inode, disk, IS_MOUNTED, BLOCK_MAP, pc, w, contents, copies>>

EmptyInode == [isvalid |-> FALSE, size |-> 0, indirect |-> 0,
               direct |-> [k \in 0 .. P - 1 |-> 0]]
JunkCells == [c \in Cells |-> Junk]
JunkPtrs == [k \in 0 .. P - 1 |-> JunkPtr]
NoFile == [k \in 0 .. 2 * P * B - 1 |-> Junk]
NoLocals == [inumber |-> 0, file |-> 0, offset |-> 0, length |-> 0,
             written |-> 0, position |-> 0, i |-> 0, nd |-> 0, ni |-> 0,
             size |-> 0]

\* A new disk file: ftruncate() makes it read as zeroes.
Init ==
    /\ super = "blank"
    /\ inode = [n \in Inumbers |-> EmptyInode]
    /\ disk = [b \in Blocks |-> [cells |-> JunkCells, ptrs |-> JunkPtrs]]
    /\ IS_MOUNTED = FALSE
    /\ BLOCK_MAP = {}
    /\ pc = "idle"
    /\ w = NoLocals
    /\ contents = [n \in Inumbers |-> NoFile]
    /\ copies = 0

\* ceil(size / DISK_BLOCK_SIZE)
BlocksOf(size) == (size + B - 1) \div B

\* The block of an inode's k-th DISK_BLOCK_SIZE bytes
BlockAt(n, k) ==
    IF k < P THEN inode[n].direct[k] ELSE disk[inode[n].indirect].ptrs[k - P]

-----------------------------------------------------------------------------
(* The commands that take one disk_write() or none.  A command that is      *)
(* refused changes nothing and is left out.                                *)

\* fs_format() clears what the superblock it finds describes: nothing on a
\* blank disk.  It leaves the sizes of the inodes.
Format ==
    /\ pc = "idle"
    /\ ~IS_MOUNTED
    /\ \/ super = "blank" /\ UNCHANGED <<inode, disk>>
       \/ /\ super = "valid"
          /\ inode' = [n \in Inumbers |-> [EmptyInode EXCEPT !.size = inode[n].size]]
          /\ disk' = [b \in Blocks |-> [cells |-> JunkCells, ptrs |-> JunkPtrs]]
    /\ super' = "valid"
    /\ contents' = [n \in Inumbers |-> NoFile]
    /\ UNCHANGED <<IS_MOUNTED, BLOCK_MAP, pc, w, copies>>

Directs(n) == {inode[n].direct[k] : k \in 0 .. P - 1} \ {0}

\* Mutant: the blocks behind the indirect block are forgotten.
MarkedDirect(n) == Directs(n)

\* The blocks fs_mount() finds a valid inode to use.  direct[j] with j = 5 is
\* the member after direct, which is indirect.
Marked(n) ==
    Directs(n)
        \cup IF inode[n].size > P * B
               THEN {inode[n].indirect}
                      \cup {BlockAt(n, k) : k \in P .. BlocksOf(inode[n].size) - 1}
               ELSE {}

Mount ==
    /\ pc = "idle"
    /\ super = "valid"
    /\ ~IS_MOUNTED
    /\ IS_MOUNTED' = TRUE
    /\ BLOCK_MAP' = (0 .. NInodeBlocks)
                        \cup UNION {Marked(n) : n \in {m \in Inumbers : inode[m].isvalid}}
    /\ UNCHANGED <<super, inode, disk, pc, w, contents, copies>>

\* fs_create() takes the first inode that is not valid, except inode 0.
Create ==
    LET free == {n \in Inumbers \ {0} : ~inode[n].isvalid}
    IN  /\ pc = "idle"
        /\ IS_MOUNTED
        /\ super = "valid"
        /\ free # {}
        /\ inode' = [inode EXCEPT ![Min(free)] = [EmptyInode EXCEPT !.isvalid = TRUE]]
        /\ UNCHANGED <<super, disk, IS_MOUNTED, BLOCK_MAP, pc, w, contents, copies>>

\* fs_delete() zeroes each pointer before it clears BLOCK_MAP at the pointer.
Delete(n) ==
    /\ pc = "idle"
    /\ IS_MOUNTED
    /\ inode[n].isvalid
    /\ inode' = [inode EXCEPT ![n] = EmptyInode]
    /\ BLOCK_MAP' = BLOCK_MAP \ {0}
    /\ contents' = [contents EXCEPT ![n] = NoFile]
    /\ UNCHANGED <<super, disk, IS_MOUNTED, pc, w, copies>>

\* The process ends, by a command or by a crash, and is started again.
Restart ==
    /\ IS_MOUNTED
    /\ IS_MOUNTED' = FALSE
    /\ BLOCK_MAP' = {}
    /\ pc' = "idle"
    /\ w' = NoLocals
    /\ UNCHANGED <<super, inode, disk, contents, copies>>

-----------------------------------------------------------------------------
(* do_copyin() and fs_write() *)

CopyIn(n, f) ==
    /\ pc = "idle"
    /\ IS_MOUNTED
    /\ inode[n].isvalid
    /\ copies < MaxCopies
    /\ copies' = copies + 1
    /\ pc' = "chunk"
    /\ w' = [NoLocals EXCEPT !.inumber = n, !.file = f]
    /\ UNCHANGED <<super, inode, disk, IS_MOUNTED, BLOCK_MAP, contents>>

\* The next buffer is read from the file, and fs_write() begins.  What it does
\* with the geometry of an overwritten superblock is not modelled.
Chunk ==
    LET size == inode[w.inumber].size
        direct == Min({P, BlocksOf(size)})
    IN  /\ pc = "chunk"
        /\ \/ /\ w.offset = w.file
              /\ pc' = "idle"
              /\ w' = NoLocals
           \/ /\ w.offset < w.file
              /\ super = "valid"
              /\ pc' = IF w.offset > P * B THEN "table" ELSE "direct"
              /\ w' = [w EXCEPT
                    !.length = Min({BUFFER, w.file - w.offset}),
                    !.position = IF w.offset > P * B THEN w.offset - P * B
                                                     ELSE w.offset,
                    !.written = 0, !.i = 0, !.size = size,
                    !.nd = direct, !.ni = BlocksOf(size) - direct]
        /\ UNCHANGED <<super, inode, disk, IS_MOUNTED, BLOCK_MAP, contents, copies>>

Free == Blocks \ BLOCK_MAP

\* Mutant: the block is not marked.
AllocateUnmarked(b) == Free # {} /\ b = Min(Free) /\ UNCHANGED BLOCK_MAP

\* The first free block is b, and is marked.
Allocate(b) ==
    /\ Free # {}
    /\ b = Min(Free)
    /\ BLOCK_MAP' = BLOCK_MAP \cup {b}

AllocDirect ==
    /\ pc = "direct"
    /\ w.i + 1 > w.nd
    /\ \E b \in Free :
         /\ Allocate(b)
         /\ inode' = [inode EXCEPT ![w.inumber].direct[w.i] = b]
    /\ pc' = "directData"
    /\ UNCHANGED <<super, disk, IS_MOUNTED, w, contents, copies>>

\* A block needed in one of the three loops cannot be found.
DiskFull ==
    /\ \/ pc = "direct" /\ w.i + 1 > w.nd
       \/ pc = "table" /\ w.ni <= 0
       \/ pc = "indirect" /\ w.i + 1 > w.ni
    /\ Free = {}
    /\ pc' = "updateSize"
    /\ UNCHANGED <<super, inode, disk, IS_MOUNTED, BLOCK_MAP, w, contents, copies>>

\* One round of either data loop on block b: skip it, or write what fits.
\* The loop goes on at more, or leaves at rest after the last pointer.
WriteBlock(b, more, rest) ==
    LET n == Min({B - w.position, w.length - w.written})
        from == w.offset + w.written    \* the file's cell that comes next
        last == w.i + 1 = P
        next == IF last THEN 0 ELSE w.i + 1
    IN  \/ /\ w.position > B
           /\ w' = [w EXCEPT !.position = @ - B, !.i = next]
           /\ pc' = IF last THEN rest ELSE more
           /\ UNCHANGED <<super, disk, contents>>
        \/ /\ w.position <= B
           /\ disk' = [disk EXCEPT
                 ![b].cells = [c \in Cells |->
                    IF c \in w.position .. w.position + n - 1
                      THEN <<w.file, from + c - w.position>> ELSE @[c]],
                 ![b].ptrs = IF n = 0 THEN @ ELSE JunkPtrs]
           /\ super' = IF b = 0 /\ w.position = 0 THEN "overwritten" ELSE super
           /\ contents' = [contents EXCEPT ![w.inumber] =
                 [k \in DOMAIN @ |->
                    IF k \in from .. from + n - 1 THEN <<w.file, k>> ELSE @[k]]]
           /\ IF w.written + n = w.length
                THEN /\ pc' = "updateSize"
                     /\ w' = [w EXCEPT !.written = @ + n]
                ELSE /\ pc' = IF last THEN rest ELSE more
                     /\ w' = [w EXCEPT !.written = @ + n, !.position = 0, !.i = next]

WriteDirect ==
    /\ pc = "directData" \/ (pc = "direct" /\ w.i + 1 <= w.nd)
    /\ WriteBlock(BlockAt(w.inumber, w.i), "direct", "table")
    /\ UNCHANGED <<inode, IS_MOUNTED, BLOCK_MAP, copies>>

\* The inode has an indirect block already.
KeepTable ==
    /\ pc = "table"
    /\ w.ni > 0
    /\ pc' = "indirect"
    /\ UNCHANGED <<super, inode, disk, IS_MOUNTED, BLOCK_MAP, w, contents, copies>>

AllocTable ==
    /\ pc = "table"
    /\ w.ni <= 0
    /\ \E b \in Free :
         /\ Allocate(b)
         /\ inode' = [inode EXCEPT ![w.inumber].indirect = b]
    /\ pc' = "indirect"
    /\ UNCHANGED <<super, disk, IS_MOUNTED, w, contents, copies>>

\* The new pointer is written into the indirect block.  The loop stops at
\* POINTERS_PER_INODE pointers, although a block has room for many more.
AllocPointer ==
    LET table == inode[w.inumber].indirect
    IN  /\ pc = "indirect"
        /\ w.i + 1 > w.ni
        /\ \E b \in Free :
             /\ Allocate(b)
             /\ disk' = [disk EXCEPT ![table] =
                           [cells |-> JunkCells, ptrs |-> [@.ptrs EXCEPT ![w.i] = b]]]
        /\ super' = IF table = 0 /\ w.i = 0 THEN "overwritten" ELSE super
        /\ pc' = "indirectData"
        /\ UNCHANGED <<inode, IS_MOUNTED, w, contents, copies>>

WriteIndirect ==
    /\ pc = "indirectData" \/ (pc = "indirect" /\ w.i + 1 <= w.ni)
    /\ WriteBlock(BlockAt(w.inumber, P + w.i), "indirect", "setSize")
    /\ UNCHANGED <<inode, IS_MOUNTED, BLOCK_MAP, copies>>

\* Mutant: do_copyin() tries again after a short write.
ReturnRetries == pc' = "chunk" /\ w' = [w EXCEPT !.offset = @ + w.written]

\* fs_write() returns; do_copyin() goes on unless it wrote less than asked.
Return ==
    IF w.written = w.length
      THEN pc' = "chunk" /\ w' = [w EXCEPT !.offset = @ + w.written]
      ELSE pc' = "idle" /\ w' = NoLocals

\* Mutant: the size is set whether the file grew or not.
GrewAlways == TRUE

Grew == w.offset + w.written > w.size

\* The inode's new size, written last: only if it grew
UpdateSize ==
    /\ pc = "updateSize"
    /\ inode' = IF Grew
                  THEN [inode EXCEPT ![w.inumber].size = w.offset + w.written]
                  ELSE inode
    /\ Return
    /\ UNCHANGED <<super, disk, IS_MOUNTED, BLOCK_MAP, contents, copies>>

\* The same after the last pointer of the indirect loop: unconditionally
SetSize ==
    /\ pc = "setSize"
    /\ inode' = [inode EXCEPT ![w.inumber].size = w.offset + w.written]
    /\ Return
    /\ UNCHANGED <<super, disk, IS_MOUNTED, BLOCK_MAP, contents, copies>>

-----------------------------------------------------------------------------
(* do_copyout() and fs_read() *)

\* After the direct blocks fs_read() returns what it read, after the indirect
\* ones 0.
AfterLoops(size, data_read) == IF BlocksOf(size) <= P THEN data_read ELSE 0

\* What fs_read() returns.  It passes the blocks before the offset and counts
\* a whole block for each one it reads, until it thinks that the file or the
\* request ends in the next one.  If it is the request, only what is taken from
\* that block is returned.
ReadLength(size, length, offset) ==
    LET first == offset \div B
        Read(k) == (k - first) * B              \* data_read before block k
        FileEnds(k) == size - offset + Read(k) < B
        RequestEnds(k) == Read(k) + B + (IF k = first THEN offset % B ELSE 0) >= length
        ends == {k \in first .. BlocksOf(size) - 1 : FileEnds(k) \/ RequestEnds(k)}
    IN  IF offset >= size THEN 0
        ELSE IF ends # {}
          THEN IF FileEnds(Min(ends)) THEN size - offset + 2 * Read(Min(ends))
                                      ELSE length - Read(Min(ends))
        ELSE AfterLoops(size, Read(BlocksOf(size)))

CopyOut(n) ==
    /\ pc = "idle"
    /\ IS_MOUNTED
    /\ inode[n].isvalid
    /\ copies < MaxCopies
    /\ copies' = copies + 1
    /\ pc' = "read"
    /\ w' = [NoLocals EXCEPT !.inumber = n]
    /\ UNCHANGED <<super, inode, disk, IS_MOUNTED, BLOCK_MAP, contents>>

ReadChunk ==
    LET result == ReadLength(inode[w.inumber].size, BUFFER, w.offset)
    IN  /\ pc = "read"
        /\ IF result <= 0
             THEN pc' = "idle" /\ w' = NoLocals
             ELSE w' = [w EXCEPT !.offset = @ + result] /\ UNCHANGED pc
        /\ UNCHANGED <<super, inode, disk, IS_MOUNTED, BLOCK_MAP, contents, copies>>

Write ==
    \/ Chunk \/ AllocDirect \/ WriteDirect \/ KeepTable \/ AllocTable
    \/ AllocPointer \/ WriteIndirect \/ DiskFull \/ UpdateSize \/ SetSize

Next ==
    \/ Format \/ Mount \/ Create \/ Restart
    \/ \E n \in Inumbers : Delete(n) \/ CopyOut(n) \/ \E f \in Files : CopyIn(n, f)
    \/ Write \/ ReadChunk

SafeSpec == Init /\ [][Next]_vars

\* A command that has begun goes on; nothing makes the user give another.
Spec == SafeSpec /\ WF_vars(Write \/ ReadChunk)

-----------------------------------------------------------------------------
(* Properties *)

Valid == {n \in Inumbers : inode[n].isvalid}

\* The places of the file system that name a block in use: the blocks of a
\* valid inode below its size, and at P, past the direct ones, its indirect
\* block.
Uses(n) ==
    LET count == BlocksOf(inode[n].size)
    IN  {<<n, "data", k>> : k \in 0 .. count - 1}
          \cup IF count > P THEN {<<n, "indirect", 0>>} ELSE {}

BlockOf(use) ==
    IF use[2] = "data" THEN BlockAt(use[1], use[3]) ELSE inode[use[1]].indirect

AllUses == UNION {Uses(n) : n \in Valid}

\* No block is a direct block twice, or an inode block, whatever the sizes.
DirectBlocksApart ==
    \A m, n \in Valid : \A k, l \in 0 .. P - 1 :
        LET b == inode[m].direct[k]
        IN  b # 0 => /\ b \notin 1 .. NInodeBlocks
                     /\ inode[n].direct[l] = b => m = n /\ k = l

\* No two places in use name the same block.
UsesApart ==
    \A u, v \in AllUses :
        /\ BlockOf(u) \in Blocks \ (1 .. NInodeBlocks)
        /\ u # v /\ BlockOf(u) # 0 => BlockOf(u) # BlockOf(v)

\* No block serves two purposes: whatever was created, deleted, written, cut
\* short by a full disk or by a crash, two places never name the same block,
\* and none names an inode block.  Block 0 is left out: see SuperblockReserved.
NoSharedBlocks == DirectBlocksApart /\ UsesApart

\* The direct blocks are marked, also those past the end of the file.
DirectBlocksMarked == IS_MOUNTED => \A n \in Valid : Directs(n) \subseteq BLOCK_MAP

\* fs_write() only looks at BLOCK_MAP, in memory, which fs_mount() rebuilds:
\* a block in use is never marked free.
UsedBlocksMarked ==
    /\ DirectBlocksMarked
    /\ IS_MOUNTED => {BlockOf(u) : u \in AllUses} \subseteq BLOCK_MAP \cup {0}

\* What fs_write() put into a file is found where the inode's pointers lead,
\* through later writes, remounts, deletions and crashes.
ContentsIntact ==
    \A n \in Valid : \A k \in 0 .. inode[n].size - 1 :
        LET b == BlockAt(n, k \div B)
        IN  b # 0 => disk[b].cells[k % B] = contents[n][k]

\* Copying into an inode never makes the file shorter, whichever of the six
\* places in fs_write() that end it sets the size.
SizeNeverShrinks ==
    [][pc \notin {"idle", "read"} =>
          \A n \in Inumbers : inode'[n].size >= inode[n].size]_vars

\* A command ends, unless it has overwritten the superblock it works with.
CommandsEnd == pc # "idle" ~> (pc = "idle" \/ super = "overwritten")

\* "BLOCK_MAP[0] = 1;  // superblock" (fs.c:171): block 0 is never handed out.
SuperblockReserved == IS_MOUNTED => 0 \in BLOCK_MAP

EndsReading == pc = "read" /\ pc' = "idle" /\ IS_MOUNTED'

\* Refuted: "If less than one block left to read" (fs.c:397), do_copyout()
\* delivers as many bytes as the file has, and no more.
CopyOutExact == [][EndsReading => w.offset = inode[w.inumber].size]_vars

=============================================================================
