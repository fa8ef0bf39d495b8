# Verification of the os-spring18 projects

The repository holds six independent programs of an operating systems course. This directory
holds TLA+ models of five of them, the TLC runs that check the models and the TLAPS proofs about
them: the shell of project2, the fractal movie maker of project3, the packet deduplication of
project4, the demand-paged memory of project5 and the file system of project6. The sixth, the
message server of project1, keeps no state and is not modelled.

## Inventory

| program | components | state | operations | hard part | correct when |
| --- | --- | --- | --- | --- | --- |
| project5 `virtmem` | fault handlers (`main.c`), page table (`page_table.c`), disk (`disk.c`), programs (`program.c`) | frame of each page and its rights, page of each frame, frames, blocks, `frameArr`, `currFrame`, `pageUsage`, three counters | load and store, SIGSEGV, `rand`/`fifo`/`lru_fault_handler`, `find_empty`, `remove_page`, `page_table_set_entry` | the same mapping is kept twice; an access faults twice before a write; uninitialised memory | the program sees one flat array; the victim is the one the policy names |
| project4 `threadedRE` | pcap reader and producer, packet queue, consumers at level 1 or 2, SpookyHash (third party) | position in the file, buffer, deque, `DONE`, three mutexes, a condition variable, `packetSet`, `hits`, `redundancy` | open, seek, read, push, signal; lock, wait, pop; look up, store, count | threads; a signal after the unlock; two locks taken one after the other; end of file noticed by `feof` between seeks | every packet is read and processed once; the program ends; the bytes counted are those that repeat |
| project6 `simplefs` | file system (`fs.c`), shell (`shell.c`), disk emulator (`disk.c`) | superblock, inodes, indirect and data blocks; in memory `BLOCK_MAP`, `IS_MOUNTED` | format, mount, debug, create, delete, getsize, read, write; copyin, copyout, cat | crashes between disk writes, a full disk, a map rebuilt on mount, boundaries of blocks | no block is used twice, files keep their contents, what goes in comes out |
| project2 `irish` | server (`irish.cpp`), clients (`irish.py`) | the kernel's processes, the table `processes`, REQ and REP sockets | bg, fg, list, signal, stop, continue, quit; polling of children; the handler of ^C | children end at any time; states set in advance; a failed exec leaves a second shell; a REP socket must answer before it receives | what is listed is what the kernel has; quit leaves nothing behind; each request has its reply |
| project3 `mandelmovie`, `mandel` | process pool, threads over rows, bitmap files | running children `n`, rows of each thread, the image and its file | fork, exec, wait; create, compute, join, save | failing children, forks and waits; heights no multiple of the threads; lines that need padding | at most `numProcesses` children, the parent ends; every row is computed before the image is saved |
| project1 | `Server.cpp`, `client.py` | a PUB and a SUB socket, a buffer of 120 bytes | send, help, quit | late subscribers | a message is a whole file of at most 120 characters |

The programs share nothing. Inside a program the parts interact as follows.

* project5: a load or store the page's rights forbid raises SIGSEGV; `internal_fault_handler`
  calls the handler `main` has chosen; the handler reads the page table, may call `find_empty`
  and `remove_page` (which writes the disk and the page table), reads the disk, and sets the page
  table and the frame table. The CPU then tries the access again. Everything is one thread.
* project4: the producer thread reads the files and shares the deque with the consumers under
  `dequeMutex` with `packetCond`; the consumers share `packetSet` under `setMutex` and the counters
  under `counterMutex`; `DONE` is shared without a lock. `main` joins all threads.
* project6: a shell command calls the file system, which calls the disk. A command is a sequence
  of block writes, and the process may end between any two of them; `mount` builds `BLOCK_MAP`
  from what it finds.

* project2: the shell forks children and polls them with `waitpid` once per command; children and
  shell share the terminal and its ^C. At level 2 commands and answers alternate on a REQ/REP
  socket pair, and several clients may be connected.
* project3: `mandelmovie` forks children that run `mandel`; parent and children share only exit
  statuses. In `mandel` the threads share the bitmap, of which each writes rows of its own.

`PROJECT.json` lists every component, and under `hazards` what is hard to test in it.

## Modules

```
FlatMemory  <--implements--  VirtMem  <--extends--  VirtMemHistory  <--extends--  VirtMemProofs
WorkQueue   <--implements--  PacketQueue  <--extends and implements--  Level1, Level2
                             PacketQueue  <--extends--  PacketQueueProofs
                             Level1  <--extends--  Level1Proofs
                             Level2  <--extends--  Level2Proofs
PcapReader  <--extends--  PcapReaderProofs
SimpleFS    <--extends--  SimpleFSProofs
Irish       <--extends--  IrishProofs
Bitmap  <--extends--  Mandel  <--extends--  Mandelmovie  <--extends--  MandelmovieProofs
```

Each `MC*` module only gives constants to TLC. Operators commented "Mutant" are wrong versions of
the definition that follows them and are used by no action; they serve to check that each
property notices a plausible mistake.

### VirtMem (project5)

A page's contents is one value; its protection bits are the set of rights they grant.
`page_bits` and `page_mapping` are the arrays of `struct page_table` and stand for the MMU's view
too, because `page_table_set_entry` always updates both. The other variables have the names of
`main.c`'s globals. `access`, `reg` and `retries` are the CPU: the access being executed, the
last value loaded, and how often the access has faulted.

* `Issue` starts any access (the programs of `program.c` are over-approximated); `Read` and
  `Write` complete it when the rights allow it.
* `RandFaultHandler`, `FifoFaultHandler` and `LruFaultHandler` are whole handlers, built from the
  operators `FindEmpty`, `Fill` (page into an empty frame), `Replace` (`remove_page`, then the
  read) and `Upgrade` (second fault). The handlers' third branch, `exit(1)` when the bits hold no
  `PROT_READ`, is dead: `BitsLegal` is part of the proved invariant.
* `Abort` is an eviction with an illegal frame or page number, which ends in `abort()`. A frame
  number read from uninitialised memory first indexes `frameTable` out of bounds; the model takes
  the outcome the checks are written for.
* `main` allocates `frameTable`, `frameArr` and `pageUsage` with `malloc` and initialises none of
  them, and `page_mapping` likewise: `HeapInts` and `HeapBits` are the values such memory may
  hold. `CleanFrameTable` (it grants nothing, like memory fresh from the kernel) is what every
  handler relies on, `LegalFrameArr` (its numbers are frames) what fifo relies on besides.

`VirtMemHistory` adds the orders in which the frames in use were filled, faulted on and touched, as
sets of pairs of frames; with them the eviction policies are stated. `FlatMemory` is the abstract specification: one array, one access
at a time; `VirtualContents` maps a page to its frame or, if it has none, to its block.

### PacketQueue, Level1, Level2 (project4)

`pc` is where each consumer is in its loop, `owner` who holds `dequeMutex`, `reading` where the
producer is. The producer's lock, push and unlock is one step, since no other thread can see
between; the signal is a step of its own, since it comes after the unlock. `FindEmpty`,
`Return`/`DecideToWait` and `CondWait` separate the test of the deque, the read of `DONE` and
the wait, because `DONE` is written without the mutex. The program's data race on `DONE` is a
plain byte that is read as the old or the new value. A wait may end without a signal
(`SpuriousWakeup`), at most `MaxSpurious` times.

`Process` is what a consumer does with a packet. `Level1` replaces it by `Store`, or `Match`
followed by `Count`; `Level2` by `WindowMatches`, `WindowMisses`, `Count` and `EndOfPacket`. Both
are shown to implement `PacketQueue` with the counting consumers mapped to `"process"`. A slot of
`packetSet` is the packet or window it holds (`None` when `valid` is 0): hash, data and length are
written together under `setMutex`. `memcmp` is equality, that is, no packet is taken to be a
proper prefix of another one with the same 32-bit hash. `Hash` is any function, and the runs make
packets collide in slots and in hashes; the random choice at a collision is nondeterministic.
The race on a slot's length (line 335) is the one store of an aligned word, which gives the old or the new
length.

In `PacketQueue` the pcap files are a sequence of packets of accepted sizes, and `dataProcessed`
grows by the payload and the 51 bytes in front of it. `WorkQueue` is the abstract specification: put,
take in order, finish, leave when closed and empty.

### PcapReader (project4)

The loop that gives `PacketQueue` its packets, on the bytes of the files. A byte is told apart by
the field it belongs to and its place there, so reading at a wrong position shows; a file is its
records and the number of bytes cut off its end. The variables are the position, the end-of-file
indicator, `pLength` and the buffer `pData`, which keep their old contents after a short read, as
in the code. `Open` skips 4 + 24 bytes, `SkipPacket` and `ReadPacket` are one round of the loop, and
`EndOfFile` is what `feof` sees; that `fseek` clears the indicator and goes past the end is in
`Seek`, `Fread` and `Short`. The sizes 128, 2400 and 52 are the constants `MIN_PACKET`,
`MAX_PACKET` and `PAYLOAD`.

### Bitmap, Mandel, Mandelmovie (project3)

`Bitmap` is an image and the bytes of its file, as operators. `Mandel` is one process for each
member of `Procs`: options, the creation of the threads, `BeginRows` and `ComputeRow` of a thread
(a row a step: no other thread writes the row), joins and the save; when main fails, the threads
end with the process. The colour of a pixel is the pixel itself, because the iteration of
`mandel.c` is a function of it.

`Mandelmovie` starts those processes. A child is named by its image, and `phase` follows it from
`"forked"` through exec, its threads and its exit to `"reaped"`. `Fork`, `ForkFails` and `Skip` are
the `for` loop, `Wait` and `WaitFails` the `while` inside it, `Cleanup` the waits at the end. The
status of a failed `wait` is uninitialised; that the loop goes on after it is the stutter, that the
count falls is `WaitFails`. `Init` also allows one `mandel` started by the user, with the options of
`UserOptions`.

### Irish (project2)

Three parts in one module, because each step of the shell is a step of the kernel too.

* The kernel: `proc` and `parent` of each process; what a signal does by default (`After`), the end
  of a process, zombies and adoption by init (`Adopt`), and the SIGHUP and SIGCONT that an orphaned
  group gets (`HangUp`, `Settle`). These are modelled from POSIX, as the code uses them. A signal of
  `Catchable` need not be deadly: a program may catch or ignore it, each time anew (`kept` in `Kill`),
  and `spared` remembers which programs have done so. Shells set no disposition but that of SIGINT
  (`Caught`, irish.cpp:185-187), which a second shell inherits.
* The shell, one for each process that runs the main loop: the user's `Root`, and every child
  whose `execvp` failed at level 1, which returns to the loop with a copy of the table
  (`BgExecFails`). `Receive` reads a command and runs `waitProcesses` (`Completed` ends at the
  first child that cannot be waited for); each command is an action; `Fg` and `FgReturns` are the
  two ends of a blocking `waitpid`. SIGINT, from the signal command
  (`Interrupted`) or from ^C (`Interrupt`), sends a shell into its handler, a stopped one when it is
  continued; `HandlerExits` is its end, which waits for a child if the shell has one.
* The clients: `Send` queues a request, `Answer` at the end of the body (`Reply`) answers it, `Continue`
  leaves the body without an answer, `Throw` is the `recv` that is not allowed then.

Left out: the reuse of pids, the text of the answers (among it a `message` that keeps the text of
the command before), replies lost when the server dies, and ^Z at the terminal.

### SimpleFS (project6)

A step is one `disk_write`, with the reads that precede it, so a crash (`Restart`) can come
between any two writes. A block is kept in three variables, by use: `super` for block 0, `inode`
for the inode blocks, and in `disk` cells and pointers, of which a write of one kind turns the
other into junk. Bytes are cells, `B` of them to a block. A file is named by its length and its
k-th cell is the pair of file and k, so that wrong offsets show.

`Format`, `Mount`, `Create` and `Delete` are one step each. (`Format` writes many blocks, but on
a disk that is not mounted and is about to lose its contents; a crash inside it is not modelled.)
`CopyIn` starts `do_copyin`; `Chunk` is the next `fread` of the buffer and the beginning of
`fs_write`; then the direct loop (`AllocDirect`, `WriteDirect`), the indirect block (`KeepTable`,
`AllocTable`), the indirect loop (`AllocPointer`, `WriteIndirect`), `DiskFull` in any of them,
and `UpdateSize` or the unconditional `SetSize` at the end. The locals of `fs_write` are the
record `w`. `CopyOut` and `ReadChunk` are `do_copyout` with the length `fs_read` returns
(`ReadLength`): a request that ends in a block returns only that block's part of it (fs.c:410, 458), so
from a long file copyout reads the same blocks several times. The bytes themselves are not modelled, nor is the branch for requests of less than a block
(fs.c:383), which the shell's buffer never takes. The history variable `contents` is what
`fs_write` has written to each inode.

Left out: `debug` and `getsize`, inode numbers outside the table, and `fs_write` or `fs_format`
with the geometry of an overwritten superblock (they would use arbitrary numbers); `Chunk` and
`Format` are not enabled then.

## Runs

Passing runs:

| run | instance | properties |
| --- | --- | --- |
| `VirtMem_paging` | 3 pages, 2 frames, 8 faults, the three handlers, a clean frame table, illegal numbers in every other uninitialised place; the process may abort | `TablesAgree`, `CleanFramesOnDisk`, `CountersAgree`, `NoPagingWhileAllFits`, `TwoFaultsPerAccess`, `ImplementsFlatMemory` |
| `VirtMem_policies` | 4 pages, 2 frames, 8 faults, fifo and lru, legal and illegal numbers in the heap, one page content | `FifoEvictsOldestAtFirst`, `LruEvictsLongestUnfaulted` |
| `PacketQueue_threads` | 3 consumers, 3 packets of 2 kinds, 1 spurious wakeup | `NoSleepOnWork`, `LeavesNothingBehind`, `AllPacketsProcessed`, `ImplementsWorkQueue` |
| `Level1_table` | 2 consumers, 4 packets of 4 kinds in 2 slots: two with equal hashes, a third in their slot, one alone | `HitsAreRepeats`, `EveryRepeatHits`, `HitCountsItsBytes`, `ImplementsPacketQueue` |
| `Level2_windows` | 2 consumers, 3 packets, windows of 2 bytes, 4 slots | `RedundancyBounded`, `AddsMatchedBytes`, `OnlyLastRunIsLost`, `ImplementsPacketQueue` |
| `SimpleFS_crashes` | 9 blocks of 2 cells, 3 direct blocks, 2 usable inodes, 3 copies in or out, of a small file and of one larger than an inode holds | `NoSharedBlocks`, `UsedBlocksMarked`, `ContentsIntact`, `SizeNeverShrinks`, `CommandsEnd` |
| `Pcap_files` | files of up to 3 packets that are too small, the smallest, the largest and too large; cut by 1 to 40 bytes; a missing file between two; a packet captured in part | `PacketsInOrder`, `OnePhantom`, `AllPacketsPushed`, `ReadingEnds` |
| `Mandelmovie_images` | a movie of 3 images by 1 to 3 processes; or one image of 2 or 4 rows with 0, 2 or 3 threads and lines with and without padding | `SavedImageComplete`, `LoadsBack`, `PoolBounded`, `SkippedAfterFailedFork`, `MovieEnds` |
| `Irish_session` | 2 processes, 2 clients or the terminal | `ListedProcessesExist`, `TerminatedIsOver`, `FgHangsOnlyOnStop`, `QuitLeavesNothingRunning`, `CompletedIsFinal`, `ClientsServed` |

Runs that end in a counterexample, each against a sentence of the repository:

| run | property | what happens |
| --- | --- | --- |
| `PacketQueue_done` | `MainExits` | `DONE` is set without a signal; a waiting consumer is never woken and `main` never ends |
| `SimpleFS_superblock` | `SuperblockReserved` | delete zeroes each pointer before it frees the block it names, and so frees block 0 (fs.c:289-298) |
| `Irish_replies` | `RepliesBeforeReceive` | fg of a process that is not running leaves the loop's body without a reply (irish.cpp:280-294), and the next `recv` throws |

### Refuted statements that no run lists

These are stated in the modules, fail for what the code does, and are refuted in a few steps when
put into a configuration. Beside each is what holds instead.

| module | statement | why it fails | what holds |
| --- | --- | --- | --- |
| VirtMemHistory | `FifoEvictsOldest`, what the option `fifo` (main.c:60) names | a write fault moves `currFrame` too (main.c:216) | `FifoEvictsOldestAtFirst` |
| VirtMemHistory | `LruEvictsLeastRecentlyUsed`, what main.c:90 calls the custom handler | only faults reset an age | `LruEvictsLongestUnfaulted` |
| VirtMem | `NeverAborts`, with illegal numbers in the heap under fifo | a write fault that comes while frames are still empty skips an entry of `frameArr`, which is used uninitialised later | theorem `LegalFrameArrNeverAborts` |
| VirtMem | `FullMeansFilled`, with rights in the uninitialised frame table | `find_empty` passes over a frame that holds no page | theorem `FullIsFilled` |
| Level1 | `RedundancyIsMatchedBytes` (threadedRE.cpp:52) | the slot is replaced between match and count; another packet's length is added (line 335) | `HitCountsItsBytes`, for packets with a slot of their own |
| Level2 | `RunsAreCounted` (threadedRE.cpp:410) | a run that lasts to the end of the packet is dropped; a percentage like the 13.43% of src/project4/README.md:49 is a lower bound | `OnlyLastRunIsLost` |
| PcapReader | `ReadingAlwaysEnds` | behind a last packet that is skipped, `fseek` clears the end-of-file indicator and nothing sets it again | `ReadingEnds` |
| PcapReader | `RepeatsLookAlike` (what threadedRE.cpp:53 counts) | a payload ends with 4 bytes of the next header, timestamps among them, and one byte left in the buffer | `PacketsInOrder`, which tells which bytes are the packet's own |
| SimpleFS | `CopyOutExact` (fs.c:397) | what is left of the file is computed with the wrong sign (fs.c:398) | `CommandsEnd` |

`CHECK_DEADLOCK FALSE` is set everywhere because each program may really stop: its process exits
or aborts, the packets run out, all children have ended, or the disk's superblock is gone.

### Bounds

* `MaxFaults` ends a run of VirtMem: an access is issued only if it can still fault twice. Eight
  faults fill both frames, make them dirty, evict each of them and bring a page back. Three pages
  over two frames are the smallest instance with a choice of victim and a page that is out; the
  policies have four, for two rounds through `frameArr`.
* `MaxPackets` and `MaxSpurious` end a run of PacketQueue. Three packets for three consumers
  allow all of them to wait, be woken and compete. In Level1 four packets give a
  packet, its repeat, a replacement and a repeat after it.
  In Level2 one of the two payloads repeats its own first window and the other has two
  windows of the first, so that a run of matches can begin at the head, in the middle and at the
  end of a payload, and in a packet's own windows as well as in another's.
* Packet lengths of the capture files lie on both sides of both limits. A cut of 1 byte ends in
  the data, of 7 to 9 at the border between data and header for the smallest and the largest
  packet, of 20 in the last header, of 40 in the first one. What is read is at most 4 bytes off, which is less than the data
  of the smallest packet.
* Three images are the smallest movie with an image behind one that fails while another child
  runs. Four rows leave a remainder for three threads, two rows are fewer than three threads; four
  pixels need no padding and three need some.
* Two pids give a shell with two children, or a second shell with one. Two clients give one that
  waits in the queue behind another one's unanswered request. Nothing else bounds Irish: pids are not
  reused, so a session ends when they are used up, but commands do not stop.
* `MaxCopies` bounds copyin and copyout commands; create, delete, mount and restart are not
  bounded. Three copies fill the disk in the middle of a file, overwrite one file by
  another and write into blocks that an interrupted command has left.
* `B = 2` cells tell the first cell of a block from the last. `P = 3` with a buffer of two blocks,
  like the program's 5 and 4, is not a whole number of buffers, so a write crosses from the
  direct to the indirect blocks; `BUFFER % B = 0` and this inequality are in
  `SimpleFSAssumption`. Nine blocks hold one file of the largest size, so that the end of the
  indirect loop is reached, and no second file beside it.

### Fairness

* VirtMem: weak fairness of the CPU's steps, the process keeps running. None for `Issue` and
  `Exit`: no program has to make another access.
* PacketQueue: weak fairness of each thread. A mutex is not fair, but a consumer that keeps
  taking it works the packets off, of which there are finitely many. No fairness for spurious
  wakeups.
* PcapReader: weak fairness of the producer, which never blocks in the loop modelled here.
* Mandelmovie: weak fairness of the parent, of each child's exec and of each thread. None for
  `ForkFails`, `ExecFails`, `MainFails` and `WaitFails`: nothing has to fail, and a failed wait need
  not leave a status of 0.
* Irish: weak fairness of each shell in the command it executes, and at level 2 in receiving what
  was sent. None for the user at the terminal, the clients, ^C and the end of a child. A stopped
  shell does not run.
* SimpleFS: weak fairness of a command that has begun; none for the user or for crashes.

## Proofs

TLAPS proves the following for all values of the constants that meet the modules' named
assumptions. Each argument is an inductive invariant; no run states types, which are proved as
part of it. Every safety property that a passing run checks is a theorem.

* `VirtMemProofs`: `IInv` is an invariant (`VirtMemInvariant`), and from it `TablesStayInverse`,
  `CleanFramesNeedNoWrite`, `FaultsAreBounded`, `FullIsFilled`, and with `LegalFrameArr` also
  `LegalFrameArrNeverAborts`;
  `PagingIsInvisible` shows that every step is a step of `FlatMemory` or leaves it alone.
  All have the hypothesis `CleanFrameTable`. `TablesAgree` alone is not inductive: an eviction
  keeps it only if the victim is a frame with a page (hence `FindEmpty`'s failure), `CleanFramesOnDisk`
  needs it to know that no other page has the frame, and `TwoFaultsPerAccess` needs
  `FaultsMakeProgress`, what the faults so far have obtained.
  * `CountersAlwaysAgree` and `FittingProgramsDoNotPage`: a handler fills an empty frame, evicts when
    there is none, or makes a resident page writable; the invariant relates the counters to the
    numbers of used and of dirty frames, which the code does not keep, and reads, writes and dirty
    frames add up to the faults.
  * `LruEvictsTheStalest`: neither handler keeps the order its policy is about. `AgesAgree` says that
    the ages of the frames in use differ and are ordered as their last faults are: a frame gets age
    1 while all others in use grow older, so what `malloc` left in `pageUsage` is overwritten before
    it is compared.
  * `FifoEvictsTheOldest`: `PositionAgrees` says that the frames were filled from 0 on, that
    `frameArr` is the identity on them and that, going round from `currFrame`, they come in the order
    of their loading. It holds until a fault brings no page in (`diskReads = pageFaults`); then the
    position is off, which is what refutes `FifoEvictsOldest`.
* `PacketQueueProofs`: `IInv` is an invariant (`QueueInvariant`), with `NoPacketSleptOn` and
  `NoPacketLeftBehind`; `QueueImplementsWorkQueue` is the refinement of `WorkQueue`. The invariant
  adds who holds the mutex and what its holder knows: between the test of the deque and the wait
  or the return, the deque stays empty because a push needs the mutex, and a returned consumer
  has read `DONE`, after which the producer does nothing.
* `PcapReaderProofs`: a round of the loop that begins 4 bytes behind the beginning of a record, or at
  the end of the file, ends in such a place of the next record (`NextRecord`): 8 + 4 + 4 bytes on, the
  length just read is the one on the wire, and it leads as far behind the next record as long as all
  was captured. `ReaderInv` ties the place to the number of packets pushed. In a whole file the
  length is always there, and the end is met in the last record and nowhere else (`WholeRecord`), so
  `PacketsArePushedInOrder` and `NoPacketIsLeft`; in a file cut anywhere the round that pushes a
  packet without its length is also the one that meets the end (`AtMostOnePhantom`). The lemmas in
  front of it are about files: `FlattenSeq` puts one sequence behind the other (`FlattenByPrefixes`),
  so every record has its place in the bytes (`Layout`) and its number among the packets of a legal size
  (`LegalCount`).
* `Level1Proofs`: `L1Inv` says that a packet is in the table, or found, only after it was looked
  up, and that a packet alone in its slot stays there. From it `HitsWereSeen`, `RepeatsAreFound`,
  `HitsCountTheirBytes` (at `Count` the slot still holds the packet) and
  `Level1ImplementsQueue`: every step is one of `PacketQueue`, whose theorems so carry over.
  `HitsAreCountedRepeats` adds that each match puts one consumer among those about to count; the
  sum over the packets, a fold, is unfolded once (`SumOverBy`), and one more in one place is one more in the
  sum. It needs that there are finitely many packets and consumers (`FiniteAssumption`), and so
  does the bound of level 2.
* `Level2Proofs`: `L2Inv` says that a run lies within the packet its consumer holds.
  `RunsAddTheirBytes` then counts the union of its windows, an interval; `LastRunIsLost` and
  `Level2ImplementsQueue` as above. `RedundancyStaysBounded` is not inductive, since a run is added
  when it ends: `BytesInv` adds to what is counted all that still may be, the rest of each packet in
  a consumer's hands from the first byte not yet counted, and the packets in the deque.
* `IrishProofs`: `TableInv` says that what is completed has been waited for; a signal to such a process
  fails, so `CompletedStays`. `ChildInv` adds that the processes in the user's table are the
  shell's own children, whom nobody else can wait for: hence `ListedAreThere`. `StateInv` adds that
  what is terminated is ended, doomed to end, a program that has withstood a signal, or a second shell
  in its handler (`TerminatedAreOver`), and that at level 2 there is
  no second shell, so what the user's shell lists as running is not stopped (`FgHangsOnStop`). With
  it, and because the kernel continues what is stopped when the shell ends, `QuitLeavesNothing`. Both
  exceptions are real: after SIGINT to a second shell with a running child the table says `Terminated`
  at once (irish.cpp:112), the handler waits (67), and quit passes it over (372). A program that outlives
  SIGTERM the code does not look for either.
* `MandelmovieProofs`: `RowsDivided` is arithmetic, each row has one thread. `PoolIsBounded` needs
  that `phase` of the images not yet reached is `"none"`; `OnlyFailedForksSkip` that there is no room
  in the loop only behind a failed fork; `SavedRowsComputed` that ids are distinct and a joined thread
  is at the end of its rows. `PictureInv` says which pixel each place of the bitmap has or will have;
  `SavedImagesComplete` follows from where `bitmap_save` puts line and pixel in the file, and
  `SavedImagesLoad` from `bitmap_load` reading it from there, both for every width and height.
* `SimpleFSProofs`: `FSInv` is about direct pointers alone, those behind the end of a file included
  (`DirectBlocksNotShared`, `DirectBlocksStayMarked`): a block is handed out because it is not marked, and
  what is a direct block of some inode is marked, by `fs_mount` whatever the inode's size.
  `StrongInv` is about all blocks in use. A file's `Places` are its blocks and its indirect block, and
  for the file being written those it will have when `fs_write` returns: its size is set only then,
  and pointers behind the size may be anything. No two places have one block, all are marked, and
  every cell up to the end is in its place. `LocalInv` says where in the file the locals of `fs_write` are. It holds at each
  disk write, hence through crashes: `BlocksNotShared`, `BlocksStayMarked`, `ContentsStayIntact` and
  `SizesNeverShrink`. Block 0, which `fs_delete` marks free, is the exception the invariant carries
  (`ZeroUnused`): nobody has it while there is a superblock.

Recursion over data is within reach where the definition is a recursive function and the predicate
is concrete: that the function exists, and what it computes, is shown with a smallest
counterexample (`FlatteningExists`, `SumExists`). The library's induction theorems, which take the
predicate as a parameter, are not used.

Only model-checked:

* everything temporal under fairness, which the prover cannot do: `AllPacketsProcessed`,
  `CommandsEnd`, `ReadingEnds`, `MovieEnds`, `ClientsServed`;
* the fairness that is part of `ImplementsFlatMemory`, `ImplementsWorkQueue` and the two
  `ImplementsPacketQueue`; their initial states and steps are proved
  (`PagingIsInvisible`, `QueueImplementsWorkQueue`, `Level1ImplementsQueue`, `Level2ImplementsQueue`).

## Not modelled

* project1: the server sends one message for each command and keeps nothing; the client prints
  what it receives. There is no state a property could relate.
* SpookyHash is third-party code; its result is the constant `Hash`.
* In project6 inode numbers outside the table (fs.c:491), which read data blocks as inodes, the
  geometry of an overwritten superblock, a crash inside `Format`, the bytes `fs_read` copies, and
  `debug` and `getsize`, which change nothing.
* Printing, parsing of commands and of options, a failing `pread`, `pwrite`, `fread` or pthread call,
  which exits the process or ends the file; the header fields of bitmap files and the rejection of
  other formats.

## Running

    tlc -workers 2 -config VirtMem_paging.cfg MCVirtMem
    tlapm VirtMemProofs.tla

The longest run, `SimpleFS_crashes`, takes two to three minutes with two workers; the longest proofs,
`SimpleFSProofs` and `IrishProofs`, some minutes each.

Next would be: an abstract specification of the files that create, delete and copyin promise, with
SimpleFS shown to implement it, and a crash inside `Format`.
