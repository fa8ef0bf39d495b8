---------------------------- MODULE Mandelmovie ----------------------------
(***************************************************************************)
(* project3/mandelmovie.c: a parent that has at most numProcesses children *)
(* at a time compute the images of a movie, each a process running mandel; *)
(* or one mandel process started by the user.                              *)
(***************************************************************************)
EXTENDS Mandel

CONSTANTS
    MAX_IMAGES,
    MovieOptions,   \* the options buildCommand() gives to every child
    UserOptions     \* the options a user may give

ASSUME MandelmovieAssumption ==
    /\ MAX_IMAGES \in Nat \ {0}
    /\ Procs = 1 .. MAX_IMAGES      \* a child is named by its image
    /\ UserOptions \cup {MovieOptions} \subseteq
           [threads : Nat, width : Nat \ {0}, height : Nat \ {0}]

VARIABLES
    numProcesses,
    n,              \* what the parent takes for the number of its children
    image,          \* the loop variable i, from 1
    pc              \* where the parent is

parentVars == <<numProcesses, n, image, pc>>
vars == <<mandelVars, parentVars>>
progress == <<options, num_threads, bm, id, next, joined, file>>

Init ==
    /\ num_threads = [p \in Procs |-> 0]
    /\ bm = [p \in Procs |-> None]
    /\ id = [p \in Procs |-> <<>>]
    /\ next = [p \in Procs |-> <<>>]
    /\ joined = [p \in Procs |-> 0]
    /\ status = [p \in Procs |-> EXIT_SUCCESS]
    /\ file = [p \in Procs |-> None]
    /\ n = 0
    /\ image = 1
    /\ \/ /\ pc = "loop"
          /\ numProcesses \in 1 .. MAX_IMAGES
          /\ phase = [p \in Procs |-> "none"]
          /\ options = [p \in Procs |-> MovieOptions]
       \/ /\ pc = "user"
          /\ numProcesses = 0
          /\ phase = [p \in Procs |-> IF p = 1 THEN "exec" ELSE "none"]
          /\ \E o \in UserOptions : options = [p \in Procs |-> o]

-----------------------------------------------------------------------------

\* A child of the parent, ended but not waited for, or still to end
Children == {p \in Procs : phase[p] \notin {"none", "no fork", "reaped"}}
Zombies == {p \in Procs : phase[p] = "exited"}

\* Mutant: one child less than allowed
HasRoomLess == n < numProcesses - 1

HasRoom == n < numProcesses

InLoop == pc = "loop" /\ image <= MAX_IMAGES

Fork ==
    /\ InLoop
    /\ HasRoom
    /\ phase' = [phase EXCEPT ![image] = "forked"]
    /\ n' = n + 1
    /\ pc' = "parent"
    /\ UNCHANGED <<progress, status, numProcesses, image>>

\* A failed fork is counted as a child, and the image is lost.
ForkFails ==
    /\ InLoop
    /\ HasRoom
    /\ phase' = [phase EXCEPT ![image] = "no fork"]
    /\ n' = n + 1
    /\ image' = image + 1
    /\ UNCHANGED <<progress, status, numProcesses, pc>>

\* With no room for a child the loop goes on to the next image.
Skip ==
    /\ InLoop
    /\ ~HasRoom
    /\ image' = image + 1
    /\ UNCHANGED <<mandelVars, numProcesses, n, pc>>

\* wait() returns child p.
Reap(p) ==
    /\ p \in Zombies
    /\ phase' = [phase EXCEPT ![p] = "reaped"]
    /\ UNCHANGED <<progress, status>>

\* Mutant: no child is taken off n while others are to be started
ChildEndedNot(p) == n' = n

\* Mutant: the count is reset when a child has ended
ChildEndedAll(p) == n' = 0

\* The parent's loop after a fork: a failed child is not taken off n.
ChildEnded(p) == n' = IF status[p] # EXIT_SUCCESS THEN n ELSE n - 1

Wait ==
    /\ pc = "parent"
    /\ n >= numProcesses
    /\ \E p \in Procs : Reap(p) /\ ChildEnded(p)
    /\ UNCHANGED <<numProcesses, image, pc>>

\* Without a child wait() fails and leaves status as it is, uninitialised: the
\* parent may take this for a child that has ended well.  If not, it tries
\* again.
WaitFails ==
    /\ pc = "parent"
    /\ n >= numProcesses
    /\ Children = {}
    /\ n' = n - 1
    /\ UNCHANGED <<mandelVars, numProcesses, image, pc>>

NextImage ==
    /\ pc = "parent"
    /\ n < numProcesses
    /\ image' = image + 1
    /\ pc' = "loop"
    /\ UNCHANGED <<mandelVars, numProcesses, n>>

\* Clean up remaining processes
Cleanup ==
    /\ pc = "loop"
    /\ image > MAX_IMAGES
    /\ n > 0
    /\ \/ \E p \in Procs : Reap(p)
       \/ Children = {} /\ UNCHANGED mandelVars
    /\ n' = n - 1
    /\ UNCHANGED <<numProcesses, image, pc>>

Return ==
    /\ pc = "loop"
    /\ image > MAX_IMAGES
    /\ n = 0
    /\ pc' = "exited"
    /\ UNCHANGED <<mandelVars, numProcesses, n, image>>

\* The child's execvp() succeeds or fails.
Exec(p) ==
    /\ phase[p] = "forked"
    /\ phase' = [phase EXCEPT ![p] = "exec"]
    /\ UNCHANGED <<progress, status>>
    /\ UNCHANGED parentVars

ExecFails(p) ==
    /\ phase[p] = "forked"
    /\ Exit(p, EXIT_FAILURE)
    /\ UNCHANGED progress
    /\ UNCHANGED parentVars

Parent == Fork \/ Skip \/ Wait \/ NextImage \/ Cleanup \/ Return

Next ==
    \/ Parent
    \/ ForkFails
    \/ WaitFails
    \/ \E p \in Procs : Exec(p) \/ ExecFails(p)
    \/ MandelNext /\ UNCHANGED parentVars

\* The parent and the threads of its children run; nothing has to fail, and
\* an uninitialised status need not ever be 0.
Fairness ==
    /\ WF_vars(Parent)
    /\ \A p \in Procs :
        /\ WF_vars(Exec(p))
        /\ WF_vars(MainThread(p) /\ UNCHANGED parentVars)
        /\ WF_vars((\E t \in DOMAIN next[p] : Thread(p, t)) /\ UNCHANGED parentVars)

Spec == Init /\ [][Next]_vars /\ Fairness

-----------------------------------------------------------------------------

\* The bytes of a line in a file of the BMP format, a multiple of four
LineSize(w) == 4 * ((3 * w + 3) \div 4)

\* Every row of an image that was saved is one some thread had computed: the
\* threads' rows make up the image (mandel.c:174-179), each thread has its own
\* arguments (mandel.c:139-140), and none was still at work when main() saved it.
RowsComputed ==
    \A p \in Procs : file[p] # None =>
        \A y \in 0 .. Height(p) - 1 : \E t \in 1 .. num_threads[p] :
            YStart(Height(p), num_threads[p], t - 1) <= y /\ y < next[p][t]

\* Every pixel of a file is as computed, where the BMP format wants it, with the
\* padding of bitmap.c:130-131.
PixelsInPlace ==
    \A p \in Procs : file[p] # None =>
        LET f == file[p]
        IN  /\ Len(f.bytes) = LineSize(f.width) * f.height
            /\ \A x \in 0 .. f.width - 1, y \in 0 .. f.height - 1 :
                LET at == LineSize(f.width) * y + 3 * x
                IN  SubSeq(f.bytes, at + 1, at + 3) = PixelBytes(<<x, y>>)

\* A file, once written, is the whole image.
SavedImageComplete == RowsComputed /\ PixelsInPlace

\* bitmap.c:153 reads back what bitmap_save() has written, if its lines need no
\* padding.  (With padding it does not: it takes the padding for pixels.)
LoadsBack ==
    \A p \in Procs : file[p] # None /\ file[p].width % 4 = 0 =>
        LET loaded == bitmap_load(file[p])
        IN  \A k \in DOMAIN bm[p].data : loaded[k] = PixelBytes(bm[p].data[k])

\* The parent's count is never below the number of its children, in spite of
\* failed children, failed forks and failed waits: so there are at most
\* numProcesses children, and when the parent exits none is left.
PoolBounded ==
    pc # "user" => Cardinality(Children) <= n /\ n <= numProcesses

\* Images are left out only in a row behind a failed fork (mandelmovie.c:48-55).
SkippedAfterFailedFork ==
    \A p \in Procs : pc # "user" /\ p < image /\ phase[p] = "none" =>
        \E q \in 1 .. p - 1 :
            /\ phase[q] = "no fork"
            /\ \A r \in q + 1 .. p : phase[r] = "none"

\* A child that was forked, or a mandel the user has started, ends.  The parent
\* ends unless a child fails, with failed forks or without: the loop of
\* mandelmovie.c:71-82 always finds a child to wait for.
MovieEnds ==
    /\ \A p \in Procs : phase[p] \in {"forked", "exec"} ~> phase[p] \in {"exited", "reaped"}
    /\ <>(pc \in {"exited", "user"} \/ \E p \in Procs : status[p] = EXIT_FAILURE)

=============================================================================
