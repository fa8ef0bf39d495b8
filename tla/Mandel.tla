------------------------------- MODULE Mandel -------------------------------
(***************************************************************************)
(* Processes running project3/mandel.c: the main thread creates threads,   *)
(* each computes its share of the rows of one image, the main thread joins *)
(* them and saves the image.  The colour of a pixel is the pixel itself.   *)
(***************************************************************************)
EXTENDS Bitmap, FiniteSets, Functions

CONSTANTS
    Procs,          \* the processes that may run mandel
    None,           \* no image, no file
    Blue            \* the colour bitmap_reset() fills an image with

VARIABLES
    phase,          \* where each process is
    options,        \* its command line
    num_threads,
    bm,             \* its bitmap
    id,             \* the id in each thread's arguments
    next,           \* each thread's loop variable j
    joined,         \* how many threads main has joined
    status,         \* its exit status
    file            \* the file it has written

mandelVars == <<phase, options, num_threads, bm, id, next, joined, status, file>>

NotBegun == -1      \* a thread that has not computed its bounds
EXIT_SUCCESS == 0
EXIT_FAILURE == 1

Height(p) == options[p].height

\* -n: what is not a positive number is taken to be 1, and there are no more
\* threads than rows.
NumThreads(o) ==
    LET n == IF o.threads = 0 THEN 1 ELSE o.threads
    IN  IF n > o.height THEN o.height ELSE n

\* Mutant: the last thread leaves the remainder out
YEndEven(h, n, t) == (h \div n) * (t + 1)

\* The rows of thread t out of n of an image with h rows: yStart, yEnd.
YStart(h, n, t) == (h \div n) * t
YEnd(h, n, t) == IF t = n - 1 THEN h ELSE (h \div n) * (t + 1)

Exit(p, code) ==
    /\ phase' = [phase EXCEPT ![p] = "exited"]
    /\ status' = [status EXCEPT ![p] = code]

-----------------------------------------------------------------------------

\* main() up to the creation of the threads
Begin(p) ==
    /\ phase[p] = "exec"
    /\ phase' = [phase EXCEPT ![p] = "create"]
    /\ num_threads' = [num_threads EXCEPT ![p] = NumThreads(options[p])]
    /\ bm' = [bm EXCEPT ![p] = bitmap_create(options[p].width, Height(p), Blue)]
    /\ UNCHANGED <<options, id, next, joined, status, file>>

\* The next pthread_create().  The thread's arguments are complete by then.
CreateThread(p) ==
    /\ phase[p] = "create"
    /\ Len(id[p]) < num_threads[p]
    /\ id' = [id EXCEPT ![p] = Append(@, Len(@))]
    /\ next' = [next EXCEPT ![p] = Append(@, NotBegun)]
    /\ UNCHANGED <<phase, options, num_threads, bm, joined, status, file>>

CreateFails(p) ==
    /\ phase[p] = "create"
    /\ Len(id[p]) < num_threads[p]
    /\ Exit(p, EXIT_FAILURE)
    /\ UNCHANGED <<options, num_threads, bm, id, next, joined, file>>

\* Threads of a process run until main() leaves it.
Alive(p) == phase[p] \in {"create", "join"}

ThreadId(p, t) == id[p][t]

\* compute_image() computes its bounds...
BeginRows(p, t) ==
    /\ Alive(p)
    /\ next[p][t] = NotBegun
    /\ next' = [next EXCEPT ![p][t] = YStart(Height(p), num_threads[p], ThreadId(p, t))]
    /\ UNCHANGED <<phase, options, num_threads, bm, id, joined, status, file>>

End(p, t) == YEnd(Height(p), num_threads[p], ThreadId(p, t))

\* ... and then one row after the other.
ComputeRow(p, t) ==
    LET j == next[p][t]
        SetPixel(m, i) == bitmap_set(m, i, j, <<i, j>>)
    IN
    /\ Alive(p)
    /\ j # NotBegun
    /\ j < End(p, t)
    /\ bm' = [bm EXCEPT ![p] = FoldLeft(SetPixel, @, [i \in 1 .. @.width |-> i - 1])]
    /\ next' = [next EXCEPT ![p][t] = j + 1]
    /\ UNCHANGED <<phase, options, num_threads, id, joined, status, file>>

\* The next pthread_join() returns.
Joinable(p, t) == next[p][t] # NotBegun /\ next[p][t] >= End(p, t)

Join(p) ==
    LET i == joined[p] + 1
    IN
    /\ \/ phase[p] = "create" /\ Len(id[p]) = num_threads[p]
       \/ phase[p] = "join"
    /\ i <= num_threads[p]
    /\ Joinable(p, i)
    /\ phase' = [phase EXCEPT ![p] = "join"]
    /\ joined' = [joined EXCEPT ![p] = i]
    /\ UNCHANGED <<options, num_threads, bm, id, next, status, file>>

Save(p) ==
    /\ phase[p] = "join"
    /\ joined[p] = num_threads[p]
    /\ file' = [file EXCEPT ![p] = bitmap_save(bm[p])]
    /\ Exit(p, EXIT_SUCCESS)
    /\ UNCHANGED <<options, num_threads, bm, id, next, joined>>

SaveFails(p) ==
    /\ phase[p] = "join"
    /\ joined[p] = num_threads[p]
    /\ Exit(p, EXIT_FAILURE)
    /\ UNCHANGED <<options, num_threads, bm, id, next, joined, file>>

Thread(p, t) == BeginRows(p, t) \/ ComputeRow(p, t)
MainThread(p) == Begin(p) \/ CreateThread(p) \/ Join(p) \/ Save(p)
MainFails(p) == CreateFails(p) \/ SaveFails(p)

MandelNext ==
    \E p \in Procs :
        \/ MainThread(p)
        \/ MainFails(p)
        \/ \E t \in DOMAIN next[p] : Thread(p, t)

=============================================================================
