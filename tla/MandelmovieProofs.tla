------------------------- MODULE MandelmovieProofs -------------------------
(***************************************************************************)
(* Proofs about Mandelmovie, for every number of images and processes, and *)
(* every height and number of threads: the pool never has more children    *)
(* than the parent counts, images are left out behind failed forks only,   *)
(* the threads divide the rows among them, and a saved file has every      *)
(* pixel of its image, as computed and in its place.                       *)
(***************************************************************************)
EXTENDS Mandelmovie, FiniteSetTheorems, WellFoundedInduction, TLAPS

-----------------------------------------------------------------------------
(* The rows of the threads *)

\* What integer division gives
LEMMA Quotient ==
    ASSUME NEW a \in Nat, NEW b \in Nat \ {0}
    PROVE  /\ a \div b \in Nat
           /\ b * (a \div b) <= a
           /\ a < b * (a \div b) + b
  OBVIOUS

\* Multiplication by a natural number is monotone.
LEMMA Monotone ==
    ASSUME NEW q \in Nat, NEW s \in Nat, NEW t \in Nat, s <= t
    PROVE  q * s <= q * t
<1>1. q * t = q * s + q * (t - s)
  OBVIOUS
<1>2. q * (t - s) >= 0
  OBVIOUS
<1>3. QED
  BY <1>1, <1>2

\* Every row is one of some thread's...
LEMMA EveryRowHasThread ==
    ASSUME NEW h \in Nat, NEW m \in 1 .. h, NEW y \in 0 .. h - 1
    PROVE  \E t \in 0 .. m - 1 : YStart(h, m, t) <= y /\ y < YEnd(h, m, t)
<1> DEFINE q == h \div m
           t == y \div q
<1>1. q \in Nat /\ m * q <= h /\ h < m * q + m
  BY Quotient
<1>2. q # 0
  BY <1>1
<1> HIDE DEF q
<1>3. t \in Nat /\ q * t <= y /\ y < q * t + q
  BY <1>1, <1>2, Quotient
<1> HIDE DEF t
<1>4. CASE t < m - 1
  <2>1. YStart(h, m, t) = q * t /\ YEnd(h, m, t) = q * (t + 1)
    BY <1>4 DEF YStart, YEnd, q
  <2>2. q * (t + 1) = q * t + q
    BY <1>1, <1>3
  <2>3. QED
    BY <1>3, <1>4, <2>1, <2>2
<1>5. CASE t >= m - 1
  <2>1. YStart(h, m, m - 1) = q * (m - 1) /\ YEnd(h, m, m - 1) = h
    BY DEF YStart, YEnd, q
  <2>2. q * (m - 1) <= q * t
    BY <1>1, <1>3, <1>5, Monotone
  <2>3. QED
    BY <1>1, <1>3, <2>1, <2>2
<1>6. QED
  BY <1>3, <1>4, <1>5

\* ... and of one only.
LEMMA NoRowHasTwoThreads ==
    ASSUME NEW h \in Nat, NEW m \in 1 .. h, NEW s \in 0 .. m - 1, NEW t \in 0 .. m - 1, s < t
    PROVE  YEnd(h, m, s) <= YStart(h, m, t)
<1> DEFINE q == h \div m
<1>1. q \in Nat
  BY Quotient
<1> HIDE DEF q
<1>2. YEnd(h, m, s) = q * (s + 1) /\ YStart(h, m, t) = q * t
  BY DEF YStart, YEnd, q
<1>3. QED
  BY <1>1, <1>2, Monotone

\* The threads of mandel.c:174-179 divide the rows of an image among them,
\* whatever its height and their number.
THEOREM RowsDivided ==
    ASSUME NEW h \in Nat, NEW m \in 1 .. h, NEW y \in 0 .. h - 1
    PROVE  \E t \in 0 .. m - 1 :
               /\ YStart(h, m, t) <= y /\ y < YEnd(h, m, t)
               /\ \A s \in 0 .. m - 1 :
                      YStart(h, m, s) <= y /\ y < YEnd(h, m, s) => s = t
<1>1. PICK t \in 0 .. m - 1 : YStart(h, m, t) <= y /\ y < YEnd(h, m, t)
  BY EveryRowHasThread
<1>2. ASSUME NEW s \in 0 .. m - 1, YStart(h, m, s) <= y, y < YEnd(h, m, s)
      PROVE  s = t
  <2>1. /\ YStart(h, m, s) \in Int /\ YEnd(h, m, s) \in Int
        /\ YStart(h, m, t) \in Int /\ YEnd(h, m, t) \in Int
    BY Quotient DEF YStart, YEnd
  <2>2. ~(s < t) /\ ~(t < s)
    BY <1>1, <1>2, <2>1, NoRowHasTwoThreads
  <2>3. QED
    BY <2>2
<1>3. QED
  BY <1>1, <1>2

-----------------------------------------------------------------------------
(* The pool *)

Phases == {"none", "no fork", "forked", "exec", "create", "join", "exited", "reaped"}

PoolTypes ==
    /\ phase \in [Procs -> Phases]
    /\ numProcesses \in Nat
    /\ n \in Nat
    /\ image \in Nat \ {0}
    /\ pc \in {"user", "loop", "parent", "exited"}

\* The parent of a movie has room for a child, or has one.  The images before
\* its loop variable may have a process, no others.
PoolOrder ==
    /\ pc # "user" => numProcesses >= 1
    /\ pc = "parent" => image <= MAX_IMAGES
    /\ pc # "user" => \A p \in Procs : p > image => phase[p] = "none"
    /\ pc = "loop" => \A p \in Procs : p = image => phase[p] = "none"

PoolInv == PoolTypes /\ PoolOrder /\ PoolBounded

\* The children are numbered like the images.
LEMMA Images == MAX_IMAGES \in Nat \ {0} /\ Procs = 1 .. MAX_IMAGES
  BY MandelmovieAssumption

\* There are finitely many children to count.
LEMMA ChildrenFinite ==
    IsFiniteSet(Children) /\ Cardinality(Children) \in Nat
<1>1. MAX_IMAGES \in Int /\ 1 \in Int
  BY Images
<1>2. IsFiniteSet(Procs)
  BY <1>1, FS_Interval, Images
<1>3. IsFiniteSet(Children)
  BY <1>2, FS_Subset DEF Children
<1>4. QED
  BY <1>3, FS_CardinalityType

\* A process may come to be in any of the phases.
LEMMA PhaseStep ==
    ASSUME phase \in [Procs -> Phases], NEW p, NEW q \in Phases
    PROVE  [phase EXCEPT ![p] = q] \in [Procs -> Phases]
  OBVIOUS

\* No process has started but the user's.
LEMMA InitPool ==
    ASSUME Init
    PROVE  PoolInv
<1>1. PoolTypes
  <2>1. phase \in [Procs -> Phases]
    BY DEF Init, Phases
  <2>2. numProcesses \in Nat /\ pc \in {"user", "loop"}
    BY Images DEF Init
  <2>3. QED
    BY <2>1, <2>2 DEF Init, PoolTypes
<1>2. PoolOrder
  BY Images DEF Init, PoolOrder
<1>3. PoolBounded
  <2>1. SUFFICES ASSUME pc # "user" PROVE Cardinality(Children) <= n /\ n <= numProcesses
    BY DEF PoolBounded
  <2>2. Children = {}
    BY <2>1 DEF Init, Children
  <2>3. Cardinality(Children) = 0
    BY <2>2, FS_EmptySet
  <2>4. n = 0 /\ numProcesses >= 1
    BY <2>1, Images DEF Init
  <2>5. QED
    BY <1>1, <2>3, <2>4 DEF PoolTypes
<1>4. QED
  BY <1>1, <1>2, <1>3 DEF PoolInv

\* The image whose turn it is has no process yet.
LEMMA LoopPool ==
    ASSUME PoolInv, InLoop
    PROVE  image \in Procs /\ phase[image] = "none"
<1>1. image \in Procs
  BY Images DEF PoolInv, PoolTypes, InLoop
<1>2. QED
  BY <1>1 DEF PoolInv, PoolOrder, InLoop

\* A fork adds one child at most, and is counted.
LEMMA ForkPool ==
    ASSUME PoolInv, Fork \/ ForkFails
    PROVE  PoolInv'
<1> USE DEF PoolInv, InLoop, HasRoom
<1>1. pc = "loop" /\ image <= MAX_IMAGES /\ n < numProcesses /\ n' = n + 1
      /\ numProcesses' = numProcesses
  BY DEF Fork, ForkFails
<1>2. image \in Procs
  BY <1>1, LoopPool
<1>3. phase[image] = "none"
  BY <1>1, LoopPool
<1>4. Cardinality(Children) <= n /\ Cardinality(Children) \in Nat
  BY <1>1, ChildrenFinite DEF PoolBounded
<1>5. CASE Fork
  <2>1. Children' = Children \cup {image} /\ image \notin Children
    BY <1>2, <1>3, <1>5 DEF Fork, Children, PoolTypes
  <2>2. Cardinality(Children') = Cardinality(Children) + 1
    BY <2>1, ChildrenFinite, FS_AddElement
  <2>3. PoolBounded'
    BY <1>1, <1>4, <2>2 DEF PoolBounded, PoolTypes
  <2>4. PoolTypes'
    <3>1. phase' \in [Procs -> Phases]
      BY <1>5, PhaseStep DEF Fork, PoolTypes, Phases
    <3>2. QED
      BY <1>1, <1>5, <3>1 DEF Fork, PoolTypes
  <2>5. PoolOrder'
    BY <1>1, <1>2, <1>5, Images DEF Fork, PoolTypes, PoolOrder
  <2>6. QED
    BY <2>3, <2>4, <2>5
<1>6. CASE ForkFails
  <2>1. Children' = Children
    BY <1>2, <1>3, <1>6 DEF ForkFails, Children, PoolTypes
  <2>2. PoolBounded'
    BY <1>1, <1>4, <2>1 DEF PoolBounded, PoolTypes
  <2>3. image' = image + 1 /\ pc' = pc
    BY <1>6 DEF ForkFails
  <2>4. phase' = [phase EXCEPT ![image] = "no fork"]
    BY <1>6 DEF ForkFails
  <2>5. PoolTypes'
    <3>1. phase' \in [Procs -> Phases]
      BY <2>4, PhaseStep DEF PoolTypes, Phases
    <3>2. n \in Nat /\ image \in Nat \ {0}
      BY DEF PoolTypes
    <3>3. n' \in Nat /\ image' \in Nat \ {0}
      BY <1>1, <2>3, <3>2
    <3>4. QED
      BY <1>1, <2>3, <3>1, <3>3 DEF PoolTypes
  <2>6. PoolOrder'
    <3>1. \A p \in Procs : p >= image + 1 => phase'[p] = "none"
      <4>1. TAKE p \in Procs
      <4>2. HAVE p >= image + 1
      <4>3. p > image /\ p # image
        BY <4>2, Images DEF PoolTypes
      <4>4. phase[p] = "none"
        BY <1>1, <4>3 DEF PoolOrder
      <4>5. QED
        BY <2>4, <4>3, <4>4 DEF PoolTypes
    <3>2. image \in Nat
      BY DEF PoolTypes
    <3>3. \A p \in Procs : p > image + 1 \/ p = image + 1 => p >= image + 1
      BY <3>2, Images
    <3>4. QED
      BY <1>1, <2>3, <3>1, <3>3 DEF PoolOrder, PoolTypes
  <2>7. QED
    BY <2>2, <2>5, <2>6
<1>7. QED
  BY <1>5, <1>6

\* A child that is waited for is taken off the count once at most, and with a
\* count above 0 while there is one.
LEMMA ReapPool ==
    ASSUME PoolInv, NEW p \in Procs, Reap(p), n' \in {n, n - 1}, n > 0, pc # "user",
           UNCHANGED <<numProcesses, image, pc>>
    PROVE  PoolInv'
<1> USE DEF PoolInv
<1>1. p \in Children /\ Children' = Children \ {p}
  BY DEF Reap, Zombies, Children, PoolTypes
<1>2. Cardinality(Children') = Cardinality(Children) - 1
  BY <1>1, ChildrenFinite, FS_RemoveElement
<1>3. Cardinality(Children) <= n /\ Cardinality(Children) \in Nat
  BY ChildrenFinite DEF PoolBounded
<1>4. PoolBounded'
  BY <1>2, <1>3 DEF PoolBounded, PoolTypes
<1>5. PoolTypes'
  <2>1. phase' \in [Procs -> Phases]
    BY PhaseStep DEF Reap, Phases, PoolTypes
  <2>2. QED
    BY <2>1 DEF PoolTypes
<1>6. PoolOrder'
  BY DEF Reap, Zombies, PoolTypes, PoolOrder
<1>7. QED
  BY <1>4, <1>5, <1>6

\* Without children the count may go down alone.
LEMMA NoChildPool ==
    ASSUME PoolInv, Children = {}, n' = n - 1, n > 0, UNCHANGED <<phase, numProcesses, image, pc>>
    PROVE  PoolInv'
<1> USE DEF PoolInv
<1>1. Cardinality(Children') = 0
  BY FS_EmptySet DEF Children
<1>2. PoolBounded'
  BY <1>1 DEF PoolBounded, PoolTypes
<1>3. QED
  BY <1>2 DEF PoolTypes, PoolOrder

\* What a process does by itself leaves it a child of the parent.
LEMMA ProcessPool ==
    ASSUME PoolInv, NEW p \in Procs, NEW q \in Phases \ {"none", "no fork", "reaped"},
           phase[p] \notin {"none", "no fork", "reaped"},
           phase' = [phase EXCEPT ![p] = q], UNCHANGED parentVars
    PROVE  PoolInv'
<1>1. Children' = Children
  BY DEF Children, PoolInv, PoolTypes
<1>2. PoolBounded'
  BY <1>1 DEF PoolInv, PoolBounded, parentVars
<1>3. PoolTypes'
  BY DEF PoolInv, PoolTypes, parentVars
<1>4. PoolOrder'
  BY DEF PoolInv, PoolTypes, PoolOrder, parentVars
<1>5. QED
  BY <1>2, <1>3, <1>4 DEF PoolInv

\* No step makes more children than the parent counts.
LEMMA StepPool ==
    ASSUME PoolInv, [Next]_vars
    PROVE  PoolInv'
<1>1. CASE Fork \/ ForkFails
  BY <1>1, ForkPool
<1>2. CASE Wait
  <2>1. PICK p \in Procs : Reap(p) /\ ChildEnded(p)
    BY <1>2 DEF Wait
  <2>2. n > 0 /\ n' \in {n, n - 1}
    BY <1>2, <2>1 DEF Wait, ChildEnded, PoolInv, PoolTypes, PoolOrder
  <2>3. QED
    BY <1>2, <2>1, <2>2, ReapPool DEF Wait
<1>3. CASE WaitFails
  <2>1. n > 0
    BY <1>3 DEF WaitFails, PoolInv, PoolTypes, PoolOrder
  <2>2. QED
    BY <1>3, <2>1, NoChildPool DEF WaitFails, mandelVars
<1>4. CASE Cleanup
  BY <1>4, ReapPool, NoChildPool DEF Cleanup, mandelVars, PoolInv, PoolTypes
<1>5. CASE Skip \/ NextImage \/ Return
  <2>1. phase' = phase /\ Children' = Children
    BY <1>5 DEF Skip, NextImage, Return, mandelVars, Children
  <2>2. QED
    BY <1>5, <2>1, Images
    DEF Skip, NextImage, Return, InLoop, PoolInv, PoolBounded, PoolTypes, PoolOrder
<1>6. ASSUME NEW p \in Procs, Exec(p) \/ ExecFails(p)
      PROVE  PoolInv'
  BY <1>6, ProcessPool DEF Exec, ExecFails, Exit, Phases
<1>7. ASSUME NEW p \in Procs, MainThread(p) \/ MainFails(p), UNCHANGED parentVars
      PROVE  PoolInv'
  <2>1. CASE UNCHANGED phase
    <3>1. Children' = Children
      BY <2>1 DEF Children
    <3>2. QED
      BY <1>7, <2>1, <3>1 DEF PoolInv, PoolBounded, PoolTypes, PoolOrder, parentVars
  <2>2. \/ UNCHANGED phase
        \/ /\ phase[p] \in {"exec", "create", "join"}
           /\ \E q \in {"create", "join", "exited"} : phase' = [phase EXCEPT ![p] = q]
    BY <1>7 DEF MainThread, MainFails, Begin, CreateThread, Join, Save, CreateFails,
                SaveFails, Exit
  <2>3. QED
    BY <1>7, <2>1, <2>2, ProcessPool DEF Phases
<1>8. ASSUME NEW p \in Procs, NEW t \in DOMAIN next[p], Thread(p, t), UNCHANGED parentVars
      PROVE  PoolInv'
  <2>1. phase' = phase /\ Children' = Children
    BY <1>8 DEF Thread, BeginRows, ComputeRow, Children
  <2>2. QED
    BY <1>8, <2>1 DEF PoolInv, PoolBounded, PoolTypes, PoolOrder, parentVars
<1>9. CASE UNCHANGED vars
  <2>1. phase' = phase /\ Children' = Children
    BY <1>9 DEF vars, mandelVars, Children
  <2>2. QED
    BY <1>9, <2>1 DEF PoolInv, PoolBounded, PoolTypes, PoolOrder, vars, parentVars
<1>10. QED
  BY <1>1, <1>2, <1>3, <1>4, <1>5, <1>6, <1>7, <1>8, <1>9 DEF Next, Parent, MandelNext

\* There are never more children than the parent counts, nor than it may have.
THEOREM PoolIsBounded == Spec => []PoolBounded
<1>1. Init => PoolInv
  BY InitPool
<1>2. PoolInv /\ [Next]_vars => PoolInv'
  BY StepPool
<1>3. PoolInv => PoolBounded
  BY DEF PoolInv
<1>4. QED
  BY <1>1, <1>2, <1>3, PTL DEF Spec

-----------------------------------------------------------------------------
(* The images *)

Early == {"none", "no fork", "forked", "exec"}

ImageTypes ==
    /\ phase \in [Procs -> Phases]
    /\ num_threads \in [Procs -> Nat]
    /\ joined \in [Procs -> Nat]
    /\ id \in [Procs -> Seq(Nat)]
    /\ next \in [Procs -> Seq(Int)]
    /\ DOMAIN file = Procs
    /\ \A p \in Procs : options[p].threads \in Nat /\ Height(p) \in Nat \ {0}

\* The number of threads stays the same once there are any...
ThreadsInv(p) ==
    /\ phase[p] \in Early => num_threads[p] = 0 /\ file[p] = None
    /\ phase[p] \in {"create", "join"} => num_threads[p] \in 1 .. Height(p) /\ file[p] = None
    /\ phase[p] = "join" => Len(id[p]) = num_threads[p]
    /\ Len(next[p]) = Len(id[p])
    /\ Len(id[p]) <= num_threads[p]
    /\ \A t \in 1 .. Len(id[p]) : id[p][t] = t - 1

\* ... those that were joined are at the end of their rows, and all are when
\* the image is saved.
JoinedInv(p) ==
    /\ joined[p] <= Len(id[p])
    /\ \A t \in 1 .. joined[p] :
        next[p][t] # NotBegun /\ next[p][t] >= YEnd(Height(p), num_threads[p], t - 1)
    /\ file[p] # None => joined[p] = num_threads[p] /\ num_threads[p] \in 1 .. Height(p)

ImageInv == ImageTypes /\ \A p \in Procs : ThreadsInv(p) /\ JoinedInv(p)

\* Options have a height, at least 1.
LEMMA InitImage ==
    ASSUME Init
    PROVE  ImageInv
<1>1. ImageTypes
  <2>1. \A p \in Procs : options[p] \in UserOptions \cup {MovieOptions}
    BY DEF Init
  <2>2. \A p \in Procs : options[p].threads \in Nat /\ Height(p) \in Nat \ {0}
    BY <2>1, MandelmovieAssumption DEF Height
  <2>3. phase \in [Procs -> Phases]
    BY DEF Init, Phases
  <2>4. QED
    BY <2>2, <2>3 DEF Init, ImageTypes
<1>2. \A p \in Procs : phase[p] \in Early
  BY DEF Init, Early
<1>3. ASSUME NEW p \in Procs
      PROVE  ThreadsInv(p)
  <2>1. phase[p] \notin {"create", "join"}
    BY <1>2 DEF Early
  <2>2. num_threads[p] = 0 /\ file[p] = None /\ id[p] = <<>> /\ next[p] = <<>>
    BY DEF Init
  <2>3. QED
    BY <2>1, <2>2 DEF ThreadsInv
<1>4. \A p \in Procs : JoinedInv(p)
  BY DEF Init, JoinedInv
<1>5. QED
  BY <1>1, <1>3, <1>4 DEF ImageInv

\* A process that starts, ends or is waited for
LEMMA PhaseImage ==
    ASSUME ImageInv, NEW p \in Procs, NEW q \in Phases \ {"create", "join"},
           q \in Early => phase[p] \in Early,
           phase' = [phase EXCEPT ![p] = q], UNCHANGED progress
    PROVE  ImageInv'
<1>1. ImageTypes'
  BY DEF ImageInv, ImageTypes, progress, Height
<1>2. \A r \in Procs : ThreadsInv(r)'
  BY DEF ImageInv, ImageTypes, ThreadsInv, progress, Height, Early
<1>3. \A r \in Procs : JoinedInv(r)'
  BY DEF ImageInv, JoinedInv, progress, Height
<1>4. QED
  BY <1>1, <1>2, <1>3 DEF ImageInv

\* The parent's loop leaves the images alone.
LEMMA SameImage ==
    ASSUME ImageInv, UNCHANGED phase, UNCHANGED progress
    PROVE  ImageInv'
  BY DEF ImageInv, ImageTypes, ThreadsInv, JoinedInv, progress, Height

\* The processes but p stay as they are.
LEMMA OtherImages ==
    ASSUME ImageInv, ImageTypes', NEW p \in Procs, ThreadsInv(p)', JoinedInv(p)',
           \A r \in Procs \ {p} :
               /\ phase'[r] = phase[r]
               /\ num_threads'[r] = num_threads[r]
               /\ joined'[r] = joined[r]
               /\ id'[r] = id[r]
               /\ next'[r] = next[r]
               /\ file'[r] = file[r],
           UNCHANGED options
    PROVE  ImageInv'
<1>1. ASSUME NEW r \in Procs \ {p}
      PROVE  ThreadsInv(r)' /\ JoinedInv(r)'
  <2>1. ThreadsInv(r) /\ JoinedInv(r)
    BY DEF ImageInv
  <2>2. ThreadsInv(r)'
    BY <2>1 DEF ThreadsInv, Height
  <2>3. JoinedInv(r)'
    BY <2>1 DEF JoinedInv, Height
  <2>4. QED
    BY <2>2, <2>3
<1>2. QED
  BY <1>1 DEF ImageInv

\* There is at least one thread, and no more than rows.
LEMMA BeginImage ==
    ASSUME ImageInv, NEW p \in Procs, Begin(p)
    PROVE  ImageInv'
<1> USE DEF Begin
<1>1. ImageTypes /\ ThreadsInv(p) /\ JoinedInv(p) /\ phase[p] \in Early
  BY DEF ImageInv, Early
<1>2. NumThreads(options[p]) \in 1 .. Height(p)
  <2>1. options[p].height \in Nat \ {0}
    BY <1>1 DEF ImageTypes, Height
  <2>2. options[p].threads \in Nat
    BY <1>1 DEF ImageTypes
  <2>3. QED
    BY <2>1, <2>2 DEF NumThreads, Height
<1>3. ImageTypes'
  <2>1. phase' \in [Procs -> Phases]
    BY <1>1, PhaseStep DEF ImageTypes, Phases
  <2>2. num_threads' \in [Procs -> Nat]
    BY <1>1, <1>2 DEF ImageTypes, Height
  <2>3. /\ joined' = joined /\ id' = id /\ next' = next /\ file' = file /\ options' = options
    OBVIOUS
  <2>4. QED
    BY <1>1, <2>1, <2>2, <2>3 DEF ImageTypes, Height
<1>4. Len(id[p]) = 0 /\ Len(next[p]) = 0 /\ joined[p] = 0 /\ file[p] = None
  BY <1>1 DEF ThreadsInv, JoinedInv, ImageTypes
<1>5. ThreadsInv(p)'
  BY <1>1, <1>2, <1>4 DEF ThreadsInv, ImageTypes, Height, Early
<1>6. JoinedInv(p)'
  BY <1>1, <1>4 DEF JoinedInv, ImageTypes
<1>7. QED
  BY <1>1, <1>3, <1>5, <1>6, OtherImages DEF ImageTypes

\* The new thread is the last one.
LEMMA UpTo ==
    ASSUME NEW m \in Nat
    PROVE  \A t \in 1 .. m + 1 : t \in 1 .. m \/ t = m + 1
  OBVIOUS

\* A new thread gets the next id and has computed nothing.
LEMMA CreateImage ==
    ASSUME ImageInv, NEW p \in Procs, CreateThread(p)
    PROVE  ImageInv'
<1> DEFINE k == Len(id[p])
<1> USE DEF CreateThread
<1>1. ImageTypes /\ ThreadsInv(p) /\ JoinedInv(p)
  BY DEF ImageInv
<1>2. /\ id[p] \in Seq(Nat) /\ next[p] \in Seq(Int) /\ k \in Nat /\ NotBegun \in Int
      /\ Len(next[p]) = k /\ k < num_threads[p] /\ phase[p] = "create"
      /\ joined[p] \in 0 .. k /\ num_threads[p] \in Nat
  BY <1>1 DEF ThreadsInv, JoinedInv, ImageTypes, NotBegun
<1>3. id'[p] = Append(id[p], k) /\ next'[p] = Append(next[p], NotBegun)
  BY <1>1 DEF ImageTypes
<1>4. ImageTypes'
  BY <1>1, <1>2 DEF ImageTypes, Height
<1>5. /\ Len(id'[p]) = k + 1 /\ Len(next'[p]) = k + 1 /\ id'[p][k + 1] = k
      /\ \A t \in 1 .. k : id'[p][t] = id[p][t] /\ next'[p][t] = next[p][t]
  BY <1>2, <1>3
<1>6. ThreadsInv(p)'
  <2>1. \A t \in 1 .. k + 1 : id'[p][t] = t - 1
    <3>1. \A t \in 1 .. k + 1 : t \in 1 .. k \/ t = k + 1
      BY <1>2, UpTo
    <3>2. \A t \in 1 .. k : id[p][t] = t - 1
      BY <1>1 DEF ThreadsInv
    <3>3. k = (k + 1) - 1
      BY <1>2
    <3>4. QED
      BY <1>5, <3>1, <3>2, <3>3
  <2>2. num_threads' = num_threads /\ phase' = phase /\ file' = file /\ options' = options
    OBVIOUS
  <2>3. num_threads[p] \in 1 .. Height(p) /\ file[p] = None
    BY <1>1, <1>2 DEF ThreadsInv
  <2>4. phase'[p] \notin Early /\ phase'[p] # "join"
    BY <1>2, <2>2 DEF Early
  <2>5. (num_threads[p] \in 1 .. Height(p))'
    BY <2>2, <2>3 DEF Height
  <2>6. QED
    BY <1>2, <1>5, <2>1, <2>2, <2>3, <2>4, <2>5 DEF ThreadsInv
<1>7. JoinedInv(p)'
  BY <1>1, <1>2, <1>5 DEF JoinedInv, Height
<1>8. QED
  BY <1>1, <1>4, <1>6, <1>7, OtherImages DEF ImageTypes

\* A thread's row moves on, and the thread was not joined.
LEMMA RowImage ==
    ASSUME ImageInv, NEW p \in Procs, NEW t \in DOMAIN next[p], NEW v \in Int,
           Alive(p), next[p][t] = NotBegun \/ next[p][t] < End(p, t),
           next' = [next EXCEPT ![p][t] = v],
           UNCHANGED <<phase, options, num_threads, id, joined, file>>
    PROVE  ImageInv'
<1>1. ImageTypes /\ ThreadsInv(p) /\ JoinedInv(p)
  BY DEF ImageInv
<1>2. /\ id[p] \in Seq(Nat) /\ next[p] \in Seq(Int) /\ joined[p] \in Nat
      /\ Len(next[p]) = Len(id[p]) /\ joined[p] <= Len(id[p]) /\ t \in 1 .. Len(id[p])
  BY <1>1 DEF ThreadsInv, JoinedInv, ImageTypes
<1>3. next'[p] = [next[p] EXCEPT ![t] = v]
  BY <1>1 DEF ImageTypes
<1>4. /\ Len(next'[p]) = Len(next[p]) /\ next'[p] \in Seq(Int)
      /\ \A s \in 1 .. Len(next[p]) : s # t => next'[p][s] = next[p][s]
  BY <1>2, <1>3
<1>5. next' \in [Procs -> Seq(Int)]
  BY <1>1, <1>4 DEF ImageTypes
<1>6. ImageTypes'
  BY <1>1, <1>5 DEF ImageTypes, Height
<1>7. ThreadsInv(p)'
  BY <1>1, <1>4 DEF ThreadsInv, Height
<1>8. t \notin 1 .. joined[p]
  <2>1. SUFFICES ASSUME t \in 1 .. joined[p] PROVE FALSE
    OBVIOUS
  <2>2. next[p][t] # NotBegun /\ next[p][t] >= YEnd(Height(p), num_threads[p], t - 1)
    BY <1>1, <2>1 DEF JoinedInv
  <2>3. End(p, t) = YEnd(Height(p), num_threads[p], t - 1)
    BY <1>1, <1>2 DEF End, ThreadId, ThreadsInv
  <2>4. YEnd(Height(p), num_threads[p], t - 1) \in Int
    <3>1. Height(p) \in Nat /\ num_threads[p] \in Nat \ {0} /\ t \in Nat
      BY <1>1, <1>2 DEF ImageTypes, ThreadsInv, Alive
    <3>2. Height(p) \div num_threads[p] \in Nat
      BY <3>1, Quotient
    <3>3. QED
      BY <3>1, <3>2 DEF YEnd
  <2>5. next[p][t] \in Int
    BY <1>2
  <2>6. QED
    BY <2>2, <2>3, <2>4, <2>5
<1>9. JoinedInv(p)'
  <2>1. \A s \in 1 .. joined[p] : s \in 1 .. Len(next[p]) /\ next'[p][s] = next[p][s]
    BY <1>2, <1>4, <1>8, SMTT(30)
  <2>2. QED
    BY <1>1, <2>1 DEF JoinedInv, Height
<1>10. QED
  BY <1>1, <1>6, <1>7, <1>9, OtherImages DEF ImageTypes

\* A thread is joined at the end of its rows.
LEMMA JoinImage ==
    ASSUME ImageInv, NEW p \in Procs, Join(p)
    PROVE  ImageInv'
<1> DEFINE i == joined[p] + 1
<1> USE DEF Join
<1>1. ImageTypes /\ ThreadsInv(p) /\ JoinedInv(p)
  BY DEF ImageInv
<1>2. /\ i \in Nat /\ num_threads[p] \in 1 .. Height(p) /\ i <= num_threads[p]
      /\ Len(id[p]) = num_threads[p] /\ file[p] = None
  BY <1>1 DEF ThreadsInv, ImageTypes
<1>3. phase'[p] = "join" /\ joined'[p] = i
  BY <1>1 DEF ImageTypes
<1>4. ImageTypes'
  <2>1. phase' \in [Procs -> Phases]
    BY <1>1, PhaseStep DEF ImageTypes, Phases
  <2>2. joined' \in [Procs -> Nat]
    BY <1>1, <1>2 DEF ImageTypes
  <2>3. num_threads' = num_threads /\ id' = id /\ next' = next /\ file' = file /\ options' = options
    OBVIOUS
  <2>4. QED
    BY <1>1, <2>1, <2>2, <2>3 DEF ImageTypes, Height
<1>5. ThreadsInv(p)'
  <2>1. num_threads' = num_threads /\ id' = id /\ next' = next /\ file' = file /\ options' = options
    OBVIOUS
  <2>2. phase'[p] \notin Early
    BY <1>3 DEF Early
  <2>3. QED
    BY <1>1, <1>2, <2>1, <2>2 DEF ThreadsInv, Height
<1>6. JoinedInv(p)'
  <2>1. next[p][i] # NotBegun /\ next[p][i] >= YEnd(Height(p), num_threads[p], id[p][i])
    BY DEF Joinable, End, ThreadId
  <2>2. id[p][i] = i - 1
    <3>1. i \in 1 .. Len(id[p])
      BY <1>1, <1>2 DEF ImageTypes
    <3>2. QED
      BY <1>1, <3>1 DEF ThreadsInv
  <2>3. \A t \in 1 .. i : t \in 1 .. joined[p] \/ t = i
    BY <1>1 DEF ImageTypes
  <2>4. \A t \in 1 .. i :
            next[p][t] # NotBegun /\ next[p][t] >= YEnd(Height(p), num_threads[p], t - 1)
    BY <1>1, <2>1, <2>2, <2>3 DEF JoinedInv
  <2>5. num_threads' = num_threads /\ id' = id /\ next' = next /\ file' = file /\ options' = options
    OBVIOUS
  <2>6. QED
    BY <1>2, <1>3, <2>4, <2>5 DEF JoinedInv, Height
<1>7. QED
  BY <1>1, <1>4, <1>5, <1>6, OtherImages DEF ImageTypes

\* The image is saved when all threads are joined.
LEMMA SaveImage ==
    ASSUME ImageInv, NEW p \in Procs, Save(p)
    PROVE  ImageInv'
<1> USE DEF Save, Exit
<1>1. ImageTypes /\ ThreadsInv(p) /\ JoinedInv(p)
  BY DEF ImageInv
<1>2. phase'[p] = "exited" /\ num_threads[p] \in 1 .. Height(p) /\ joined[p] = num_threads[p]
  BY <1>1 DEF ImageTypes, ThreadsInv
<1>3. UNCHANGED <<num_threads, joined, id, next, options>>
  OBVIOUS
<1>4. ImageTypes'
  <2>1. phase' \in [Procs -> Phases]
    BY <1>1, PhaseStep DEF ImageTypes, Phases
  <2>2. DOMAIN file' = Procs
    BY <1>1 DEF ImageTypes
  <2>3. QED
    BY <1>1, <1>3, <2>1, <2>2 DEF ImageTypes, Height
<1>5. ThreadsInv(p)'
  <2>1. phase'[p] \notin Early
    BY <1>2 DEF Early
  <2>2. QED
    BY <1>1, <1>2, <1>3, <2>1 DEF ThreadsInv, Height
<1>6. JoinedInv(p)'
  BY <1>1, <1>2, <1>3 DEF JoinedInv, Height
<1>7. QED
  BY <1>1, <1>3, <1>4, <1>5, <1>6, OtherImages DEF ImageTypes

\* No step breaks an image's threads.
LEMMA StepImage ==
    ASSUME ImageInv, PoolInv, [Next]_vars
    PROVE  ImageInv'
<1>1. CASE Fork \/ ForkFails
  <2>1. image \in Procs /\ phase[image] = "none"
    BY <1>1, LoopPool DEF Fork, ForkFails
  <2>2. QED
    BY <1>1, <2>1, PhaseImage DEF Fork, ForkFails, Phases, Early
<1>2. CASE Wait \/ WaitFails \/ Cleanup
  <2>1. \/ \E p \in Procs : Reap(p)
        \/ UNCHANGED mandelVars
    BY <1>2 DEF Wait, WaitFails, Cleanup
  <2>2. ASSUME NEW p \in Procs, Reap(p)
        PROVE  ImageInv'
    BY <2>2, PhaseImage DEF Reap, Phases, Early
  <2>3. CASE UNCHANGED mandelVars
    BY <2>3, SameImage DEF mandelVars, progress
  <2>4. QED
    BY <2>1, <2>2, <2>3
<1>3. CASE Skip \/ NextImage \/ Return \/ UNCHANGED vars
  BY <1>3, SameImage DEF Skip, NextImage, Return, vars, mandelVars, progress
<1>4. ASSUME NEW p \in Procs, Exec(p) \/ ExecFails(p)
      PROVE  ImageInv'
  BY <1>4, PhaseImage DEF Exec, ExecFails, Exit, Phases, Early
<1>5. ASSUME NEW p \in Procs, MainThread(p)
      PROVE  ImageInv'
  BY <1>5, BeginImage, CreateImage, JoinImage, SaveImage DEF MainThread
<1>6. ASSUME NEW p \in Procs, MainFails(p)
      PROVE  ImageInv'
  BY <1>6, PhaseImage DEF MainFails, CreateFails, SaveFails, Exit, Phases, Early, progress
<1>7. ASSUME NEW p \in Procs, NEW t \in DOMAIN next[p], Thread(p, t)
      PROVE  ImageInv'
  <2>1. id[p][t] \in Nat /\ next[p][t] \in Int
    BY DEF ImageInv, ImageTypes, ThreadsInv
  <2>2. CASE BeginRows(p, t)
    <3>1. Height(p) \in Nat /\ num_threads[p] \in Nat \ {0}
      BY <2>2 DEF ImageInv, ImageTypes, ThreadsInv, BeginRows, Alive
    <3>2. Height(p) \div num_threads[p] \in Nat
      BY <3>1, Quotient
    <3>3. YStart(Height(p), num_threads[p], ThreadId(p, t)) \in Int
      BY <2>1, <3>2 DEF YStart, ThreadId
    <3>4. QED
      BY <2>2, <3>3, RowImage DEF BeginRows
  <2>3. CASE ComputeRow(p, t)
    <3>1. next[p][t] + 1 \in Int
      BY <2>1
    <3>2. /\ Alive(p)
          /\ next[p][t] < End(p, t)
          /\ next' = [next EXCEPT ![p][t] = next[p][t] + 1]
          /\ UNCHANGED <<phase, options, num_threads, id, joined, file>>
      BY <2>3, Zenon DEF ComputeRow
    <3>3. QED
      BY <3>1, <3>2, RowImage
  <2>4. QED
    BY <1>7, <2>2, <2>3 DEF Thread
<1>8. QED
  BY <1>1, <1>2, <1>3, <1>4, <1>5, <1>6, <1>7 DEF Next, Parent, MandelNext

\* A saved image has all its rows computed: each thread that was joined is
\* behind the end of its rows, and every row is some thread's.
LEMMA InvRowsComputed ==
    ASSUME ImageInv
    PROVE  RowsComputed
<1>1. SUFFICES ASSUME NEW p \in Procs, file[p] # None, NEW y \in 0 .. Height(p) - 1
               PROVE  \E t \in 1 .. num_threads[p] :
                          YStart(Height(p), num_threads[p], t - 1) <= y /\ y < next[p][t]
  BY DEF RowsComputed
<1>2. /\ num_threads[p] \in 1 .. Height(p) /\ Height(p) \in Nat
      /\ \A t \in 1 .. num_threads[p] :
          next[p][t] >= YEnd(Height(p), num_threads[p], t - 1)
  BY <1>1 DEF ImageInv, ImageTypes, JoinedInv
<1>3. PICK s \in 0 .. num_threads[p] - 1 :
          /\ YStart(Height(p), num_threads[p], s) <= y
          /\ y < YEnd(Height(p), num_threads[p], s)
  BY <1>2, EveryRowHasThread
<1>4. s + 1 \in 1 .. num_threads[p] /\ (s + 1) - 1 = s
  BY <1>2
<1>5. Len(next[p]) = num_threads[p] /\ next[p] \in Seq(Int)
  BY <1>1, <1>2 DEF ImageInv, ImageTypes, ThreadsInv, JoinedInv
<1>6. next[p][s + 1] \in Int /\ YEnd(Height(p), num_threads[p], s) \in Int
  BY <1>2, <1>4, <1>5, Quotient DEF YEnd
<1>7. next[p][s + 1] >= YEnd(Height(p), num_threads[p], s)
  BY <1>2, <1>4
<1>8. QED
  BY <1>3, <1>4, <1>6, <1>7

\* What a process has at each point: its threads' arguments are their own, and
\* they are joined at the end of their rows only.  With this every row of an
\* image that is saved was computed.
THEOREM ImageInvariant == Spec => []ImageInv
<1>1. Init => ImageInv /\ PoolInv
  BY InitImage, InitPool
<1>2. ImageInv /\ PoolInv /\ [Next]_vars => ImageInv' /\ PoolInv'
  BY StepImage, StepPool
<1>3. QED
  BY <1>1, <1>2, PTL DEF Spec

\* No row of a saved image was left out.
THEOREM SavedRowsComputed == Spec => []RowsComputed
<1>1. ImageInv => RowsComputed
  BY InvRowsComputed
<1>2. QED
  BY <1>1, ImageInvariant, PTL

-----------------------------------------------------------------------------
(* The images that are left out *)

\* There is no room in the loop only behind a failed fork or a skipped image,
\* and the parent waits behind a fork that did not fail.
SkipInv ==
    /\ pc = "loop" /\ n >= numProcesses =>
        image - 1 \in Procs /\ phase[image - 1] \in {"none", "no fork"}
    /\ pc = "parent" => phase[image] \notin {"none", "no fork"}
    /\ SkippedAfterFailedFork

\* No image has been left out.
LEMMA InitSkip ==
    ASSUME Init
    PROVE  SkipInv
<1>1. pc = "loop" => n = 0 /\ numProcesses \in 1 .. MAX_IMAGES /\ image = 1
  BY DEF Init
<1>2. pc = "loop" => ~(n >= numProcesses)
  BY <1>1, Images
<1>3. pc \in {"loop", "user"} /\ (pc = "loop" => image = 1)
  BY DEF Init
<1>4. \A p \in Procs : pc # "user" => ~(p < image)
  BY <1>3, Images
<1>5. QED
  BY <1>2, <1>3, <1>4 DEF SkipInv, SkippedAfterFailedFork

\* The image before one that was left out, back to the failed fork
LEMMA BeforeImage ==
    ASSUME NEW i \in Nat \ {0}, NEW p \in Procs, p < i, NEW q \in 1 .. p - 1
    PROVE  /\ q \in Procs /\ q < i
           /\ \A r \in q + 1 .. p : r \in Procs /\ r < i
  BY Images

\* What was "none" before the loop variable stays so, as does a failed fork.
LEMMA KeptSkip ==
    ASSUME PoolInv, SkippedAfterFailedFork, pc # "user",
           \A p \in Procs : p < image' /\ phase'[p] = "none" => p < image,
           \A p \in Procs : phase[p] = "no fork" => phase'[p] = "no fork",
           \A p \in Procs : p < image => (phase'[p] = "none" <=> phase[p] = "none")
    PROVE  SkippedAfterFailedFork'
<1>1. SUFFICES ASSUME NEW p \in Procs, p < image', phase'[p] = "none"
               PROVE  \E q \in 1 .. p - 1 :
                          phase'[q] = "no fork" /\ \A r \in q + 1 .. p : phase'[r] = "none"
  BY DEF SkippedAfterFailedFork
<1>2. p < image /\ phase[p] = "none"
  BY <1>1
<1>3. PICK q \in 1 .. p - 1 : phase[q] = "no fork" /\ \A r \in q + 1 .. p : phase[r] = "none"
  BY <1>1, <1>2 DEF SkippedAfterFailedFork
<1>4. image \in Nat \ {0}
  BY DEF PoolInv, PoolTypes
<1>5. q \in Procs /\ \A r \in q + 1 .. p : r \in Procs /\ r < image
  BY <1>1, <1>2, <1>3, <1>4, BeforeImage
<1>6. QED
  BY <1>3, <1>5

\* The image is left out: the one before was too, or its fork failed.
LEMMA SkipSkip ==
    ASSUME PoolInv, SkipInv, Skip
    PROVE  SkipInv'
<1>1. pc = "loop" /\ image \in Procs /\ phase[image] = "none" /\ n >= numProcesses
  BY LoopPool DEF Skip, InLoop, HasRoom, PoolInv, PoolTypes
<1>2. phase' = phase /\ numProcesses' = numProcesses /\ n' = n /\ pc' = pc /\ image' = image + 1
  BY DEF Skip, mandelVars
<1>3. image - 1 \in Procs /\ phase[image - 1] \in {"none", "no fork"}
  BY <1>1 DEF SkipInv
<1>4. image' - 1 = image /\ image \in Nat
  BY <1>1, <1>2, Images
<1>5. SkippedAfterFailedFork'
  <2>1. SUFFICES ASSUME NEW p \in Procs, p < image', phase[p] = "none"
                 PROVE  \E q \in 1 .. p - 1 :
                            phase[q] = "no fork" /\ \A r \in q + 1 .. p : phase[r] = "none"
    BY <1>2, ZenonT(30) DEF SkippedAfterFailedFork
  <2>2. CASE p < image
    BY <1>1, <2>1, <2>2 DEF SkipInv, SkippedAfterFailedFork
  <2>3. CASE p = image /\ phase[image - 1] = "no fork"
    <3>1. p - 1 \in 1 .. p - 1 /\ \A r \in (p - 1) + 1 .. p : r = p
      <4>1. p \in Nat /\ p - 1 \in Procs
        BY <1>3, <1>4, <2>3
      <4>2. QED
        BY <4>1, Images
    <3>2. QED
      BY <2>1, <2>3, <3>1
  <2>4. CASE p = image /\ phase[image - 1] = "none"
    <3>1. image - 1 < image
      BY <1>4
    <3>2. PICK q \in 1 .. (image - 1) - 1 :
              phase[q] = "no fork" /\ \A r \in q + 1 .. image - 1 : phase[r] = "none"
      BY <1>1, <1>3, <2>4, <3>1 DEF SkipInv, SkippedAfterFailedFork
    <3>3. q \in 1 .. p - 1 /\ \A r \in q + 1 .. p : r \in q + 1 .. image - 1 \/ r = p
      <4>1. image \in Nat /\ p = image /\ q \in 1 .. (image - 1) - 1
        BY <1>4, <2>4, <3>2
      <4>2. QED
        BY <4>1
    <3>4. QED
      BY <2>1, <3>2, <3>3
  <2>5. QED
    <3>1. p \in Nat /\ (p < image \/ p = image)
      BY <1>2, <1>4, <2>1, Images
    <3>2. QED
      BY <1>3, <2>2, <2>3, <2>4, <3>1
<1>6. QED
  BY <1>1, <1>2, <1>4, <1>5 DEF SkipInv

\* The image of a fork is not left out, and one whose fork fails explains what follows.
LEMMA ForkSkip ==
    ASSUME PoolInv, SkipInv, Fork \/ ForkFails
    PROVE  SkipInv'
<1>1. image \in Procs /\ phase[image] = "none" /\ pc = "loop" /\ image \in Nat
      /\ phase \in [Procs -> Phases]
  BY LoopPool DEF Fork, ForkFails, InLoop, PoolInv, PoolTypes
<1>2. SkippedAfterFailedFork
  BY DEF SkipInv
<1>3. CASE Fork
  <2>1. phase' = [phase EXCEPT ![image] = "forked"] /\ image' = image /\ pc' = "parent"
    BY <1>3 DEF Fork
  <2>2. phase'[image'] = "forked" /\ \A p \in Procs : p # image => phase'[p] = phase[p]
    BY <1>1, <2>1
  <2>3. \A p \in Procs : p < image => p # image
    BY <1>1, Images
  <2>4. SkippedAfterFailedFork'
    BY <1>1, <1>2, <2>1, <2>2, <2>3, KeptSkip
  <2>5. QED
    BY <2>1, <2>2, <2>4 DEF SkipInv
<1>4. CASE ForkFails
  <2>1. phase' = [phase EXCEPT ![image] = "no fork"] /\ image' = image + 1 /\ pc' = pc
    BY <1>4 DEF ForkFails
  <2>2. phase'[image] = "no fork" /\ \A p \in Procs : p # image => phase'[p] = phase[p]
    BY <1>1, <2>1
  <2>3. \A p \in Procs : (p < image => p # image) /\ (p < image' => p < image \/ p = image)
    <3>1. image \in Nat /\ image' = image + 1
      BY <1>1, <2>1
    <3>2. QED
      BY <3>1, Images
  <2>4. SkippedAfterFailedFork'
    BY <1>1, <1>2, <2>2, <2>3, KeptSkip
  <2>5. image' - 1 = image
    <3>1. image \in Nat /\ image' = image + 1
      BY <1>1, <2>1
    <3>2. QED
      BY <3>1
  <2>6. QED
    BY <1>1, <2>1, <2>2, <2>4, <2>5 DEF SkipInv
<1>5. QED
  BY <1>3, <1>4

\* The loop goes on behind an image that was forked.
LEMMA NextImageSkip ==
    ASSUME PoolInv, SkipInv, NextImage
    PROVE  SkipInv'
<1>1. /\ phase' = phase /\ numProcesses' = numProcesses /\ n' = n /\ image' = image + 1
      /\ n < numProcesses /\ pc = "parent" /\ pc' = "loop"
  BY DEF NextImage, mandelVars
<1>2. image \in Nat /\ n \in Nat /\ numProcesses \in Nat
  BY DEF PoolInv, PoolTypes
<1>3. phase[image] # "none"
  BY <1>1 DEF SkipInv
<1>4. \A p \in Procs : p < image' => p < image \/ p = image
  BY <1>1, <1>2, Images
<1>5. SkippedAfterFailedFork'
  BY <1>1, <1>3, <1>4, KeptSkip DEF SkipInv
<1>6. ~(n' >= numProcesses')
  BY <1>1, <1>2
<1>7. QED
  BY <1>1, <1>5, <1>6 DEF SkipInv

\* A step that begins no image and adds no child
LEMMA QuietSkip ==
    ASSUME PoolInv, SkipInv, image' = image, numProcesses' = numProcesses,
           n' = n \/ (n \in Nat /\ n' = n - 1),
           pc' = pc \/ (pc # "user" /\ pc' = "exited"),
           \A p \in Procs :
               phase[p] \in {"none", "no fork"} \/ phase'[p] \in {"none", "no fork"} =>
                   phase'[p] = phase[p]
    PROVE  SkipInv'
<1>1. pc = "parent" => image \in Procs
  <2>1. image \in Nat \ {0} /\ (pc = "parent" => image <= MAX_IMAGES)
    BY DEF PoolInv, PoolTypes, PoolOrder
  <2>2. QED
    BY ONLY <2>1, Images
<1>2. n' >= numProcesses' => n >= numProcesses
  <2>1. n \in Nat /\ numProcesses \in Nat /\ numProcesses' = numProcesses
    BY DEF PoolInv, PoolTypes
  <2>2. n' = n \/ n' = n - 1
    OBVIOUS
  <2>3. QED
    BY ONLY <2>1, <2>2
<1>3. SkippedAfterFailedFork'
  <2>1. CASE pc = "user"
    BY <2>1 DEF SkippedAfterFailedFork
  <2>2. CASE pc # "user"
    BY <2>2, KeptSkip DEF SkipInv
  <2>3. QED
    BY <2>1, <2>2
<1>4. QED
  BY <1>1, <1>2, <1>3 DEF SkipInv

\* No step leaves an image out without a failed fork before it.
LEMMA StepSkip ==
    ASSUME PoolInv, SkipInv, [Next]_vars
    PROVE  SkipInv'
<1>1. CASE Fork \/ ForkFails \/ Skip \/ NextImage
  BY <1>1, ForkSkip, SkipSkip, NextImageSkip
<1>2. CASE Wait \/ WaitFails \/ Cleanup \/ Return \/ UNCHANGED vars
  <2>1. /\ image' = image /\ numProcesses' = numProcesses
        /\ pc' = pc \/ (pc # "user" /\ pc' = "exited")
    BY <1>2 DEF Wait, WaitFails, Cleanup, Return, vars, parentVars
  <2>2. n' = n \/ (n \in Nat /\ n' = n - 1)
    BY <1>2 DEF Wait, ChildEnded, WaitFails, Cleanup, Return, vars, parentVars, PoolInv, PoolTypes
  <2>3. phase' = phase \/ \E p \in Procs : Reap(p)
    BY <1>2 DEF Wait, WaitFails, Cleanup, Return, vars, mandelVars
  <2>4. \A p \in Procs :
            phase[p] \in {"none", "no fork"} \/ phase'[p] \in {"none", "no fork"} =>
                phase'[p] = phase[p]
    BY <2>3 DEF Reap, Zombies, PoolInv, PoolTypes
  <2>5. QED
    BY <2>1, <2>2, <2>4, QuietSkip
<1>3. ASSUME NEW p \in Procs, Exec(p) \/ ExecFails(p)
      PROVE  SkipInv'
  <2>1. UNCHANGED parentVars
    BY <1>3 DEF Exec, ExecFails
  <2>2. \A r \in Procs :
            phase[r] \in {"none", "no fork"} \/ phase'[r] \in {"none", "no fork"} =>
                phase'[r] = phase[r]
    BY <1>3 DEF Exec, ExecFails, Exit, PoolInv, PoolTypes
  <2>3. QED
    BY <2>1, <2>2, QuietSkip DEF parentVars
<1>4. CASE MandelNext /\ UNCHANGED parentVars
  <2>1. \/ UNCHANGED phase
        \/ \E p \in Procs :
               /\ phase[p] \in {"exec", "create", "join"}
               /\ \E q \in {"create", "join", "exited"} : phase' = [phase EXCEPT ![p] = q]
    <3>1. PICK p \in Procs :
              MainThread(p) \/ MainFails(p) \/ \E t \in DOMAIN next[p] : Thread(p, t)
      BY <1>4, Zenon DEF MandelNext
    <3>2. (\E t \in DOMAIN next[p] : Thread(p, t)) => UNCHANGED phase
      BY Zenon DEF Thread, BeginRows, ComputeRow
    <3>3. MainThread(p) \/ MainFails(p) =>
              \/ UNCHANGED phase
              \/ /\ phase[p] \in {"exec", "create", "join"}
                 /\ \E q \in {"create", "join", "exited"} : phase' = [phase EXCEPT ![p] = q]
      BY DEF MainThread, MainFails, Begin, CreateThread, Join, Save, CreateFails, SaveFails, Exit
    <3>4. QED
      BY <3>1, <3>2, <3>3
  <2>2. \A r \in Procs :
            phase[r] \in {"none", "no fork"} \/ phase'[r] \in {"none", "no fork"} =>
                phase'[r] = phase[r]
    BY <2>1 DEF PoolInv, PoolTypes
  <2>3. QED
    BY <1>4, <2>2, QuietSkip DEF parentVars
<1>5. QED
  BY <1>1, <1>2, <1>3, <1>4 DEF Next, Parent

\* Images are left out only in a row behind a failed fork.
THEOREM OnlyFailedForksSkip == Spec => []SkippedAfterFailedFork
<1>1. Init => SkipInv /\ PoolInv
  BY InitSkip, InitPool
<1>2. SkipInv /\ PoolInv /\ [Next]_vars => SkipInv' /\ PoolInv'
  BY StepSkip, StepPool
<1>3. SkipInv => SkippedAfterFailedFork
  BY DEF SkipInv
<1>4. QED
  BY <1>1, <1>2, <1>3, PTL DEF Spec

-----------------------------------------------------------------------------
(* Sequences put together, which bitmap_save() does twice *)

\* A set of natural numbers has a least one.
LEMMA Least ==
    ASSUME NEW S \in SUBSET Nat, S # {}
    PROVE  \E x \in S : \A y \in S : x <= y
<1>1. PICK x \in S : \A y \in S : ~ (<<y, x>> \in OpToRel(<, Nat))
  BY NatLessThanWellFounded, WFMin
<1>2. ASSUME NEW y \in S
      PROVE  x <= y
  <2>1. y < x => <<y, x>> \in OpToRel(<, Nat)
    BY DEF OpToRel
  <2>2. ~(y < x)
    BY <1>1, <2>1, Zenon
  <2>3. QED
    BY <2>2
<1>3. QED
  BY <1>2

\* f is the recursive function in FlattenSeq().
IsFlattening(f, seqs, len) ==
    f = [i \in 1 .. len |-> IF i = 1 THEN seqs[i] ELSE f[i - 1] \o seqs[i]]

\* The recursive function of FlattenSeq exists.
LEMMA FlatteningExists ==
    ASSUME NEW seqs, NEW len \in Nat
    PROVE  \E f : IsFlattening(f, seqs, len)
<1> DEFINE Missing == {m \in Nat : ~ \E f : IsFlattening(f, seqs, m)}
<1>1. SUFFICES ASSUME Missing # {} PROVE FALSE
  OBVIOUS
<1>2. PICK m \in Missing : \A k \in Missing : m <= k
  BY <1>1, Least
<1>3. CASE m = 0
  <2>1. IsFlattening([i \in 1 .. 0 |-> 0], seqs, 0)
    BY DEF IsFlattening
  <2>2. QED
    BY <1>3, <2>1
<1>4. CASE m # 0
  <2>1. m - 1 \in Nat /\ m - 1 \notin Missing
    BY <1>2, <1>4
  <2>2. PICK f : IsFlattening(f, seqs, m - 1)
    BY <2>1
  <2> DEFINE last == IF m = 1 THEN seqs[m] ELSE f[m - 1] \o seqs[m]
             g == [i \in 1 .. m |-> IF i = m THEN last ELSE f[i]]
  <2>3. ASSUME NEW i \in 1 .. m
        PROVE  g[i] = IF i = 1 THEN seqs[i] ELSE g[i - 1] \o seqs[i]
    <3>1. CASE i = m
      <4>1. g[i] = last
        BY <3>1
      <4>2. i # 1 => g[i - 1] = f[m - 1]
        BY <2>1, <3>1
      <4>3. QED
        BY <3>1, <4>1, <4>2
    <3>2. CASE i # m
      <4>1. i \in 1 .. m - 1
        BY <2>1, <3>2
      <4>2. f[i] = IF i = 1 THEN seqs[i] ELSE f[i - 1] \o seqs[i]
        BY <2>2, <4>1 DEF IsFlattening
      <4>3. g[i] = f[i] /\ (i # 1 => g[i - 1] = f[i - 1])
        BY <2>1, <3>2
      <4>4. QED
        BY <4>2, <4>3
    <3>3. QED
      BY <3>1, <3>2
  <2>4. IsFlattening(g, seqs, m)
    BY <2>3 DEF IsFlattening
  <2>5. QED
    BY <2>4
<1>5. QED
  BY <1>2, <1>3, <1>4

\* FlattenSeq() is its value at the last sequence.
LEMMA FlattenedBy ==
    ASSUME NEW seqs, Len(seqs) \in Nat \ {0}
    PROVE  \E f : IsFlattening(f, seqs, Len(seqs)) /\ FlattenSeq(seqs) = f[Len(seqs)]
<1> DEFINE F == CHOOSE f : IsFlattening(f, seqs, Len(seqs))
<1>1. IsFlattening(F, seqs, Len(seqs))
  BY FlatteningExists
<1>2. FlattenSeq(seqs) = F[Len(seqs)]
  BY DEF FlattenSeq, IsFlattening
<1>3. QED
  BY <1>1, <1>2

\* What s consists of: the first m of seqs, each of length L
EqualParts(s, seqs, L, S, m) ==
    /\ s \in Seq(S)
    /\ Len(s) = m * L
    /\ \A i \in 1 .. m, k \in 1 .. L : s[(i - 1) * L + k] = seqs[i][k]

\* Another part behind the others
LEMMA AnotherPart ==
    ASSUME NEW S, NEW seqs, NEW L \in Nat, NEW m \in Nat, NEW s, EqualParts(s, seqs, L, S, m),
           NEW t \in Seq(S), Len(t) = L, seqs[m + 1] = t
    PROVE  EqualParts(s \o t, seqs, L, S, m + 1)
<1> DEFINE c == m * L
<1>1. s \in Seq(S) /\ Len(s) = c /\ c \in Nat
  BY DEF EqualParts
<1>2. (m + 1) * L = c + L
  OBVIOUS
<1> HIDE DEF c
<1>3. s \o t \in Seq(S) /\ Len(s \o t) = c + L
  BY <1>1
<1>4. ASSUME NEW i \in 1 .. m + 1, NEW k \in 1 .. L
      PROVE  (s \o t)[(i - 1) * L + k] = seqs[i][k]
  <2>1. CASE i = m + 1
    <3>1. i - 1 = m
      BY <2>1
    <3>2. (i - 1) * L = c
      BY <3>1 DEF c
    <3>3. c + k \in 1 .. c + L /\ ~(c + k <= c) /\ (c + k) - c = k
      BY <1>1
    <3>4. (s \o t)[c + k] = t[(c + k) - c]
      BY <1>1, <3>3
    <3>5. QED
      BY <2>1, <3>2, <3>3, <3>4
  <2>2. CASE i # m + 1
    <3> DEFINE b == (i - 1) * L
    <3>1. i \in 1 .. m /\ i - 1 \in Nat /\ m - i \in Nat
      BY <2>2
    <3>2. c = b + L + (m - i) * L /\ b \in Nat /\ (m - i) * L \in Nat
      BY <3>1 DEF c
    <3> HIDE DEF b
    <3>3. b + k \in 1 .. c
      BY <1>1, <3>2
    <3>4. (s \o t)[b + k] = s[b + k]
      BY <1>1, <3>3
    <3>5. s[b + k] = seqs[i][k]
      BY <3>1 DEF EqualParts, b
    <3>6. QED
      BY <3>4, <3>5 DEF b
  <2>3. QED
    BY <2>1, <2>2
<1>5. QED
  BY <1>2, <1>3, <1>4 DEF EqualParts

\* Sequences of the same length, one after the other
LEMMA FlattenEqual ==
    ASSUME NEW S, NEW seqs \in Seq(Seq(S)), NEW L \in Nat, Len(seqs) # 0,
           \A i \in 1 .. Len(seqs) : Len(seqs[i]) = L
    PROVE  EqualParts(FlattenSeq(seqs), seqs, L, S, Len(seqs))
<1> DEFINE c == Len(seqs)
<1>1. c \in Nat \ {0} /\ \A i \in 1 .. c : seqs[i] \in Seq(S)
  OBVIOUS
<1>2. PICK f : IsFlattening(f, seqs, c) /\ FlattenSeq(seqs) = f[c]
  BY <1>1, FlattenedBy
<1>3. \A i \in 1 .. c : f[i] = IF i = 1 THEN seqs[i] ELSE f[i - 1] \o seqs[i]
  BY <1>2 DEF IsFlattening
<1> DEFINE Bad == {m \in 1 .. c : ~EqualParts(f[m], seqs, L, S, m)}
<1> HIDE DEF c
<1>4. ASSUME Bad # {}
      PROVE  FALSE
  <2>1. PICK m \in Bad : \A k \in Bad : m <= k
    <3>1. Bad \in SUBSET Nat
      BY <1>1
    <3>2. QED
      BY <1>4, <3>1, Least
  <2>2. seqs[m] \in Seq(S) /\ Len(seqs[m]) = L
    BY <1>1 DEF c
  <2>3. CASE m = 1
    <3>1. f[1] = seqs[1]
      BY <1>1, <1>3
    <3>2. \A k \in 1 .. L : (1 - 1) * L + k = k
      OBVIOUS
    <3>3. EqualParts(f[1], seqs, L, S, 1)
      BY <2>2, <2>3, <3>1, <3>2 DEF EqualParts
    <3>4. QED
      BY <2>3, <3>3
  <2>4. CASE m # 1
    <3>1. m - 1 \in 1 .. c /\ m \in 1 .. c /\ m - 1 \in Nat /\ (m - 1) + 1 = m
      BY <1>1, <2>4
    <3>2. EqualParts(f[m - 1], seqs, L, S, m - 1)
      BY <2>1, <3>1
    <3>3. f[m] = f[m - 1] \o seqs[m]
      BY <1>3, <2>4, <3>1
    <3>4. EqualParts(f[m], seqs, L, S, m)
      BY <2>2, <3>1, <3>2, <3>3, AnotherPart
    <3>5. QED
      BY <3>4
  <2>5. QED
    BY <2>3, <2>4
<1>5. EqualParts(f[c], seqs, L, S, c)
  BY <1>1, <1>4
<1>6. QED
  BY <1>2, <1>5 DEF c

-----------------------------------------------------------------------------
(* The loop over the columns of a row *)

\* The columns in the order in which a row is computed
Columns(c) == [i \in 1 .. c |-> i - 1]

\* The recursive function by which FoldLeft() computes row j
IsRowFold(g, m, j, seq, c) ==
    g = [s \in SUBSET (1 .. c) |->
            IF s = {} THEN m
                      ELSE bitmap_set(g[s \ {Max(s)}], seq[Max(s)], j, <<seq[Max(s)], j>>)]

\* The largest of a set of columns
LEMMA Largest ==
    ASSUME NEW c \in Nat, NEW s \in SUBSET (1 .. c + 1), c + 1 \in s
    PROVE  Max(s) = c + 1 /\ s \ {c + 1} \in SUBSET (1 .. c)
<1>1. \A y \in s : c + 1 >= y
  OBVIOUS
<1>2. \A x \in s : (\A y \in s : x >= y) => x = c + 1
  OBVIOUS
<1>3. Max(s) = c + 1
  BY <1>1, <1>2 DEF Max
<1>4. \A x \in s \ {c + 1} : x \in 1 .. c
  OBVIOUS
<1>5. QED
  BY <1>3, <1>4

\* It exists.
LEMMA RowFoldExists ==
    ASSUME NEW m, NEW j, NEW seq, NEW c \in Nat
    PROVE  \E g : IsRowFold(g, m, j, seq, c)
<1> DEFINE Missing == {k \in Nat : ~ \E g : IsRowFold(g, m, j, seq, k)}
<1>1. SUFFICES ASSUME Missing # {} PROVE FALSE
  OBVIOUS
<1>2. PICK k \in Missing : \A i \in Missing : k <= i
  BY <1>1, Least
<1>3. CASE k = 0
  <2> DEFINE g == [s \in SUBSET (1 .. 0) |-> m]
  <2>1. \A s \in SUBSET (1 .. 0) : s = {}
    OBVIOUS
  <2>2. IsRowFold(g, m, j, seq, 0)
    BY <2>1 DEF IsRowFold
  <2>3. QED
    BY <1>3, <2>2
<1>4. CASE k # 0
  <2> DEFINE c1 == k - 1
  <2>1. c1 \in Nat /\ c1 \notin Missing /\ k = c1 + 1
    BY <1>2, <1>4
  <2>2. PICK f : IsRowFold(f, m, j, seq, c1)
    BY <2>1
  <2> HIDE DEF c1
  <2> DEFINE Value(h, s) == IF s = {} THEN m
                ELSE bitmap_set(h[s \ {Max(s)}], seq[Max(s)], j, <<seq[Max(s)], j>>)
             g == [s \in SUBSET (1 .. k) |->
                     IF k \in s THEN bitmap_set(f[s \ {k}], seq[k], j, <<seq[k], j>>) ELSE f[s]]
  <2>3. \A s \in SUBSET (1 .. k) : k \notin s => s \in SUBSET (1 .. c1)
    BY <2>1
  <2>4. ASSUME NEW s \in SUBSET (1 .. k)
        PROVE  g[s] = Value(g, s)
    <3>1. CASE k \in s
      <4>1. Max(s) = k /\ s \ {k} \in SUBSET (1 .. c1)
        BY <2>1, <3>1, Largest
      <4>2. s \ {k} \in SUBSET (1 .. k) /\ k \notin s \ {k}
        OBVIOUS
      <4>3. g[s \ {k}] = f[s \ {k}]
        BY <4>2
      <4>4. g[s] = bitmap_set(f[s \ {k}], seq[k], j, <<seq[k], j>>)
        BY <3>1
      <4>5. QED
        BY <3>1, <4>1, <4>3, <4>4
    <3>2. CASE k \notin s
      <4>1. s \in SUBSET (1 .. c1)
        BY <2>3, <3>2
      <4>2. g[s] = f[s] /\ f[s] = Value(f, s)
        BY <2>2, <3>2, <4>1 DEF IsRowFold
      <4>3. s \ {Max(s)} \in SUBSET (1 .. k) /\ k \notin s \ {Max(s)}
        BY <3>2
      <4>4. g[s \ {Max(s)}] = f[s \ {Max(s)}]
        BY <4>3
      <4>5. QED
        BY <4>2, <4>4
    <3>3. QED
      BY <3>1, <3>2
  <2>5. g = [s \in SUBSET (1 .. k) |-> Value(g, s)]
    <3> HIDE DEF Value
    <3>1. QED
      BY <2>4
  <2>6. IsRowFold(g, m, j, seq, k)
    BY <2>5 DEF IsRowFold
  <2>7. QED
    BY <2>6
<1>5. QED
  BY <1>2, <1>3, <1>4

-----------------------------------------------------------------------------
(* Pixels and rows *)

Colours == {Blue} \cup (Nat \X Nat)

ImageOf(c, h) == [width : {c}, height : {h}, data : [0 .. c * h - 1 -> Colours]]

\* Each pixel has a place of its own.
LEMMA PixelPlace ==
    ASSUME NEW c \in Nat, NEW h \in Nat, NEW x \in 0 .. c - 1, NEW y \in 0 .. h - 1
    PROVE  /\ y * c + x \in 0 .. c * h - 1
           /\ \A v \in 0 .. c - 1, z \in 0 .. h - 1 :
                y * c + x = z * c + v => y = z /\ x = v
<1>1. ASSUME NEW a \in Nat, NEW b \in Nat, a < b
      PROVE  a * c + c <= b * c
  <2>1. b * c = a * c + c + (b - a - 1) * c
    BY <1>1
  <2>2. b - a - 1 \in Nat
    BY <1>1
  <2>3. (b - a - 1) * c >= 0
    BY <2>2
  <2>4. a * c \in Nat /\ b * c \in Nat
    BY <1>1
  <2>5. QED
    BY <2>1, <2>3, <2>4
<1>2. y * c + c <= h * c /\ h * c = c * h /\ y * c \in Nat /\ c * h \in Nat
  BY <1>1
<1>3. y * c + x \in 0 .. c * h - 1
  BY <1>2
<1>4. ASSUME NEW v \in 0 .. c - 1, NEW z \in 0 .. h - 1, y * c + x = z * c + v
      PROVE  y = z /\ x = v
  <2>1. y < z => y * c + c <= z * c
    BY <1>1
  <2>2. z < y => z * c + c <= y * c
    BY <1>1
  <2>3. y * c \in Nat /\ z * c \in Nat
    OBVIOUS
  <2>4. ~(y < z) /\ ~(z < y)
    BY <1>4, <2>1, <2>2, <2>3
  <2>5. y = z
    BY <2>4
  <2>6. QED
    BY <1>4, <2>3, <2>5
<1>5. QED
  BY <1>3, <1>4

\* s differs from r at most in the pixel with the index at, where it is v.
DiffersAt(s, r, c, h, at, v) ==
    \A k \in 0 .. c * h - 1 : s.data[k] = IF k = at THEN v ELSE r.data[k]

\* bitmap_set() changes the pixel it is given and no other.
LEMMA SetPixelData ==
    ASSUME NEW c \in Nat, NEW h \in Nat, NEW m \in ImageOf(c, h),
           NEW x \in 0 .. c - 1, NEW y \in 0 .. h - 1, NEW v \in Colours
    PROVE  /\ bitmap_set(m, x, y, v) \in ImageOf(c, h)
           /\ DiffersAt(bitmap_set(m, x, y, v), m, c, h, y * c + x, v)
<1> DEFINE at == y * c + x
           data == [m.data EXCEPT ![at] = v]
<1>1. m.width = c /\ m.height = h /\ m.data \in [0 .. c * h - 1 -> Colours]
  BY DEF ImageOf
<1>2. at \in 0 .. c * h - 1
  BY PixelPlace
<1>3. Index(m, x, y) = at
  <2>1. y % h = y /\ x % c = x
    OBVIOUS
  <2>2. QED
    BY <1>1, <2>1 DEF Index
<1>4. bitmap_set(m, x, y, v) = [m EXCEPT !.data = data]
  BY <1>1, <1>3 DEF bitmap_set, ImageOf
<1>5. /\ data \in [0 .. c * h - 1 -> Colours]
      /\ \A k \in 0 .. c * h - 1 : data[k] = IF k = at THEN v ELSE m.data[k]
  <2> HIDE DEF at
  <2>1. QED
    BY <1>1, <1>2
<1> HIDE DEF data
<1>6. bitmap_set(m, x, y, v) \in ImageOf(c, h) /\ bitmap_set(m, x, y, v).data = data
  BY <1>4, <1>5 DEF ImageOf
<1>7. QED
  BY <1>5, <1>6 DEF DiffersAt

\* The first i pixels of row j are computed, and nothing else.
RowUpTo(r, m, j, c, h, i) ==
    /\ r \in ImageOf(c, h)
    /\ \A y \in 0 .. h - 1, x \in 0 .. c - 1 :
        r.data[y * c + x] = IF y = j /\ x < i THEN <<x, j>> ELSE m.data[y * c + x]

\* One more pixel
LEMMA OneMorePixel ==
    ASSUME NEW c \in Nat, NEW h \in Nat, NEW m, NEW j \in 0 .. h - 1, NEW i \in 0 .. c - 1,
           NEW r, RowUpTo(r, m, j, c, h, i)
    PROVE  RowUpTo(bitmap_set(r, i, j, <<i, j>>), m, j, c, h, i + 1)
<1> DEFINE s == bitmap_set(r, i, j, <<i, j>>)
<1>1. <<i, j>> \in Colours /\ r \in ImageOf(c, h)
  BY DEF Colours, RowUpTo
<1>2. s \in ImageOf(c, h) /\ DiffersAt(s, r, c, h, j * c + i, <<i, j>>)
  BY <1>1, SetPixelData, Zenon
<1> HIDE DEF s
<1>3. ASSUME NEW y \in 0 .. h - 1, NEW x \in 0 .. c - 1
      PROVE  s.data[y * c + x] = IF y = j /\ x < i + 1 THEN <<x, j>> ELSE m.data[y * c + x]
  <2>1. /\ y * c + x \in 0 .. c * h - 1
        /\ y * c + x = j * c + i => y = j /\ x = i
    BY PixelPlace
  <2>2. r.data[y * c + x] = IF y = j /\ x < i THEN <<x, j>> ELSE m.data[y * c + x]
    BY DEF RowUpTo
  <2>3. CASE y = j /\ x = i
    BY <1>2, <2>1, <2>3 DEF DiffersAt
  <2>4. CASE ~(y = j /\ x = i)
    <3>1. s.data[y * c + x] = r.data[y * c + x]
      BY <1>2, <2>1, <2>4 DEF DiffersAt
    <3>2. y = j => (x < i + 1 <=> x < i)
      BY <2>4
    <3>3. QED
      BY <2>2, <3>1, <3>2
  <2>5. QED
    BY <2>3, <2>4
<1>4. QED
  BY <1>2, <1>3 DEF RowUpTo, s

\* All columns but the last
LEMMA ColumnsButLast ==
    ASSUME NEW i \in Nat \ {0}
    PROVE  Max(1 .. i) = i /\ (1 .. i) \ {i} = 1 .. i - 1 /\ 1 .. i # {}
<1>1. \A y \in 1 .. i : i >= y
  OBVIOUS
<1>2. \A x \in 1 .. i : (\A y \in 1 .. i : x >= y) => x = i
  OBVIOUS
<1>3. Max(1 .. i) = i
  BY <1>1, <1>2 DEF Max
<1>4. \A x : x \in (1 .. i) \ {i} <=> x \in 1 .. i - 1
  OBVIOUS
<1>5. i \in 1 .. i
  OBVIOUS
<1>6. QED
  BY <1>3, <1>4, <1>5, Zenon

\* The loop over a row computes its pixels and leaves the other rows alone.
LEMMA RowComputed ==
    ASSUME NEW c \in Nat, NEW h \in Nat, NEW m \in ImageOf(c, h), NEW j \in 0 .. h - 1
    PROVE  LET SetPixel(a, i) == bitmap_set(a, i, j, <<i, j>>)
           IN  RowUpTo(FoldLeft(SetPixel, m, Columns(c)), m, j, c, h, c)
<1> DEFINE SetPixel(a, i) == bitmap_set(a, i, j, <<i, j>>)
           g == CHOOSE f : IsRowFold(f, m, j, Columns(c), c)
<1>1. IsRowFold(g, m, j, Columns(c), c) /\ FoldLeft(SetPixel, m, Columns(c)) = g[1 .. c]
  <2>1. DOMAIN Columns(c) = 1 .. c
    BY DEF Columns
  <2>2. FoldLeft(SetPixel, m, Columns(c)) = g[1 .. c]
    BY <2>1 DEF FoldLeft, MapThenFoldSet, IsRowFold
  <2>3. QED
    BY <2>2, RowFoldExists
<1> HIDE DEF g
<1>2. ASSUME NEW i \in 0 .. c
      PROVE  g[1 .. i] = IF i = 0 THEN m ELSE bitmap_set(g[1 .. i - 1], i - 1, j, <<i - 1, j>>)
  <2>1. 1 .. i \in SUBSET (1 .. c)
    OBVIOUS
  <2>2. g[1 .. i] = IF 1 .. i = {} THEN m
                    ELSE bitmap_set(g[(1 .. i) \ {Max(1 .. i)}], Columns(c)[Max(1 .. i)], j,
                                    <<Columns(c)[Max(1 .. i)], j>>)
    BY <1>1, <2>1 DEF IsRowFold
  <2>3. CASE i = 0
    BY <2>2, <2>3
  <2>4. CASE i # 0
    <3>0. i \in Nat \ {0}
      BY <2>4
    <3>1. Max(1 .. i) = i /\ (1 .. i) \ {i} = 1 .. i - 1 /\ 1 .. i # {}
      BY <3>0, ColumnsButLast, Zenon
    <3>2. Columns(c)[i] = i - 1
      BY <2>4 DEF Columns
    <3>3. QED
      BY <2>2, <2>4, <3>1, <3>2
  <2>5. QED
    BY <2>3, <2>4
<1> DEFINE Bad == {i \in 0 .. c : ~RowUpTo(g[1 .. i], m, j, c, h, i)}
<1>3. ASSUME Bad # {}
      PROVE  FALSE
  <2>1. PICK i \in Bad : \A k \in Bad : i <= k
    <3>1. Bad \in SUBSET Nat
      OBVIOUS
    <3>2. QED
      BY <1>3, <3>1, Least
  <2>2. CASE i = 0
    <3>1. g[1 .. i] = m
      BY <1>2, <2>2
    <3>2. RowUpTo(m, m, j, c, h, i)
      BY <2>2 DEF RowUpTo
    <3>3. QED
      BY <3>1, <3>2
  <2>3. CASE i # 0
    <3>1. i - 1 \in 0 .. c /\ i - 1 \in 0 .. c - 1 /\ i - 1 + 1 = i
      BY <2>3
    <3>2. RowUpTo(g[1 .. i - 1], m, j, c, h, i - 1)
      BY <2>1, <3>1
    <3>3. g[1 .. i] = bitmap_set(g[1 .. i - 1], i - 1, j, <<i - 1, j>>)
      BY <1>2, <2>3
    <3>4. RowUpTo(g[1 .. i], m, j, c, h, i)
      BY <3>1, <3>2, <3>3, OneMorePixel
    <3>5. QED
      BY <3>4
  <2>4. QED
    BY <2>2, <2>3
<1>4. RowUpTo(g[1 .. c], m, j, c, h, c)
  BY <1>3
<1>5. QED
  BY <1>1, <1>4

-----------------------------------------------------------------------------
(* The bytes of a file *)

Bytes == Colours \X {"blue", "green", "red"}

\* A pixel is three bytes.
LEMMA ThreeBytes ==
    ASSUME NEW v \in Colours
    PROVE  PixelBytes(v) \in Seq(Bytes) /\ Len(PixelBytes(v)) = 3
<1>1. <<v, "blue">> \in Bytes /\ <<v, "green">> \in Bytes /\ <<v, "red">> \in Bytes
  BY DEF Bytes
<1>2. QED
  BY <1>1 DEF PixelBytes

\* A line is made up to a multiple of four bytes with less than it has pixels'.
LEMMA PaddedSize ==
    ASSUME NEW c \in Nat \ {0}
    PROVE  /\ Padding(c) \in 0 .. 3
           /\ LineSize(c) = 3 * c + Padding(c)
           /\ c % 4 = 0 => LineSize(c) = 3 * c
  BY DEF Padding, LineSize

\* bitmap_get() of a pixel of the image
LEMMA GetPixel ==
    ASSUME NEW c \in Nat, NEW h \in Nat, NEW m \in ImageOf(c, h),
           NEW x \in 0 .. c - 1, NEW y \in 0 .. h - 1
    PROVE  bitmap_get(m, x, y) = m.data[y * c + x] /\ m.data[y * c + x] \in Colours
<1>1. m.width = c /\ m.height = h /\ m.data \in [0 .. c * h - 1 -> Colours]
  BY DEF ImageOf
<1>2. y % h = y /\ x % c = x
  OBVIOUS
<1>3. y * c + x \in 0 .. c * h - 1
  BY PixelPlace
<1>4. Index(m, x, y) = y * c + x
  BY <1>1, <1>2 DEF Index
<1>5. QED
  BY <1>1, <1>3, <1>4 DEF bitmap_get

\* The bytes of a line of a file
LineOf(s, m, c, j) ==
    /\ s \in Seq(Bytes)
    /\ Len(s) = LineSize(c)
    /\ \A x \in 0 .. c - 1, b \in 1 .. 3 : s[3 * x + b] = PixelBytes(m.data[j * c + x])[b]

\* What bitmap_save() writes for a line
LEMMA LineBytes ==
    ASSUME NEW c \in Nat \ {0}, NEW h \in Nat, NEW m \in ImageOf(c, h), NEW j \in 0 .. h - 1
    PROVE  LineOf(PaddedLine(m, j), m, c, j)
<1> DEFINE pixels == [i \in 1 .. c |-> PixelBytes(bitmap_get(m, i - 1, j))]
           scan == FlattenSeq(pixels)
<1>1. Scanline(m, j) = scan
  BY DEF Scanline, ImageOf
<1>2. ASSUME NEW i \in 1 .. c
      PROVE  /\ pixels[i] = PixelBytes(m.data[j * c + (i - 1)])
             /\ pixels[i] \in Seq(Bytes)
             /\ Len(pixels[i]) = 3
  <2>1. /\ bitmap_get(m, i - 1, j) = m.data[j * c + (i - 1)]
        /\ m.data[j * c + (i - 1)] \in Colours
    BY GetPixel
  <2>2. QED
    BY <2>1, ThreeBytes
<1>3. pixels \in Seq(Seq(Bytes)) /\ Len(pixels) = c
  BY <1>2
<1> HIDE DEF pixels
<1>4. EqualParts(scan, pixels, 3, Bytes, c)
  <2>1. \A i \in 1 .. Len(pixels) : Len(pixels[i]) = 3
    BY <1>2, <1>3
  <2>2. QED
    BY <1>3, <2>1, FlattenEqual
<1> HIDE DEF scan
<1>5. scan \in Seq(Bytes) /\ Len(scan) = 3 * c
  BY <1>4 DEF EqualParts
<1> DEFINE pad == SubSeq(scan, 1, Padding(c))
<1>6. Padding(c) \in 0 .. 3 /\ LineSize(c) = 3 * c + Padding(c)
  BY PaddedSize
<1>7. pad \in Seq(Bytes) /\ Len(pad) = Padding(c)
  BY <1>5, <1>6
<1>8. PaddedLine(m, j) = scan \o pad
  BY <1>1 DEF PaddedLine, ImageOf
<1> HIDE DEF pad
<1>9. scan \o pad \in Seq(Bytes) /\ Len(scan \o pad) = LineSize(c)
  BY <1>5, <1>6, <1>7
<1>10. ASSUME NEW x \in 0 .. c - 1, NEW b \in 1 .. 3
       PROVE  (scan \o pad)[3 * x + b] = PixelBytes(m.data[j * c + x])[b]
  <2>1. 3 * x + b \in 1 .. 3 * c
    OBVIOUS
  <2>2. (scan \o pad)[3 * x + b] = scan[3 * x + b]
    BY <1>5, <1>7, <2>1
  <2>3. x + 1 \in 1 .. c /\ (x + 1) - 1 = x /\ x * 3 = 3 * x
    OBVIOUS
  <2>4. scan[((x + 1) - 1) * 3 + b] = pixels[x + 1][b]
    BY <1>4, <2>3 DEF EqualParts
  <2>5. pixels[x + 1] = PixelBytes(m.data[j * c + x])
    BY <1>2, <2>3
  <2>6. QED
    BY <2>2, <2>3, <2>4, <2>5
<1>11. QED
  BY <1>8, <1>9, <1>10 DEF LineOf

\* A file of m, its bytes where the format wants them
FileOf(f, m, c, h) ==
    /\ f.width = c
    /\ f.height = h
    /\ f.bytes \in Seq(Bytes)
    /\ Len(f.bytes) = LineSize(c) * h
    /\ \A x \in 0 .. c - 1, y \in 0 .. h - 1, b \in 1 .. 3 :
        f.bytes[LineSize(c) * y + 3 * x + b] = PixelBytes(m.data[y * c + x])[b]

\* What bitmap_save() writes
LEMMA FileBytes ==
    ASSUME NEW c \in Nat \ {0}, NEW h \in Nat \ {0}, NEW m \in ImageOf(c, h)
    PROVE  FileOf(bitmap_save(m), m, c, h)
<1> DEFINE lines == [j \in 1 .. h |-> PaddedLine(m, j - 1)]
           bytes == FlattenSeq(lines)
<1>1. /\ bitmap_save(m).width = c
      /\ bitmap_save(m).height = h
      /\ bitmap_save(m).bytes = bytes
  BY DEF bitmap_save, ImageOf
<1>2. ASSUME NEW j \in 1 .. h
      PROVE  LineOf(lines[j], m, c, j - 1)
  <2>1. j - 1 \in 0 .. h - 1
    OBVIOUS
  <2>2. QED
    BY <2>1, LineBytes
<1>3. lines \in Seq(Seq(Bytes)) /\ Len(lines) = h
  <2>1. \A j \in 1 .. h : lines[j] \in Seq(Bytes)
    BY <1>2 DEF LineOf
  <2>2. QED
    BY <2>1
<1> HIDE DEF lines
<1> DEFINE size == LineSize(c)
<1>4. size = 3 * c + Padding(c) /\ Padding(c) \in 0 .. 3
  BY PaddedSize
<1>5. EqualParts(bytes, lines, size, Bytes, h)
  <2>1. \A j \in 1 .. Len(lines) : Len(lines[j]) = size
    BY <1>2, <1>3 DEF LineOf
  <2>2. size \in Nat
    BY <1>4
  <2> HIDE DEF size
  <2>3. QED
    BY <1>3, <2>1, <2>2, FlattenEqual
<1> HIDE DEF bytes
<1>6. ASSUME NEW x \in 0 .. c - 1, NEW y \in 0 .. h - 1, NEW b \in 1 .. 3
      PROVE  bytes[size * y + 3 * x + b] = PixelBytes(m.data[y * c + x])[b]
  <2>1. y + 1 \in 1 .. h /\ (y + 1) - 1 = y
    OBVIOUS
  <2>2. 3 * x + b \in 1 .. size
    BY <1>4
  <2>3. bytes[((y + 1) - 1) * size + (3 * x + b)] = lines[y + 1][3 * x + b]
    BY <1>5, <2>1, <2>2 DEF EqualParts
  <2>4. lines[y + 1][3 * x + b] = PixelBytes(m.data[y * c + x])[b]
    <3>1. LineOf(lines[y + 1], m, c, (y + 1) - 1)
      BY <1>2, <2>1
    <3>2. LineOf(lines[y + 1], m, c, y)
      BY <2>1, <3>1
    <3>3. QED
      BY <3>2 DEF LineOf
  <2>5. ((y + 1) - 1) * size + (3 * x + b) = size * y + 3 * x + b
    <3> HIDE DEF size
    <3>1. size \in Nat
      BY <1>4
    <3>2. QED
      BY <2>1, <3>1
  <2>6. QED
    BY <2>3, <2>4, <2>5
<1>7. bytes \in Seq(Bytes) /\ Len(bytes) = size * h
  <2> HIDE DEF size
  <2>1. size \in Nat
    BY <1>4
  <2>2. QED
    BY <1>5, <2>1 DEF EqualParts
<1>8. QED
  BY <1>1, <1>6, <1>7 DEF FileOf

\* Three bytes of a sequence
LEMMA ThreeOf ==
    ASSUME NEW s \in Seq(Bytes), NEW at \in Nat, at + 3 <= Len(s), NEW v,
           \A b \in 1 .. 3 : s[at + b] = PixelBytes(v)[b]
    PROVE  SubSeq(s, at + 1, at + 3) = PixelBytes(v)
<1> DEFINE t == SubSeq(s, at + 1, at + 3)
<1>1. t \in Seq(Bytes) /\ Len(t) = 3 /\ \A b \in 1 .. 3 : t[b] = s[at + b]
  OBVIOUS
<1>2. PixelBytes(v) = [b \in 1 .. 3 |-> PixelBytes(v)[b]]
  BY DEF PixelBytes
<1>3. t = [b \in 1 .. 3 |-> t[b]]
  BY <1>1
<1>4. QED
  BY <1>1, <1>2, <1>3

-----------------------------------------------------------------------------
(* The pixels of the images *)

Width(p) == options[p].width

RowDone(m, c, y) == \A x \in 0 .. c - 1 : m.data[y * c + x] = <<x, y>>

\* A row of which all pixels are computed
LEMMA WholeRow ==
    ASSUME NEW r, NEW m, NEW c \in Nat, NEW h \in Nat, NEW j \in 0 .. h - 1,
           RowUpTo(r, m, j, c, h, c)
    PROVE  RowDone(r, c, j)
<1>1. SUFFICES ASSUME NEW x \in 0 .. c - 1
               PROVE  r.data[j * c + x] = <<x, j>>
  BY DEF RowDone
<1>2. r.data[j * c + x] = IF j = j /\ x < c THEN <<x, j>> ELSE m.data[j * c + x]
  BY DEF RowUpTo
<1>3. QED
  BY <1>2

\* The rows behind each thread's loop variable are computed.
RowsBehind(p) ==
    \A t \in 1 .. Len(next[p]) :
        /\ next[p][t] >= -1
        /\ \A y \in 0 .. Height(p) - 1 :
            YStart(Height(p), num_threads[p], t - 1) <= y /\ y < next[p][t] =>
                RowDone(bm[p], Width(p), y)

\* An image that was saved is complete, and so the file is the image's.
SavedWhole(p) ==
    /\ bm[p] \in ImageOf(Width(p), Height(p))
    /\ \A y \in 0 .. Height(p) - 1 : RowDone(bm[p], Width(p), y)
    /\ file[p] = bitmap_save(bm[p])

PixelsInv(p) ==
    /\ Width(p) \in Nat \ {0}
    /\ Alive(p) => bm[p] \in ImageOf(Width(p), Height(p)) /\ RowsBehind(p)
    /\ file[p] # None => SavedWhole(p)

PictureInv == DOMAIN bm = Procs /\ \A p \in Procs : PixelsInv(p)

\* No image has been begun.
LEMMA InitPicture ==
    ASSUME Init
    PROVE  PictureInv
<1>1. ASSUME NEW p \in Procs
      PROVE  PixelsInv(p)
  <2>1. options[p] \in UserOptions \cup {MovieOptions}
    BY DEF Init
  <2>2. Width(p) \in Nat \ {0}
    BY <2>1, MandelmovieAssumption DEF Width
  <2>3. ~Alive(p) /\ file[p] = None
    BY DEF Init, Alive
  <2>4. QED
    BY <2>2, <2>3 DEF PixelsInv
<1>2. DOMAIN bm = Procs
  BY DEF Init
<1>3. QED
  BY <1>1, <1>2 DEF PictureInv

\* A process whose image stays as it is
LEMMA SamePixels ==
    ASSUME NEW p \in Procs, PixelsInv(p), Alive(p)' => Alive(p), UNCHANGED options,
           num_threads'[p] = num_threads[p], bm'[p] = bm[p], next'[p] = next[p],
           file'[p] = file[p]
    PROVE  PixelsInv(p)'
<1>1. Width(p)' = Width(p) /\ Height(p)' = Height(p)
  BY DEF Width, Height
<1>2. RowsBehind(p) => RowsBehind(p)'
  BY <1>1 DEF RowsBehind
<1>3. SavedWhole(p) => SavedWhole(p)'
  BY <1>1 DEF SavedWhole
<1>4. QED
  BY <1>1, <1>2, <1>3 DEF PixelsInv

\* All processes but p are left alone.
LEMMA OtherPixels ==
    ASSUME PictureInv, NEW p \in Procs, PixelsInv(p)', DOMAIN bm' = Procs, UNCHANGED options,
           \A r \in Procs \ {p} :
               /\ phase'[r] = phase[r]
               /\ num_threads'[r] = num_threads[r]
               /\ bm'[r] = bm[r]
               /\ next'[r] = next[r]
               /\ file'[r] = file[r]
    PROVE  PictureInv'
<1>1. ASSUME NEW r \in Procs \ {p}
      PROVE  PixelsInv(r)'
  <2>1. Alive(r)' => Alive(r)
    BY DEF Alive
  <2>2. PixelsInv(r)
    BY DEF PictureInv
  <2>3. QED
    BY <2>1, <2>2, SamePixels
<1>2. QED
  BY <1>1 DEF PictureInv

\* A step of a process, or of its parent, that leaves all images alone
LEMMA QuietPixels ==
    ASSUME PictureInv, \A p \in Procs : Alive(p)' => Alive(p), UNCHANGED <<options, num_threads, bm, next, file>>
    PROVE  PictureInv'
  BY SamePixels DEF PictureInv

\* A new image is blue, and no row is claimed to be computed.
LEMMA BeginPixels ==
    ASSUME ImageInv, PictureInv, NEW p \in Procs, Begin(p)
    PROVE  PictureInv'
<1> USE DEF Begin
<1> DEFINE new == bitmap_create(options[p].width, Height(p), Blue)
<1>1. /\ Len(next[p]) = 0 /\ file[p] = None
      /\ Width(p) \in Nat \ {0} /\ Height(p) \in Nat \ {0}
  <2>1. ImageTypes /\ ThreadsInv(p) /\ PixelsInv(p) /\ phase[p] \in Early
    BY DEF ImageInv, PictureInv, Early
  <2>2. next[p] \in Seq(Int) /\ id[p] \in Seq(Nat) /\ Height(p) \in Nat \ {0}
    BY <2>1 DEF ImageTypes
  <2>3. QED
    BY <2>1, <2>2 DEF ThreadsInv, PixelsInv
<1>2. /\ phase' = [phase EXCEPT ![p] = "create"]
      /\ num_threads' = [num_threads EXCEPT ![p] = NumThreads(options[p])]
      /\ bm' = [bm EXCEPT ![p] = new]
      /\ UNCHANGED <<options, next, file>>
  OBVIOUS
<1>3. new \in ImageOf(Width(p), Height(p))
  BY <1>1 DEF bitmap_create, ImageOf, Colours, Width
<1> HIDE DEF new
<1>4. bm'[p] = new /\ DOMAIN bm' = Procs
  BY <1>2 DEF PictureInv
<1>5. Width(p)' = Width(p) /\ Height(p)' = Height(p)
  BY <1>2 DEF Width, Height
<1>6. RowsBehind(p)'
  BY <1>1, <1>2 DEF RowsBehind
<1>7. PixelsInv(p)'
  BY <1>1, <1>2, <1>3, <1>4, <1>5, <1>6 DEF PixelsInv
<1>8. \A r \in Procs \ {p} :
          /\ phase'[r] = phase[r]
          /\ num_threads'[r] = num_threads[r]
          /\ bm'[r] = bm[r]
          /\ next'[r] = next[r]
          /\ file'[r] = file[r]
  BY <1>2 DEF PictureInv, ImageInv, ImageTypes
<1>9. QED
  BY <1>2, <1>4, <1>7, <1>8, OtherPixels

\* A new thread has computed nothing.
LEMMA CreatePixels ==
    ASSUME ImageInv, PictureInv, NEW p \in Procs, CreateThread(p)
    PROVE  PictureInv'
<1> USE DEF CreateThread
<1>1. next[p] \in Seq(Int) /\ DOMAIN next = Procs /\ NotBegun = -1
  BY DEF ImageInv, ImageTypes, NotBegun
<1>2. /\ next' = [next EXCEPT ![p] = Append(@, NotBegun)]
      /\ UNCHANGED <<phase, options, num_threads, bm, file>>
  OBVIOUS
<1>3. next'[p] = Append(next[p], NotBegun) /\ \A r \in Procs \ {p} : next'[r] = next[r]
  BY <1>1, <1>2
<1>4. Width(p)' = Width(p) /\ Height(p)' = Height(p) /\ Alive(p)' = Alive(p)
  BY <1>2 DEF Width, Height, Alive
<1>5. ASSUME RowsBehind(p)
      PROVE  RowsBehind(p)'
  <2> DEFINE k == Len(next[p])
  <2>1. /\ k \in Nat /\ Len(next'[p]) = k + 1 /\ next'[p][k + 1] = -1
        /\ \A t \in 1 .. k : next'[p][t] = next[p][t]
    BY <1>1, <1>3
  <2> HIDE DEF k
  <2>2. ASSUME NEW t \in 1 .. k + 1
        PROVE  /\ next'[p][t] >= -1
               /\ \A y \in 0 .. Height(p) - 1 :
                    YStart(Height(p), num_threads[p], t - 1) <= y /\ y < next'[p][t] =>
                        RowDone(bm[p], Width(p), y)
    <3>1. CASE t = k + 1
      BY <2>1, <3>1
    <3>2. CASE t \in 1 .. k
      BY <1>5, <2>1, <3>2 DEF RowsBehind, k
    <3>3. QED
      BY <2>1, <3>1, <3>2, UpTo
  <2>3. QED
    BY <1>2, <1>4, <2>1, <2>2 DEF RowsBehind
<1>6. SavedWhole(p) => SavedWhole(p)'
  BY <1>2, <1>4 DEF SavedWhole
<1>7. PixelsInv(p)'
  BY <1>2, <1>4, <1>5, <1>6 DEF PixelsInv, PictureInv
<1>8. QED
  BY <1>2, <1>3, <1>7, OtherPixels DEF PictureInv

\* The rows of a thread are rows of the image.
LEMMA RowsInImage ==
    ASSUME NEW h \in Nat, NEW m \in 1 .. h, NEW t \in 0 .. m - 1
    PROVE  /\ YStart(h, m, t) \in Nat
           /\ YEnd(h, m, t) \in Nat
           /\ YEnd(h, m, t) <= h
<1> DEFINE q == h \div m
<1>1. q \in Nat /\ m * q <= h
  BY Quotient
<1>2. YStart(h, m, t) = q * t /\ YEnd(h, m, t) = IF t = m - 1 THEN h ELSE q * (t + 1)
  BY DEF YStart, YEnd
<1> HIDE DEF q
<1>3. q * (t + 1) <= q * m /\ q * m = m * q /\ q * (t + 1) \in Nat /\ q * t \in Nat
  BY <1>1, Monotone
<1>4. QED
  BY <1>1, <1>2, <1>3

\* What RowImage and the steps of a thread have in common
ThreadTypes(p, t) ==
    /\ Height(p) \in Nat \ {0} /\ Width(p) \in Nat \ {0}
    /\ num_threads[p] \in 1 .. Height(p)
    /\ t \in 1 .. Len(next[p])
    /\ ThreadId(p, t) = t - 1
    /\ t - 1 \in 0 .. num_threads[p] - 1
    /\ next[p] \in Seq(Int)
    /\ file[p] = None

\* A thread at work has them.
LEMMA TypesOfThread ==
    ASSUME ImageInv, PictureInv, NEW p \in Procs, NEW t \in DOMAIN next[p], Alive(p)
    PROVE  ThreadTypes(p, t) /\ bm[p] \in ImageOf(Width(p), Height(p)) /\ RowsBehind(p)
<1>1. ImageTypes /\ ThreadsInv(p) /\ JoinedInv(p) /\ PixelsInv(p)
  BY DEF ImageInv, PictureInv
<1>2. /\ num_threads[p] \in 1 .. Height(p) /\ file[p] = None
      /\ Len(next[p]) = Len(id[p]) /\ Len(id[p]) <= num_threads[p]
      /\ \A s \in 1 .. Len(id[p]) : id[p][s] = s - 1
  BY <1>1 DEF ThreadsInv, Alive
<1>3. Height(p) \in Nat \ {0} /\ Width(p) \in Nat \ {0} /\ next[p] \in Seq(Int) /\ id[p] \in Seq(Nat)
  BY <1>1 DEF ImageTypes, PixelsInv
<1>4. t \in 1 .. Len(next[p]) /\ t \in 1 .. Len(id[p])
  BY <1>2, <1>3, SMTT(30)
<1>5. QED
  BY <1>1, <1>2, <1>3, <1>4, SMTT(30) DEF ThreadTypes, PixelsInv, ThreadId

\* A thread's loop variable becomes v, and the rows behind it are computed.
LEMMA NextPixels ==
    ASSUME ImageInv, PictureInv, NEW p \in Procs, NEW t \in DOMAIN next[p], Alive(p),
           NEW v \in Int, v >= -1, NEW m \in ImageOf(Width(p), Height(p)),
           next' = [next EXCEPT ![p][t] = v],
           bm'[p] = m, DOMAIN bm' = Procs, \A r \in Procs \ {p} : bm'[r] = bm[r],
           \A y \in 0 .. Height(p) - 1 :
               RowDone(bm[p], Width(p), y) => RowDone(m, Width(p), y),
           \A y \in 0 .. Height(p) - 1 :
               YStart(Height(p), num_threads[p], t - 1) <= y /\ y < v => RowDone(m, Width(p), y),
           UNCHANGED <<phase, options, num_threads, file>>
    PROVE  PictureInv'
<1>1. ThreadTypes(p, t) /\ RowsBehind(p) /\ DOMAIN bm = Procs /\ DOMAIN next = Procs
  BY TypesOfThread DEF PictureInv, ImageInv, ImageTypes
<1>2. next'[p] = [next[p] EXCEPT ![t] = v] /\ \A r \in Procs \ {p} : next'[r] = next[r]
  BY <1>1
<1>3. /\ Len(next'[p]) = Len(next[p]) /\ next'[p][t] = v
      /\ \A s \in 1 .. Len(next[p]) : s # t => next'[p][s] = next[p][s]
  BY <1>1, <1>2 DEF ThreadTypes
<1>5. Width(p)' = Width(p) /\ Height(p)' = Height(p)
  BY DEF Width, Height
<1>6. RowsBehind(p)'
  <2>1. ASSUME NEW s \in 1 .. Len(next[p])
        PROVE  /\ next'[p][s] >= -1
               /\ \A y \in 0 .. Height(p) - 1 :
                    YStart(Height(p), num_threads[p], s - 1) <= y /\ y < next'[p][s] =>
                        RowDone(m, Width(p), y)
    <3>1. CASE s = t
      BY <1>3, <3>1
    <3>2. CASE s # t
      <4>1. next'[p][s] = next[p][s]
        BY <1>3, <3>2
      <4>2. QED
        BY <1>1, <4>1 DEF RowsBehind
    <3>3. QED
      BY <3>1, <3>2
  <2>2. QED
    BY <1>3, <1>5, <2>1 DEF RowsBehind
<1>7. PixelsInv(p)'
  BY <1>1, <1>5, <1>6 DEF PixelsInv, ThreadTypes
<1>8. QED
  BY <1>2, <1>7, OtherPixels

\* A thread that computes its bounds
LEMMA BeginRowsPixels ==
    ASSUME ImageInv, PictureInv, NEW p \in Procs, NEW t \in DOMAIN next[p], BeginRows(p, t)
    PROVE  PictureInv'
<1> DEFINE v == YStart(Height(p), num_threads[p], ThreadId(p, t))
<1>1. /\ Alive(p)
      /\ next' = [next EXCEPT ![p][t] = v]
      /\ UNCHANGED <<phase, options, num_threads, bm, file>>
  BY DEF BeginRows
<1>2. ThreadTypes(p, t) /\ bm[p] \in ImageOf(Width(p), Height(p))
  BY <1>1, TypesOfThread
<1>3. v \in Nat /\ v = YStart(Height(p), num_threads[p], t - 1)
  BY <1>2, RowsInImage DEF ThreadTypes
<1> HIDE DEF v
<1>4. DOMAIN bm' = Procs /\ \A r \in Procs : bm'[r] = bm[r]
  BY <1>1 DEF PictureInv
<1>5. \A y \in 0 .. Height(p) - 1 :
          YStart(Height(p), num_threads[p], t - 1) <= y /\ y < v => RowDone(bm[p], Width(p), y)
  BY <1>3
<1>6. v \in Int /\ v >= -1
  BY <1>3
<1>7. QED
  BY <1>1, <1>2, <1>4, <1>5, <1>6, NextPixels

\* A row is computed, and no other one is touched.
LEMMA ComputeRowPixels ==
    ASSUME ImageInv, PictureInv, NEW p \in Procs, NEW t \in DOMAIN next[p], ComputeRow(p, t)
    PROVE  PictureInv'
<1> DEFINE j == next[p][t]
           c == Width(p)
           h == Height(p)
           SetPixel(a, i) == bitmap_set(a, i, j, <<i, j>>)
           m == FoldLeft(SetPixel, bm[p], Columns(c))
<1>1. /\ Alive(p)
      /\ j # NotBegun
      /\ j < End(p, t)
      /\ next' = [next EXCEPT ![p][t] = j + 1]
      /\ UNCHANGED <<phase, options, num_threads, file>>
  BY Zenon DEF ComputeRow
<1>2. ThreadTypes(p, t) /\ bm[p] \in ImageOf(c, h) /\ RowsBehind(p)
  BY <1>1, TypesOfThread
<1>3. bm' = [bm EXCEPT ![p] = m]
  <2>1. bm[p].width = c
    BY <1>2 DEF ImageOf
  <2>2. bm' = [bm EXCEPT ![p] = FoldLeft(SetPixel, bm[p], [i \in 1 .. bm[p].width |-> i - 1])]
    BY DEF ComputeRow
  <2>3. QED
    BY <2>1, <2>2 DEF Columns
<1>4. j \in 0 .. h - 1 /\ j \in Int
  <2>1. j \in Int /\ j >= -1
    BY <1>2 DEF ThreadTypes, RowsBehind
  <2>2. End(p, t) \in Nat /\ End(p, t) <= h
    BY <1>2, RowsInImage DEF End, ThreadTypes
  <2>3. j # -1 /\ j < End(p, t)
    BY <1>1 DEF NotBegun
  <2>4. h \in Nat
    BY <1>2 DEF ThreadTypes
  <2> DEFINE e == End(p, t)
  <2>5. e \in Nat /\ e <= h /\ j < e
    BY <2>2, <2>3
  <2> HIDE DEF h, j, e
  <2>6. QED
    BY <2>1, <2>3, <2>4, <2>5
<1>5. c \in Nat /\ h \in Nat
  BY <1>2 DEF ThreadTypes
<1> HIDE DEF c, h, j
<1>6. RowUpTo(m, bm[p], j, c, h, c)
  BY <1>2, <1>4, <1>5, RowComputed
<1> HIDE DEF m
<1>7. m \in ImageOf(c, h)
  BY <1>6 DEF RowUpTo
<1>8. \A y \in 0 .. h - 1 : RowDone(bm[p], c, y) => RowDone(m, c, y)
  BY <1>5, <1>6 DEF RowUpTo, RowDone
<1>9. RowDone(m, c, j)
  BY <1>4, <1>5, <1>6, WholeRow
<1>10. ASSUME NEW y \in 0 .. h - 1, YStart(h, num_threads[p], t - 1) <= y, y < j + 1
       PROVE  RowDone(m, c, y)
  <2>1. CASE y = j
    BY <1>9, <2>1
  <2>2. CASE y # j
    <3>1. y < j
      BY <1>4, <1>5, <1>10, <2>2
    <3>2. t \in 1 .. Len(next[p])
      BY <1>2 DEF ThreadTypes
    <3>3. RowDone(bm[p], c, y)
      BY <1>2, <1>10, <3>1, <3>2 DEF RowsBehind, c, h, j
    <3>4. QED
      BY <1>8, <3>3
  <2>3. QED
    BY <2>1, <2>2
<1>11. j + 1 \in Int /\ j + 1 >= -1
  BY <1>4, <1>5
<1>12. bm'[p] = m /\ DOMAIN bm' = Procs /\ \A r \in Procs \ {p} : bm'[r] = bm[r]
  BY <1>3 DEF PictureInv
<1>13. QED
  BY <1>1, <1>12, <1>7, <1>8, <1>10, <1>11, NextPixels DEF c, h

\* All rows of an image are behind the threads when all of them are joined.
LEMMA SavePixels ==
    ASSUME ImageInv, PictureInv, NEW p \in Procs, Save(p)
    PROVE  PictureInv'
<1> USE DEF Save, Exit
<1>1. ImageTypes /\ ThreadsInv(p) /\ JoinedInv(p) /\ PixelsInv(p)
  BY DEF ImageInv, PictureInv
<1>2. /\ num_threads[p] \in 1 .. Height(p) /\ Height(p) \in Nat
      /\ Len(next[p]) = num_threads[p] /\ next[p] \in Seq(Int)
      /\ bm[p] \in ImageOf(Width(p), Height(p)) /\ RowsBehind(p)
      /\ \A t \in 1 .. num_threads[p] :
          next[p][t] >= YEnd(Height(p), num_threads[p], t - 1)
  BY <1>1 DEF ImageTypes, ThreadsInv, JoinedInv, PixelsInv, Alive
<1>3. ASSUME NEW y \in 0 .. Height(p) - 1
      PROVE  RowDone(bm[p], Width(p), y)
  <2>1. PICK s \in 0 .. num_threads[p] - 1 :
            /\ YStart(Height(p), num_threads[p], s) <= y
            /\ y < YEnd(Height(p), num_threads[p], s)
    BY <1>2, EveryRowHasThread
  <2>2. s + 1 \in 1 .. num_threads[p] /\ (s + 1) - 1 = s
    BY <1>2
  <2>3. YEnd(Height(p), num_threads[p], s) \in Nat
    BY <1>2, RowsInImage
  <2>4. next[p][s + 1] \in Int /\ next[p][s + 1] >= YEnd(Height(p), num_threads[p], s)
    BY <1>2, <2>2
  <2> DEFINE e == YEnd(Height(p), num_threads[p], s)
             v == next[p][s + 1]
  <2>5. y < v
    <3>1. y \in Int /\ y < e /\ e \in Int /\ v \in Int /\ v >= e
      BY <2>1, <2>3, <2>4
    <3> HIDE DEF e, v
    <3>2. QED
      BY <3>1
  <2>6. QED
    BY <1>2, <2>1, <2>2, <2>5 DEF RowsBehind
<1>4. UNCHANGED <<options, num_threads, bm, next>>
  OBVIOUS
<1>5. Width(p)' = Width(p) /\ Height(p)' = Height(p)
  BY <1>4 DEF Width, Height
<1>6. file'[p] = bitmap_save(bm[p]) /\ \A r \in Procs \ {p} : file'[r] = file[r]
  BY <1>1 DEF ImageTypes
<1>7. SavedWhole(p)'
  BY <1>2, <1>3, <1>4, <1>5, <1>6 DEF SavedWhole
<1>8. phase'[p] = "exited" /\ \A r \in Procs \ {p} : phase'[r] = phase[r]
  BY <1>1 DEF ImageTypes
<1>9. PixelsInv(p)'
  BY <1>1, <1>5, <1>7, <1>8 DEF PixelsInv, Alive
<1>10. QED
  BY <1>4, <1>6, <1>8, <1>9, OtherPixels DEF PictureInv

\* No step breaks an image's pixels.
LEMMA StepPicture ==
    ASSUME ImageInv, PictureInv, PoolInv, [Next]_vars
    PROVE  PictureInv'
<1>0. phase \in [Procs -> Phases]
  BY DEF ImageInv, ImageTypes
<1>1. ASSUME UNCHANGED <<options, num_threads, bm, next, file>>,
             NEW p, NEW q, q \notin {"create", "join"}, phase' = [phase EXCEPT ![p] = q]
      PROVE  PictureInv'
  <2>1. \A r \in Procs : Alive(r)' => Alive(r)
    BY <1>0, <1>1 DEF Alive
  <2>2. QED
    BY <1>1, <2>1, QuietPixels
<1>2. CASE Fork \/ ForkFails
  BY <1>1, <1>2 DEF Fork, ForkFails, progress
<1>3. ASSUME NEW p \in Procs, Exec(p) \/ ExecFails(p) \/ MainFails(p) \/ Reap(p)
      PROVE  PictureInv'
  BY <1>1, <1>3 DEF Exec, ExecFails, MainFails, CreateFails, SaveFails, Exit, Reap, progress
<1>4. CASE Wait \/ WaitFails \/ Cleanup \/ Skip \/ NextImage \/ Return \/ UNCHANGED vars
  <2>1. \/ UNCHANGED <<phase, options, num_threads, bm, next, file>>
        \/ \E p \in Procs : Reap(p)
    BY <1>4 DEF Wait, WaitFails, Cleanup, Skip, NextImage, Return, vars, mandelVars
  <2>2. CASE UNCHANGED <<phase, options, num_threads, bm, next, file>>
    BY <2>2, QuietPixels DEF Alive
  <2>3. QED
    BY <1>3, <2>1, <2>2
<1>5. ASSUME NEW p \in Procs, Join(p)
      PROVE  PictureInv'
  <2>1. UNCHANGED <<options, num_threads, bm, next, file>> /\ phase' = [phase EXCEPT ![p] = "join"]
        /\ Alive(p)
    BY <1>5 DEF Join, Alive
  <2>2. \A r \in Procs : Alive(r)' => Alive(r)
    BY <1>0, <2>1 DEF Alive
  <2>3. QED
    BY <2>1, <2>2, QuietPixels
<1>6. ASSUME NEW p \in Procs, Begin(p) \/ CreateThread(p) \/ Save(p)
      PROVE  PictureInv'
  BY <1>6, BeginPixels, CreatePixels, SavePixels
<1>7. ASSUME NEW p \in Procs, NEW t \in DOMAIN next[p], Thread(p, t)
      PROVE  PictureInv'
  BY <1>7, BeginRowsPixels, ComputeRowPixels DEF Thread
<1>8. QED
  BY <1>2, <1>3, <1>4, <1>5, <1>6, <1>7 DEF Next, Parent, MandelNext, MainThread

\* The inductive invariant of the pixels: the rows behind a thread are computed,
\* and a saved image is complete.
THEOREM PictureInvariant == Spec => [](ImageInv /\ PictureInv)
<1>1. Init => ImageInv /\ PictureInv /\ PoolInv
  BY InitImage, InitPicture, InitPool
<1>2. (ImageInv /\ PictureInv /\ PoolInv) /\ [Next]_vars => (ImageInv /\ PictureInv /\ PoolInv)'
  BY StepImage, StepPicture, StepPool
<1>3. QED
  BY <1>1, <1>2, PTL DEF Spec

\* What a saved image's file has for each pixel
LEMMA SavedPixel ==
    ASSUME ImageInv, PictureInv, NEW p \in Procs, file[p] # None,
           NEW x \in 0 .. file[p].width - 1, NEW y \in 0 .. file[p].height - 1
    PROVE  /\ file[p].width = Width(p) /\ file[p].height = Height(p)
           /\ bm[p].data[y * Width(p) + x] = <<x, y>>
           /\ SubSeq(file[p].bytes, LineSize(Width(p)) * y + 3 * x + 1,
                     LineSize(Width(p)) * y + 3 * x + 3) = PixelBytes(<<x, y>>)
<1> DEFINE c == Width(p)
           h == Height(p)
           f == file[p]
           at == LineSize(c) * y + 3 * x
<1>1. c \in Nat \ {0} /\ h \in Nat \ {0} /\ SavedWhole(p)
  BY DEF ImageInv, ImageTypes, PictureInv, PixelsInv
<1>2. bm[p] \in ImageOf(c, h) /\ f = bitmap_save(bm[p])
  BY <1>1 DEF SavedWhole
<1>3. /\ f.width = c /\ f.height = h
      /\ f.bytes \in Seq(Bytes) /\ Len(f.bytes) = LineSize(c) * h
      /\ \A v \in 0 .. c - 1, z \in 0 .. h - 1, b \in 1 .. 3 :
          f.bytes[LineSize(c) * z + 3 * v + b] = PixelBytes(bm[p].data[z * c + v])[b]
  <2>1. FileOf(f, bm[p], c, h)
    BY <1>1, <1>2, FileBytes
  <2> HIDE DEF c, h, f
  <2>2. QED
    BY <2>1 DEF FileOf
<1>4. x \in 0 .. c - 1 /\ y \in 0 .. h - 1
  BY <1>3
<1>5. bm[p].data[y * c + x] = <<x, y>>
  BY <1>1, <1>4 DEF SavedWhole, RowDone
<1>6. at \in Nat /\ at + 3 <= Len(f.bytes)
  <2> DEFINE size == LineSize(c)
  <2>1. size \in Nat /\ 3 * c <= size
    BY <1>1, PaddedSize
  <2> HIDE DEF size, c, h, f
  <2>2. size * h = size * y + size + size * (h - 1 - y) /\ h - 1 - y \in Nat
    BY <1>1, <1>4, <2>1
  <2>3. size * (h - 1 - y) >= 0 /\ size * y \in Nat
    BY <1>4, <2>1, <2>2
  <2>4. 3 * x + 3 <= 3 * c
    BY <1>1, <1>4
  <2>5. size * y + 3 * x \in Nat /\ size * y + 3 * x + 3 <= size * h
    BY <1>1, <1>4, <2>1, <2>2, <2>3, <2>4
  <2>6. QED
    BY <1>3, <2>5 DEF size
<1>7. \A b \in 1 .. 3 : f.bytes[at + b] = PixelBytes(<<x, y>>)[b]
  BY <1>3, <1>4, <1>5
<1>8. SubSeq(f.bytes, at + 1, at + 3) = PixelBytes(<<x, y>>)
  <2> HIDE DEF at
  <2>1. QED
    BY <1>3, <1>6, <1>7, ThreeOf
<1>9. QED
  BY <1>3, <1>5, <1>8

\* A saved file is the whole image, every pixel as computed and in its place, for
\* every size of image, number of threads and interleaving.
THEOREM SavedImagesComplete == Spec => []SavedImageComplete
<1>1. ImageInv /\ PictureInv => SavedImageComplete
  <2> SUFFICES ASSUME ImageInv, PictureInv PROVE PixelsInPlace
    BY InvRowsComputed DEF SavedImageComplete
  <2>1. ASSUME NEW p \in Procs, file[p] # None
        PROVE  Len(file[p].bytes) = LineSize(file[p].width) * file[p].height
    <3>1. Width(p) \in Nat \ {0} /\ Height(p) \in Nat \ {0} /\ SavedWhole(p)
      BY <2>1 DEF ImageInv, ImageTypes, PictureInv, PixelsInv
    <3>2. QED
      BY <3>1, FileBytes DEF SavedWhole, FileOf
  <2>2. ASSUME NEW p \in Procs, file[p] # None,
               NEW x \in 0 .. file[p].width - 1, NEW y \in 0 .. file[p].height - 1
        PROVE  SubSeq(file[p].bytes, LineSize(file[p].width) * y + 3 * x + 1,
                      LineSize(file[p].width) * y + 3 * x + 3) = PixelBytes(<<x, y>>)
    BY <2>2, SavedPixel
  <2>3. QED
    BY <2>1, <2>2 DEF PixelsInPlace
<1>2. QED
  BY <1>1, PictureInvariant, PTL

\* Every index is the place of a pixel.
LEMMA PlaceOfPixel ==
    ASSUME NEW c \in Nat \ {0}, NEW h \in Nat, NEW k \in 0 .. c * h - 1
    PROVE  \E x \in 0 .. c - 1, y \in 0 .. h - 1 : k = y * c + x
<1> DEFINE y == k \div c
           x == k - c * y
<1>1. k \in Nat /\ c * h \in Nat
  OBVIOUS
<1>2. y \in Nat /\ c * y <= k /\ k < c * y + c
  BY <1>1, Quotient
<1> HIDE DEF y
<1>3. x \in 0 .. c - 1 /\ k = y * c + x
  BY <1>1, <1>2
<1>4. y < h
  <2>1. SUFFICES ASSUME h <= y PROVE FALSE
    BY <1>2
  <2>2. c * h <= c * y
    BY <1>2, <2>1, Monotone
  <2>3. QED
    BY <1>1, <1>2, <2>2
<1>5. y \in 0 .. h - 1
  BY <1>2, <1>4
<1> HIDE DEF x
<1>6. QED
  BY <1>3, <1>5

\* What bitmap_load() reads is what was saved, for every width that is a multiple
\* of four.
THEOREM SavedImagesLoad == Spec => []LoadsBack
<1>1. ImageInv /\ PictureInv => LoadsBack
  <2> SUFFICES ASSUME ImageInv, PictureInv, NEW p \in Procs, file[p] # None,
                      file[p].width % 4 = 0, NEW k \in DOMAIN bm[p].data
               PROVE  bitmap_load(file[p])[k] = PixelBytes(bm[p].data[k])
    BY DEF LoadsBack
  <2> DEFINE c == Width(p)
             h == Height(p)
             f == file[p]
  <2>1. c \in Nat \ {0} /\ h \in Nat \ {0} /\ SavedWhole(p)
    BY DEF ImageInv, ImageTypes, PictureInv, PixelsInv
  <2>2. bm[p] \in ImageOf(c, h) /\ f.width = c /\ f.height = h
    BY <2>1, FileBytes DEF SavedWhole, FileOf
  <2>3. k \in 0 .. c * h - 1
    BY <2>2 DEF ImageOf
  <2> HIDE DEF c, h
  <2>4. PICK x \in 0 .. c - 1, y \in 0 .. h - 1 : k = y * c + x
    BY <2>1, <2>3, PlaceOfPixel
  <2>5. bitmap_load(f)[k] = SubSeq(f.bytes, 3 * k + 1, 3 * k + 3)
    BY <2>2, <2>3 DEF bitmap_load
  <2>6. /\ bm[p].data[y * c + x] = <<x, y>>
        /\ SubSeq(f.bytes, LineSize(c) * y + 3 * x + 1, LineSize(c) * y + 3 * x + 3)
             = PixelBytes(<<x, y>>)
    BY <2>2, SavedPixel DEF c
  <2>7. LineSize(c) * y + 3 * x = 3 * k
    <3>1. LineSize(c) = 3 * c
      BY <2>1, <2>2, PaddedSize
    <3>2. QED
      BY <2>1, <2>4, <3>1
  <2>8. QED
    BY <2>4, <2>5, <2>6, <2>7
<1>2. QED
  BY <1>1, PictureInvariant, PTL

=============================================================================
