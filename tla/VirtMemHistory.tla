--------------------------- MODULE VirtMemHistory ---------------------------
(***************************************************************************)
(* VirtMem with history variables that record, for every frame, when its   *)
(* page came in, last faulted and was last touched.  They state what an    *)
(* eviction policy promises; the program keeps none of them.               *)
(***************************************************************************)
EXTENDS VirtMem

VARIABLES           \* pairs of frames in use, in the order in which
    loaded,         \* their pages came in
    faulted,        \* their pages last faulted
    touched         \* their pages were last accessed

history == <<loaded, faulted, touched>>

InUse == Frames \ EmptyFrames

HInit == Init /\ loaded = {} /\ faulted = {} /\ touched = {}

MoveToEnd(order, f) ==
    {pair \in order : f \notin {pair[1], pair[2]}} \cup {<<g, f>> : g \in InUse \ {f}}

\* f comes before every other frame in use.
First(order, f) == \A g \in InUse \ {f} : <<f, g>> \in order

\* The frame of the current access, after the step
FrameAfter == page_mapping'[access.page]

HNext ==
    \/ (Issue \/ Abort \/ Exit) /\ UNCHANGED history
    \/ /\ Read \/ Write
       /\ touched' = MoveToEnd(touched, FrameAfter)
       /\ UNCHANGED <<loaded, faulted>>
    \/ /\ Fault
       /\ loaded' = IF Absent THEN MoveToEnd(loaded, FrameAfter) ELSE loaded
       /\ faulted' = MoveToEnd(faulted, FrameAfter)
       /\ touched' = MoveToEnd(touched, FrameAfter)

HSpec == HInit /\ [][HNext]_<<vars, history>>

\* The step takes frame f from the page it holds.
Evicts(f) ==
    /\ frameTable[f].bits # NONE
    /\ frameTable'[f].page # frameTable[f].page

\* The fifo handler evicts the page that came in first: what the option
\* "fifo" of main.c:60 names.
FifoEvictsOldest ==
    [][handler = "fifo" =>
          \A f \in Frames : Evicts(f) => First(loaded, f)]_vars

\* It does so as long as every fault has brought a page in, whatever frameArr
\* held at the start: currFrame and the frames filled stay in step.
FifoEvictsOldestAtFirst ==
    [][handler = "fifo" /\ diskReads = pageFaults =>
          \A f \in Frames : Evicts(f) => First(loaded, f)]_vars

\* The lru handler evicts the page whose last fault is the longest ago; the
\* ages in pageUsage start from uninitialised memory, are reset on a fault
\* only and must still never be mixed up.
LruEvictsLongestUnfaulted ==
    [][handler = "lru" =>
          \A f \in Frames : Evicts(f) => First(faulted, f)]_vars

\* The least recently used page is evicted: what main.c:90 and lab_report.pdf
\* ("what was untouched for the longest time would be replaced") say of the
\* custom algorithm.
LruEvictsLeastRecentlyUsed ==
    [][handler = "lru" =>
          \A f \in Frames : Evicts(f) => First(touched, f)]_vars

=============================================================================
