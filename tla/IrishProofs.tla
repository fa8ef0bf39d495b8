---------------------------- MODULE IrishProofs ----------------------------
(***************************************************************************)
(* Proofs about Irish, for every number of processes and clients: a state  *)
(* that is final in a table is final, since what is listed as completed    *)
(* has been waited for and no signal can reach it any more; what is listed *)
(* is there; and what the other states in a table say of the processes.    *)
(***************************************************************************)
EXTENDS Irish, TLAPS

KernelStates == Live \cup {"none", "zombie", "gone"}

\* fg waits for a process.
FgHasTarget == \A s \in Processes : pc[s] = "fg" => target[s] \in Pids

\* What a table lists as completed has been waited for.
CompletedIsGone ==
    \A s \in Processes : \A p \in DOMAIN processes[s] :
        processes[s][p] = "Completed" => proc[p] = "gone"

\* A process that has not been started knows of no other, and is no shell.
UnstartedKnowNothing ==
    \A p \in Processes : proc[p] = "none" => processes[p] = <<>> /\ pc[p] = "exec"

TableInv == IrishTypeOK /\ FgHasTarget /\ CompletedIsGone /\ UnstartedKnowNothing

\* Processes that have been waited for stay so, and processes are only started
\* by a shell.
KernelKeeps ==
    /\ proc' \in [Processes -> KernelStates]
    /\ parent' \in [Processes -> Processes \cup {None}]
    /\ spared' \subseteq Pids /\ spared \subseteq spared'
    /\ \A p \in Processes : proc[p] = "gone" => proc'[p] = "gone"
    /\ \A p \in Processes : proc'[p] = "none" => proc[p] = "none"

-----------------------------------------------------------------------------
(* The kernel *)

\* A signal changes the state of live processes only.
LEMMA AfterKeeps ==
    ASSUME NEW st \in KernelStates, NEW sig
    PROVE  /\ After(st, sig) \in KernelStates
           /\ st \notin Live => After(st, sig) = st
           /\ st \in Live => After(st, sig) \in Live \cup {"zombie"}
  BY DEF After, KernelStates, Live

\* What Settle() may be given: a state for each process that is one of its own
\* unless it was live.
SettleArgument(st) ==
    /\ st \in [Processes -> KernelStates]
    /\ \A p \in Processes : proc[p] \notin Live => st[p] = proc[p]
    /\ \A p \in Processes : proc[p] \in Live => st[p] \in Live \cup {"zombie"}

\* The kernel settles.
KernelStep(st, kept) == SettleArgument(st) /\ kept \subseteq Pids /\ Settle(st, kept)

\* It leaves the states as they are, or hangs up the processes left behind by
\* the user's shell.
LEMMA SettleFacts ==
    ASSUME IrishTypeOK, NEW st, NEW kept, KernelStep(st, kept)
    PROVE  \E new, hup :
              /\ SettleArgument(new)
              /\ hup \subseteq Pids
              /\ spared' = spared \cup kept \cup hup
              /\ Adopt(new)
              /\ IF Orphaned(st) THEN new = HangUp(st, hup) ELSE new = st
<1>1. CASE ~Orphaned(st)
  <2>1. /\ SettleArgument(st)
        /\ {} \subseteq Pids
        /\ spared' = spared \cup kept \cup {}
        /\ Adopt(st)
    BY <1>1 DEF KernelStep, Settle
  <2> WITNESS st, {}
  <2> QED
    BY <1>1, <2>1
<1>2. CASE Orphaned(st)
  <2>1. PICK hup \in SUBSET Withstanding(st) :
            Adopt(HangUp(st, hup)) /\ spared' = spared \cup kept \cup hup
    BY <1>2 DEF KernelStep, Settle
  <2>2. ASSUME NEW p \in Processes, NEW a,
               a = IF p \in hup THEN st[p] ELSE After(st[p], "SIGHUP")
        PROVE  /\ After(a, "SIGCONT") \in KernelStates
               /\ st[p] \notin Live => After(a, "SIGCONT") = st[p]
               /\ st[p] \in Live => After(a, "SIGCONT") \in Live \cup {"zombie"}
    <3>1. st[p] \in KernelStates
      BY DEF KernelStep, SettleArgument
    <3>2. /\ a \in KernelStates
          /\ st[p] \notin Live => a = st[p]
          /\ st[p] \in Live => a \in Live \cup {"zombie"}
      BY <2>2, <3>1, AfterKeeps
    <3>3. /\ After(a, "SIGCONT") \in KernelStates
          /\ a \notin Live => After(a, "SIGCONT") = a
          /\ a \in Live => After(a, "SIGCONT") \in Live \cup {"zombie"}
      BY <3>2, AfterKeeps
    <3>4. QED
      BY <3>2, <3>3 DEF Live
  <2>3. /\ HangUp(st, hup) \in [Processes -> KernelStates]
        /\ \A p \in Processes :
              /\ st[p] \notin Live => HangUp(st, hup)[p] = st[p]
              /\ st[p] \in Live => HangUp(st, hup)[p] \in Live \cup {"zombie"}
    BY <2>2 DEF HangUp
  <2>4. SettleArgument(HangUp(st, hup))
    BY <2>3 DEF KernelStep, SettleArgument, Live
  <2>5. hup \subseteq Pids
    BY DEF Withstanding
  <2>6. QED
    BY <1>2, <2>1, <2>4, <2>5
<1>3. QED
  BY <1>1, <1>2

\* A new state of live processes never revives what has been waited for.
LEMMA SettleKeeps ==
    ASSUME IrishTypeOK, NEW st, NEW kept, KernelStep(st, kept)
    PROVE  KernelKeeps
<1> USE DEF IrishTypeOK, KernelStates
<1>1. PICK new, hup :
        /\ SettleArgument(new)
        /\ hup \subseteq Pids
        /\ spared' = spared \cup kept \cup hup
        /\ Adopt(new)
  BY SettleFacts
<1>2. PICK adopted \in [Processes -> BOOLEAN] :
        /\ proc' = [p \in Processes |->
                       IF new[p] = "zombie" /\ adopted[p] THEN "gone" ELSE new[p]]
        /\ parent' = [p \in Processes |-> IF adopted[p] THEN None ELSE parent[p]]
  <2> WITNESS [p \in Processes |-> parent[p] = None \/ new[parent[p]] \notin Live]
                  \in [Processes -> BOOLEAN]
  <2> QED
    BY <1>1 DEF Adopt
<1>3. spared' \subseteq Pids /\ spared \subseteq spared'
  BY <1>1 DEF KernelStep
<1>4. QED
  BY <1>1, <1>2, <1>3 DEF SettleArgument, KernelKeeps, Live

\* The end of a process is such a step, ...
LEMMA EndSettles ==
    ASSUME NEW st, SettleArgument(st), NEW q \in Processes, proc[q] \in Live
    PROVE  SettleArgument(Ended(q, st))
  BY DEF SettleArgument, Ended, KernelStates

\* ... which the kernel takes, ...
LEMMA EndSteps ==
    ASSUME IrishTypeOK, NEW q \in Processes, proc[q] = "running", Settle(Ended(q, proc), {})
    PROVE  KernelStep(Ended(q, proc), {})
<1>1. SettleArgument(proc)
  BY DEF SettleArgument, IrishTypeOK, KernelStates
<1>2. QED
  BY <1>1, EndSettles DEF KernelStep, Live

\* A signal leaves a process as it is or has its default effect.
LEMMA SentFacts ==
    ASSUME IrishTypeOK, NEW to, NEW sig, NEW kept, NEW p \in Processes
    PROVE  /\ Sent(to, sig, kept)[p] \in {proc[p], After(proc[p], sig)}
           /\ p \in to \ kept /\ ~Caught(p, sig) => Sent(to, sig, kept)[p] = After(proc[p], sig)
           /\ p \notin to => Sent(to, sig, kept)[p] = proc[p]
  BY DEF Sent

\* ... so is a signal to one or more, ...
LEMMA SentSettles ==
    ASSUME IrishTypeOK, NEW to, NEW sig, NEW kept
    PROVE  SettleArgument(Sent(to, sig, kept))
<1>1. ASSUME NEW p \in Processes
      PROVE  /\ Sent(to, sig, kept)[p] \in KernelStates
             /\ proc[p] \notin Live => Sent(to, sig, kept)[p] = proc[p]
             /\ proc[p] \in Live => Sent(to, sig, kept)[p] \in Live \cup {"zombie"}
  <2>1. proc[p] \in KernelStates
    BY DEF IrishTypeOK, KernelStates
  <2>2. Sent(to, sig, kept)[p] \in {proc[p], After(proc[p], sig)}
    BY SentFacts
  <2>3. QED
    BY <2>1, <2>2, AfterKeeps
<1>2. Sent(to, sig, kept) = [p \in Processes |-> Sent(to, sig, kept)[p]]
  BY DEF Sent
<1>3. QED
  BY <1>1, <1>2 DEF SettleArgument

\* ... from the shell or the terminal, ...
LEMMA KillSteps ==
    ASSUME IrishTypeOK, NEW to, NEW sig, Kill(to, sig)
    PROVE  \E kept \in SUBSET Spareable(to, sig) : KernelStep(Sent(to, sig, kept), kept)
<1>1. PICK kept \in SUBSET Spareable(to, sig) : Settle(Sent(to, sig, kept), kept)
  BY DEF Kill
<1>2. kept \subseteq Pids
  BY DEF Spareable, Withstanding
<1>3. QED
  BY <1>1, <1>2, SentSettles DEF KernelStep

\* ... and quit, which sends SIGTERM to what is unfinished in the table.
LEMMA QuitSteps ==
    ASSUME IrishTypeOK, NEW s \in Processes, Quit(s)
    PROVE  \E kept \in SUBSET Spareable(Unfinished(s), "SIGTERM") :
               KernelStep(Ended(s, Sent(Unfinished(s), "SIGTERM", kept)), kept)
<1>1. PICK kept \in SUBSET Spareable(Unfinished(s), "SIGTERM") :
          Settle(Ended(s, Sent(Unfinished(s), "SIGTERM", kept)), kept)
  BY DEF Quit
<1>2. kept \subseteq Pids
  BY DEF Spareable, Withstanding
<1>3. proc[s] \in Live
  BY DEF Quit, At, Live
<1>4. SettleArgument(Sent(Unfinished(s), "SIGTERM", kept))
  BY SentSettles
<1>5. SettleArgument(Ended(s, Sent(Unfinished(s), "SIGTERM", kept)))
  BY <1>3, <1>4, EndSettles
<1>6. QED
  BY <1>1, <1>2, <1>5 DEF KernelStep

-----------------------------------------------------------------------------
(* The tables *)

\* What is known of a table
LEMMA TableFacts ==
    ASSUME NEW t \in Tables
    PROVE  /\ DOMAIN t \subseteq Pids
           /\ t \in [DOMAIN t -> States]
           /\ \A p \in DOMAIN t : t[p] \in States
<1>1. PICK listed \in SUBSET Pids : t \in [listed -> States]
  BY DEF Tables
<1>2. QED
  BY <1>1

\* A started process is added as running; what was listed stays as it was.
LEMMA AddKeeps ==
    ASSUME NEW t \in Tables, NEW p \in Pids
    PROVE  LET new == Insert(t, p, "Running")
           IN  /\ new \in Tables
               /\ DOMAIN t \subseteq DOMAIN new
               /\ \A q \in DOMAIN t : new[q] = t[q]
               /\ \A q \in DOMAIN new : q \in DOMAIN t \/ new[q] = "Running"
<1> DEFINE new == Insert(t, p, "Running")
<1>1. new = [q \in DOMAIN t \cup {p} |-> IF q \in DOMAIN t THEN t[q] ELSE "Running"]
  BY DEF Insert
<1>2. new \in [DOMAIN t \cup {p} -> States]
  BY <1>1, TableFacts DEF States
<1>3. new \in Tables
  BY <1>2, TableFacts DEF Tables
<1>4. QED
  BY <1>1, <1>3

\* The shells' tables: completed processes stay completed, and are gone.
TablesKeep ==
    /\ processes' \in [Processes -> Tables]
    /\ \A s \in Processes : \A p \in DOMAIN processes[s] :
          processes[s][p] = "Completed" => processes'[s][p] = "Completed"
    /\ \A s \in Processes : \A p \in DOMAIN processes'[s] :
          processes'[s][p] = "Completed" => proc'[p] = "gone"
    /\ \A p \in Processes : proc'[p] = "none" => processes'[p] = <<>>

\* Tables that are left alone
LEMMA UnchangedKeeps ==
    ASSUME TableInv, KernelKeeps, UNCHANGED processes
    PROVE  TablesKeep
  BY TableFacts
  DEF TableInv, IrishTypeOK, KernelKeeps, TablesKeep, CompletedIsGone,
      UnstartedKnowNothing, Processes

\* Polling waits for ended processes and lists them as completed.
LEMMA PollKeeps ==
    ASSUME TableInv, NEW s \in Processes, WaitProcesses(s), UNCHANGED <<parent, spared>>
    PROVE  KernelKeeps /\ TablesKeep
<1> USE DEF TableInv, IrishTypeOK
<1>1. \A p \in Completed(s) : proc[p] = "zombie" /\ p \in DOMAIN processes[s]
  BY DEF Completed, Zombies, Unfinished
<1>2. KernelKeeps
  BY <1>1 DEF KernelKeeps, WaitProcesses, KernelStates, Live
<1>3. DOMAIN processes[s] \subseteq Pids
  BY TableFacts
<1> DEFINE polled == [p \in DOMAIN processes[s] |->
                         IF p \in Completed(s) THEN "Completed" ELSE processes[s][p]]
<1>4. processes' = [processes EXCEPT ![s] = polled]
  BY DEF WaitProcesses
<1>5. polled \in Tables
  <2>1. polled \in [DOMAIN processes[s] -> States]
    BY TableFacts DEF States
  <2>2. QED
    BY <1>3, <2>1 DEF Tables
<1>6. proc' = [p \in Processes |-> IF p \in Completed(s) THEN "gone" ELSE proc[p]]
  BY DEF WaitProcesses
<1>7. TablesKeep
  <2>1. processes' \in [Processes -> Tables]
    BY <1>4, <1>5
  <2>2. ASSUME NEW q \in Processes, NEW p \in DOMAIN processes[q], processes[q][p] = "Completed"
        PROVE  processes'[q][p] = "Completed"
    BY <1>4, <2>2
  <2>3. ASSUME NEW q \in Processes, NEW p \in DOMAIN processes'[q], processes'[q][p] = "Completed"
        PROVE  proc'[p] = "gone"
    <3>1. p \in DOMAIN processes[q] /\ p \in Processes
      BY <1>4, <2>3, TableFacts DEF Processes
    <3>2. CASE p \in Completed(s)
      BY <1>6, <3>1, <3>2
    <3>3. CASE p \notin Completed(s)
      <4>1. processes[q][p] = "Completed"
        BY <1>4, <2>3, <3>1, <3>3
      <4>2. QED
        BY <1>6, <3>1, <4>1 DEF CompletedIsGone
    <3>4. QED
      BY <3>2, <3>3
  <2>4. ASSUME NEW p \in Processes, proc'[p] = "none"
        PROVE  processes'[p] = <<>>
    <3>1. processes[p] = <<>>
      BY <1>2, <2>4 DEF KernelKeeps, UnstartedKnowNothing
    <3>2. CASE p = s
      <4>1. DOMAIN polled = DOMAIN <<>>
        BY <3>1, <3>2
      <4>2. QED
        BY <1>4, <3>1, <3>2, <4>1
    <3>3. QED
      BY <1>4, <3>1, <3>2
  <2>5. QED
    BY <2>1, <2>2, <2>3, <2>4 DEF TablesKeep
<1>8. QED
  BY <1>2, <1>7

\* Only the states of processes that have not been waited for are set.
LEMMA SetStateKeeps ==
    ASSUME TableInv, KernelKeeps, NEW s \in Processes, NEW p, CanSignal(s, p),
           NEW state \in States \ {"Completed"}, SetState(s, p, state), proc[s] # "none"
    PROVE  TablesKeep
<1> USE DEF TableInv, IrishTypeOK
<1>1. p \in DOMAIN processes[s] /\ p \in Pids /\ proc[p] # "gone"
  BY TableFacts DEF CanSignal, Exists
<1> DEFINE set == [processes[s] EXCEPT ![p] = state]
<1>2. processes' = [processes EXCEPT ![s] = set]
  BY DEF SetState
<1>3. set \in Tables
  <2>1. set \in [DOMAIN processes[s] -> States]
    BY <1>1, TableFacts
  <2>2. QED
    BY <2>1, TableFacts DEF Tables
<1>4. processes[s][p] # "Completed"
  BY <1>1 DEF CompletedIsGone
<1>5. \A q \in DOMAIN processes[s] : q # p => set[q] = processes[s][q]
  OBVIOUS
<1>6. DOMAIN set = DOMAIN processes[s] /\ set[p] = state
  BY <1>1, TableFacts
<1> HIDE DEF set
<1>7. \A q \in Processes : \A r \in DOMAIN processes[q] :
          processes[q][r] = "Completed" => processes'[q][r] = "Completed"
  BY <1>2, <1>4, <1>5
<1>8. \A q \in Processes : \A r \in DOMAIN processes'[q] :
          processes'[q][r] = "Completed" => proc'[r] = "gone"
  <2> SUFFICES ASSUME NEW q \in Processes, NEW r \in DOMAIN processes'[q],
                      processes'[q][r] = "Completed"
               PROVE  proc'[r] = "gone"
    OBVIOUS
  <2>1. r \in DOMAIN processes[q] /\ processes[q][r] = "Completed"
    BY <1>2, <1>5, <1>6
  <2>2. r \in Processes
    BY <2>1, TableFacts DEF Processes
  <2>3. QED
    BY <2>1, <2>2 DEF CompletedIsGone, KernelKeeps
<1>9. \A q \in Processes : proc'[q] = "none" => processes'[q] = <<>>
  BY <1>2 DEF UnstartedKnowNothing, KernelKeeps
<1>10. QED
  BY <1>2, <1>3, <1>7, <1>8, <1>9 DEF TablesKeep

-----------------------------------------------------------------------------
(* The shells *)

\* What is not in the kernel or in the tables
LoopKeeps ==
    /\ level' \in {1, 2}
    /\ pc' \in [Processes -> {"exec", "receive", "command", "fg", "quit", "interrupted"}]
    /\ target' \in [Processes -> Pids \cup {None}]
    /\ client' \in [Clients -> {"idle", "waiting", "left"}]
    /\ queue' \in Seq(Clients)
    /\ owed' \in Clients \cup {None}
    /\ awaited' \subseteq Pids
    /\ FgHasTarget'
    /\ \A p \in Processes : pc[p] = "interrupted" => pc'[p] = "interrupted"
    /\ \A p \in Processes : proc[p] = "none" /\ proc'[p] = "none" => pc'[p] = "exec"

StepKeeps == KernelKeeps /\ TablesKeep /\ LoopKeeps

\* The three parts make up the invariant.
LEMMA PartsMakeInv ==
    ASSUME StepKeeps
    PROVE  TableInv'
  BY DEF StepKeeps, KernelKeeps, TablesKeep, LoopKeeps, TableInv, IrishTypeOK, KernelStates,
         CompletedIsGone, UnstartedKnowNothing, Live, Tables, States, Processes

\* ... a step without signals, ...
LEMMA KernelUnchanged ==
    ASSUME IrishTypeOK, UNCHANGED kernelVars
    PROVE  KernelKeeps
  BY DEF IrishTypeOK, kernelVars, KernelKeeps, KernelStates

\* ... and the end of one process.
LEMMA OneEnds ==
    ASSUME IrishTypeOK, NEW q \in Processes, proc[q] = "running", Settle(Ended(q, proc), {})
    PROVE  KernelKeeps
  BY EndSteps, SettleKeeps

\* Steps after which the shell goes on with its loop
LEMMA ReplyTypes ==
    ASSUME TableInv, NEW s \in Processes, At(s, "command") \/ At(s, "fg"),
           Reply(s) \/ Continue(s), UNCHANGED level, awaited' \subseteq Pids
    PROVE  LoopKeeps
  BY DEF At, Reply, Answer, Continue, Goto, TableInv, IrishTypeOK, FgHasTarget,
         UnstartedKnowNothing, LoopKeeps, clientVars

\* The same when another shell has been sent into its handler
LEMMA InterruptedTypes ==
    ASSUME TableInv, NEW s \in Processes, NEW p \in Pids, NEW sig, At(s, "command"),
           Interrupted(s, p, sig), Answer(s), UNCHANGED <<level, awaited>>
    PROVE  LoopKeeps
<1> USE DEF TableInv, IrishTypeOK
<1>1. \A q \in Processes :
          \/ q = s /\ pc'[q] = "receive"
          \/ IsShell(q) /\ pc'[q] = "interrupted"
          \/ q # s /\ pc'[q] = pc[q]
  BY DEF Interrupted, Caught
<1>2. pc' \in [Processes -> {"exec", "receive", "command", "fg", "quit", "interrupted"}]
  <2>1. pc' = [q \in Processes |-> pc'[q]]
    BY DEF Interrupted
  <2>2. QED
    BY <1>1, <2>1
<1>3. FgHasTarget'
  BY <1>1 DEF FgHasTarget, Answer
<1>4. \A q \in Processes : pc[q] = "interrupted" => pc'[q] = "interrupted"
  BY <1>1 DEF At
<1>5. \A q \in Processes : proc[q] = "none" => pc'[q] = "exec"
  BY <1>1 DEF At, IsShell, Live, UnstartedKnowNothing
<1>6. QED
  BY <1>2, <1>3, <1>4, <1>5 DEF Answer, LoopKeeps

\* A process is started with a new entry in the table.
LEMMA BgStep ==
    ASSUME TableInv, NEW s \in Processes, Bg(s)
    PROVE  StepKeeps
<1> USE DEF TableInv, IrishTypeOK
<1>1. PICK p \in Pids :
        /\ NewPid(p)
        /\ proc' = [proc EXCEPT ![p] = "running"]
        /\ parent' = [parent EXCEPT ![p] = s]
        /\ processes' = [processes EXCEPT ![s] = Insert(processes[s], p, "Running")]
  BY DEF Bg
<1>2. p \in Processes /\ proc[p] = "none" /\ p # s /\ proc[s] # "none"
  BY <1>1 DEF NewPid, Processes, Bg, At
<1>3. KernelKeeps
  BY <1>1, <1>2 DEF Bg, KernelKeeps, KernelStates, Live
<1>4. TablesKeep
  <2> DEFINE new == Insert(processes[s], p, "Running")
  <2>1. /\ new \in Tables
        /\ DOMAIN processes[s] \subseteq DOMAIN new
        /\ \A q \in DOMAIN processes[s] : new[q] = processes[s][q]
        /\ \A q \in DOMAIN new : q \in DOMAIN processes[s] \/ new[q] = "Running"
    BY AddKeeps
  <2>2. processes' = [processes EXCEPT ![s] = new]
    BY <1>1
  <2> HIDE DEF new
  <2>3. processes' \in [Processes -> Tables]
    BY <2>1, <2>2
  <2>4. \A q \in Processes : \A r \in DOMAIN processes[q] :
            processes[q][r] = "Completed" => processes'[q][r] = "Completed"
    BY <2>1, <2>2
  <2>5. ASSUME NEW q \in Processes, NEW r \in DOMAIN processes'[q],
               processes'[q][r] = "Completed"
        PROVE  proc'[r] = "gone"
    <3>1. r \in DOMAIN processes[q] /\ processes[q][r] = "Completed"
      BY <2>1, <2>2, <2>5
    <3>2. r \in Processes
      BY <3>1, TableFacts DEF Processes
    <3>3. QED
      BY <1>3, <3>1, <3>2 DEF CompletedIsGone, KernelKeeps
  <2>6. \A q \in Processes : proc'[q] = "none" => processes'[q] = <<>>
    BY <1>2, <1>3, <2>2 DEF UnstartedKnowNothing, KernelKeeps
  <2>7. QED
    BY <2>3, <2>4, <2>5, <2>6 DEF TablesKeep
<1>5. LoopKeeps
  BY <1>1, <1>2 DEF Bg, At, Reply, Answer, Goto, FgHasTarget, UnstartedKnowNothing, LoopKeeps
<1>6. QED
  BY <1>3, <1>4, <1>5 DEF StepKeeps

\* The process whose execvp() fails has its parent's table.
LEMMA BgExecFailsStep ==
    ASSUME TableInv, NEW s \in Processes, BgExecFails(s)
    PROVE  StepKeeps
<1> USE DEF TableInv, IrishTypeOK
<1>1. PICK p \in Pids :
        /\ NewPid(p)
        /\ proc' = [proc EXCEPT ![p] = IF level = 1 THEN "running" ELSE "zombie"]
        /\ parent' = [parent EXCEPT ![p] = s]
        /\ processes' = [processes EXCEPT ![s] = Insert(processes[s], p, "Running"),
                                          ![p] = processes[s]]
        /\ pc' = [pc EXCEPT ![s] = "receive", ![p] = IF level = 1 THEN "receive" ELSE pc[p]]
  BY DEF BgExecFails
<1>2. p \in Processes /\ proc[p] = "none" /\ p # s /\ proc[s] # "none"
  BY <1>1 DEF NewPid, Processes, BgExecFails, At
<1>3. KernelKeeps
  BY <1>1, <1>2 DEF BgExecFails, KernelKeeps, KernelStates, Live
<1>4. TablesKeep
  <2> DEFINE new == Insert(processes[s], p, "Running")
  <2>1. /\ new \in Tables
        /\ DOMAIN processes[s] \subseteq DOMAIN new
        /\ \A q \in DOMAIN processes[s] : new[q] = processes[s][q]
        /\ \A q \in DOMAIN new : q \in DOMAIN processes[s] \/ new[q] = "Running"
    BY AddKeeps
  <2>2. /\ processes' \in [Processes -> Tables]
        /\ processes'[s] = new
        /\ processes'[p] = processes[s]
        /\ \A q \in Processes \ {s, p} : processes'[q] = processes[q]
    BY <1>1, <1>2, <2>1
  <2> HIDE DEF new
  <2>3. processes[p] = <<>>
    BY <1>2 DEF UnstartedKnowNothing
  <2>4. ASSUME NEW q \in Processes, NEW r \in DOMAIN processes[q],
               processes[q][r] = "Completed"
        PROVE  processes'[q][r] = "Completed"
    BY <2>1, <2>2, <2>3, <2>4
  <2>5. ASSUME NEW q \in Processes, NEW r \in DOMAIN processes'[q],
               processes'[q][r] = "Completed"
        PROVE  proc'[r] = "gone"
    <3>1. PICK o \in Processes : r \in DOMAIN processes[o] /\ processes[o][r] = "Completed"
      BY <2>1, <2>2, <2>5
    <3>2. r \in Processes
      BY <3>1, TableFacts DEF Processes
    <3>3. QED
      BY <1>3, <3>1, <3>2 DEF CompletedIsGone, KernelKeeps
  <2>6. ASSUME NEW q \in Processes, proc'[q] = "none"
        PROVE  processes'[q] = <<>>
    <3>1. proc[q] = "none" /\ q # s
      BY <1>2, <1>3, <2>6 DEF KernelKeeps
    <3>2. q # p
      BY <1>1, <1>2, <2>6
    <3>3. QED
      BY <2>2, <3>1, <3>2 DEF UnstartedKnowNothing
  <2>7. QED
    BY <2>2, <2>4, <2>5, <2>6 DEF TablesKeep
<1>5. LoopKeeps
  BY <1>1, <1>2 DEF BgExecFails, At, Answer, FgHasTarget, UnstartedKnowNothing, LoopKeeps
<1>6. QED
  BY <1>3, <1>4, <1>5 DEF StepKeeps

\* fg waits, and returns when the process has ended.
LEMMA FgStep ==
    ASSUME TableInv, NEW s \in Processes, NEW p \in Pids,
           FgRefused(s, p) \/ Fg(s, p) \/ FgReturns(s)
    PROVE  StepKeeps
<1> USE DEF TableInv
<1>1. CASE FgRefused(s, p)
  BY <1>1, KernelUnchanged, UnchangedKeeps, ReplyTypes DEF FgRefused, StepKeeps, IrishTypeOK
<1>2. CASE Fg(s, p)
  <2>1. LoopKeeps
    BY <1>2 DEF Fg, At, Goto, IrishTypeOK, FgHasTarget, UnstartedKnowNothing, LoopKeeps, clientVars
  <2>2. QED
    BY <1>2, <2>1, KernelUnchanged, UnchangedKeeps DEF Fg, StepKeeps
<1>3. CASE FgReturns(s)
  <2>1. target[s] \in Processes /\ target[s] \in Pids /\ proc[target[s]] = "zombie"
    BY <1>3 DEF FgReturns, At, FgHasTarget, Processes
  <2>2. KernelKeeps
    BY <1>3, <2>1 DEF FgReturns, KernelKeeps, KernelStates, IrishTypeOK
  <2>3. LoopKeeps
    BY <1>3, <2>1, ReplyTypes DEF FgReturns, IrishTypeOK
  <2>4. QED
    BY <1>3, <2>2, <2>3, UnchangedKeeps DEF FgReturns, StepKeeps
<1>4. QED
  BY <1>1, <1>2, <1>3

\* A signal is sent, and its effect written down, or neither.
LEMMA SignalStep ==
    ASSUME TableInv, NEW s \in Processes, NEW p \in Pids, NEW sig \in Signals,
           Signal(s, p, sig) \/ Stop(s, p) \/ ContinueProcess(s, p)
    PROVE  StepKeeps
<1> USE DEF TableInv
<1>1. p \in Processes /\ proc[s] # "none"
  BY DEF Processes, Signal, Stop, ContinueProcess, SignalAndSet, At
<1>2. LoopKeeps
  <2>1. UNCHANGED <<level, awaited>> /\ awaited' \subseteq Pids
    BY DEF Signal, Stop, ContinueProcess, SignalAndSet, IrishTypeOK
  <2>2. /\ At(s, "command")
        /\ Reply(s) \/ (Interrupted(s, p, sig) /\ Answer(s))
    BY DEF Signal, Stop, ContinueProcess, SignalAndSet, Reply
  <2>3. QED
    BY <2>1, <2>2, ReplyTypes, InterruptedTypes
<1>3. \/ /\ CanSignal(s, p)
         /\ \E sent \in Signals : Kill({p}, sent)
         /\ \E state \in States \ {"Completed"} : SetState(s, p, state)
      \/ UNCHANGED <<kernelVars, processes>>
  <2>1. CASE Signal(s, p, sig)
    <3>1. StateAfter(sig) \in States \ {"Completed"}
      BY DEF StateAfter, States
    <3>2. QED
      BY <2>1, <3>1 DEF Signal
  <2>2. CASE Stop(s, p)
    BY <2>2 DEF Stop, SignalAndSet, Signals, States
  <2>3. CASE ContinueProcess(s, p)
    BY <2>3 DEF ContinueProcess, SignalAndSet, Signals, States
  <2>4. QED
    BY <2>1, <2>2, <2>3
<1>4. KernelKeeps
  BY <1>3, KillSteps, SettleKeeps, KernelUnchanged
<1>5. TablesKeep
  BY <1>1, <1>3, <1>4, SetStateKeeps, UnchangedKeeps
<1>6. QED
  BY <1>2, <1>4, <1>5 DEF StepKeeps

\* The shell ends and its unfinished processes are signalled.
LEMMA QuitStep ==
    ASSUME TableInv, NEW s \in Processes, Quit(s)
    PROVE  StepKeeps
<1>1. KernelKeeps
  BY QuitSteps, SettleKeeps DEF TableInv
<1>2. LoopKeeps
  BY DEF Quit, At, Goto, TableInv, IrishTypeOK, FgHasTarget, UnstartedKnowNothing, LoopKeeps
<1>3. QED
  BY <1>1, <1>2, UnchangedKeeps DEF Quit, StepKeeps

\* ^C signals every process; the shells' handlers start.
LEMMA InterruptStep ==
    ASSUME TableInv, Interrupt
    PROVE  StepKeeps
<1>1. KernelKeeps
  BY KillSteps, SettleKeeps DEF Interrupt, TableInv
<1>2. LoopKeeps
  BY DEF Interrupt, IsShell, Live, TableInv, IrishTypeOK, FgHasTarget, UnstartedKnowNothing,
         LoopKeeps, clientVars
<1>3. QED
  BY <1>1, <1>2, UnchangedKeeps DEF Interrupt, StepKeeps

\* Every step keeps the invariant, and what is completed.
LEMMA StepTableInv ==
    ASSUME TableInv, [Next]_vars
    PROVE  StepKeeps
<1> USE DEF TableInv
<1>1. ASSUME NEW s \in Processes, Receive(s)
      PROVE  StepKeeps
  <2>1. KernelKeeps /\ TablesKeep
    BY <1>1, PollKeeps DEF Receive
  <2>2. queue # <<>> => Head(queue) \in Clients /\ Tail(queue) \in Seq(Clients)
    BY DEF IrishTypeOK
  <2>3. LoopKeeps
    BY <1>1, <2>2 DEF Receive, At, Goto, IrishTypeOK, FgHasTarget, UnstartedKnowNothing, LoopKeeps, clientVars
  <2>4. QED
    BY <2>1, <2>3 DEF StepKeeps
<1>2. ASSUME NEW s \in Processes, Throw(s) \/ HandlerExits(s)
      PROVE  StepKeeps
  <2>1. proc[s] = "running" /\ Settle(Ended(s, proc), {})
    BY <1>2 DEF Throw, HandlerExits, At
  <2>2. LoopKeeps
    BY <1>2 DEF Throw, HandlerExits, IrishTypeOK, FgHasTarget, UnstartedKnowNothing, LoopKeeps, clientVars
  <2>3. QED
    BY <1>2, <2>1, <2>2, OneEnds, UnchangedKeeps DEF Throw, HandlerExits, StepKeeps
<1>3. ASSUME NEW s \in Processes, Execute(s)
      PROVE  StepKeeps
  <2>1. CASE Other(s)
    BY <2>1, KernelUnchanged, UnchangedKeeps, ReplyTypes DEF Other, StepKeeps, IrishTypeOK
  <2>2. CASE FgReturns(s)
    <3>1. target[s] \in Pids
      BY <2>2 DEF FgReturns, At, FgHasTarget
    <3>2. QED
      BY <2>2, <3>1, FgStep
  <2>3. ASSUME NEW p \in Pids, FgRefused(s, p) \/ Fg(s, p)
        PROVE  StepKeeps
    BY <2>3, FgStep
  <2>4. ASSUME NEW p \in Pids, NEW sig \in Signals, Signal(s, p, sig)
        PROVE  StepKeeps
    BY <2>4, SignalStep
  <2>5. ASSUME NEW p \in Pids, Stop(s, p) \/ ContinueProcess(s, p)
        PROVE  StepKeeps
    <3>1. "SIGSTOP" \in Signals
      BY DEF Signals
    <3>2. QED
      BY <2>5, <3>1, SignalStep
  <2>6. QED
    BY <1>3, <2>1, <2>2, <2>3, <2>4, <2>5, BgStep, BgExecFailsStep, QuitStep DEF Execute
<1>4. ASSUME NEW p \in Pids, ChildEnds(p)
      PROVE  StepKeeps
  <2>1. LoopKeeps
    BY <1>4 DEF ChildEnds, IrishTypeOK, FgHasTarget, UnstartedKnowNothing, LoopKeeps, clientVars
  <2>2. QED
    BY <1>4, <2>1, OneEnds, UnchangedKeeps DEF ChildEnds, StepKeeps, Processes
<1>5. ASSUME NEW c \in Clients, Send(c)
      PROVE  StepKeeps
  <2>1. LoopKeeps
    BY <1>5 DEF Send, IrishTypeOK, FgHasTarget, UnstartedKnowNothing, LoopKeeps
  <2>2. QED
    BY <1>5, <2>1, KernelUnchanged, UnchangedKeeps DEF Send, StepKeeps
<1>6. CASE UNCHANGED vars
  <2>1. LoopKeeps
    BY <1>6 DEF vars, clientVars, IrishTypeOK, FgHasTarget, UnstartedKnowNothing, LoopKeeps
  <2>2. QED
    BY <1>6, <2>1, KernelUnchanged, UnchangedKeeps DEF vars, StepKeeps
<1>7. QED
  BY <1>1, <1>2, <1>3, <1>4, <1>5, <1>6, InterruptStep DEF Next

\* There is one shell, with nothing in its table.
LEMMA InitTableInv ==
    ASSUME Init
    PROVE  TableInv
<1>1. <<>> \in Tables
  <2>1. <<>> \in [{} -> States]
    OBVIOUS
  <2>2. QED
    BY <2>1 DEF Tables
<1>2. IrishTypeOK
  BY <1>1 DEF Init, IrishTypeOK, Live, Processes
<1>3. FgHasTarget /\ CompletedIsGone /\ UnstartedKnowNothing
  BY DEF Init, FgHasTarget, CompletedIsGone, UnstartedKnowNothing
<1>4. QED
  BY <1>2, <1>3 DEF TableInv

\* The invariant holds throughout.
THEOREM ShellInvariant == Spec => []TableInv
<1>1. Init => TableInv
  BY InitTableInv
<1>2. TableInv /\ [Next]_vars => TableInv'
  BY StepTableInv, PartsMakeInv
<1>3. QED
  BY <1>1, <1>2, PTL DEF Spec

\* The kernel, the shells and the clients have their types.
THEOREM ShellTypes == Spec => []IrishTypeOK
<1>1. TableInv => IrishTypeOK
  BY DEF TableInv
<1>2. QED
  BY <1>1, ShellInvariant, PTL

\* A completed process stays completed, whatever signal is sent too late.
THEOREM CompletedStays == Spec => CompletedIsFinal
<1>1. TableInv /\ [Next]_vars =>
          [\A s \in Processes : \A p \in DOMAIN processes[s] :
              processes[s][p] = "Completed" => processes'[s][p] = "Completed"]_vars
  BY StepTableInv DEF StepKeeps, TablesKeep
<1>2. QED
  BY <1>1, ShellInvariant, PTL DEF Spec, CompletedIsFinal

-----------------------------------------------------------------------------
(* Which processes are waited for, and by whom *)

\* The processes in the table of the user's shell are its children; only those
\* listed as completed and those fg has waited for are gone.
RootsChildren ==
    proc[Root] \in Live => \A p \in DOMAIN processes[Root] :
        /\ parent[p] = Root
        /\ proc[p] # "none"
        /\ proc[p] = "gone" => processes[Root][p] = "Completed" \/ p \in awaited

\* fg waits for a child.
FgWaitsForChild ==
    \A s \in Processes : proc[s] \in Live /\ pc[s] = "fg" =>
        parent[target[s]] = s /\ proc[target[s]] # "none"

ChildInv == RootsChildren /\ FgWaitsForChild

\* Nothing comes to life, and while its parent lives a process keeps it and is
\* not waited for by anybody else.
KernelLeaves ==
    /\ \A p \in Processes : proc'[p] \in Live => proc[p] \in Live
    /\ \A p \in Processes : parent[p] \in Processes /\ proc'[parent[p]] \in Live =>
          /\ parent'[p] = parent[p]
          /\ proc'[p] = "gone" => proc[p] = "gone"

\* A new state of live processes leaves children there for the shell that may wait for them.
LEMMA SettleLeaves ==
    ASSUME IrishTypeOK, NEW st, NEW kept, KernelStep(st, kept)
    PROVE  KernelLeaves
<1>1. PICK new : SettleArgument(new) /\ Adopt(new)
  BY SettleFacts
<1> DEFINE adopted(p) == parent[p] = None \/ new[parent[p]] \notin Live
<1>2. /\ \A p \in Processes : proc[p] \notin Live => new[p] = proc[p]
      /\ \A p \in Processes : proc[p] \in Live => new[p] # "gone"
  BY <1>1 DEF SettleArgument, Live
<1>3. /\ proc' = [p \in Processes |->
                     IF new[p] = "zombie" /\ adopted(p) THEN "gone" ELSE new[p]]
      /\ parent' = [p \in Processes |-> IF adopted(p) THEN None ELSE parent[p]]
  BY <1>1 DEF Adopt
<1>4. \A p \in Processes : proc'[p] \in Live => new[p] \in Live /\ proc[p] \in Live
  BY <1>2, <1>3 DEF Live
<1>5. ASSUME NEW p \in Processes, parent[p] \in Processes, proc'[parent[p]] \in Live
      PROVE  parent'[p] = parent[p] /\ (proc'[p] = "gone" => proc[p] = "gone")
  <2>1. new[parent[p]] \in Live
    BY <1>4, <1>5
  <2>2. ~adopted(p)
    BY <1>5, <2>1, IrishAssumption
  <2>3. QED
    BY <1>2, <1>3, <2>2
<1>6. QED
  BY <1>4, <1>5 DEF KernelLeaves

\* Steps at which the kernel settles, or does nothing
LEMMA NothingLeaves ==
    ASSUME UNCHANGED kernelVars
    PROVE  KernelLeaves
  BY DEF kernelVars, KernelLeaves

\* No fg begins, nothing is started, and nothing new is listed.
LoopLeaves ==
    /\ \A s \in Processes : pc'[s] = "fg" => pc[s] = "fg" /\ target'[s] = target[s]
    /\ DOMAIN processes'[Root] = DOMAIN processes[Root]
    /\ UNCHANGED awaited

\* A step that waits for no child and starts none leaves the shell's children its own.
LEMMA LeavesKeepChildren ==
    ASSUME TableInv, ChildInv, StepKeeps, KernelLeaves, LoopLeaves
    PROVE  ChildInv'
<1> USE DEF ChildInv, StepKeeps, KernelLeaves, LoopLeaves
<1>1. Root \in Processes
  BY DEF Processes
<1>2. RootsChildren'
  <2> SUFFICES ASSUME proc'[Root] \in Live, NEW p \in DOMAIN processes[Root]
               PROVE  /\ parent'[p] = Root
                      /\ proc'[p] # "none"
                      /\ proc'[p] = "gone" =>
                             processes'[Root][p] = "Completed" \/ p \in awaited'
    BY DEF RootsChildren
  <2>1. p \in Processes
    BY <1>1, TableFacts DEF TableInv, IrishTypeOK, Processes
  <2>2. /\ parent[p] = Root
        /\ proc[p] # "none"
        /\ proc[p] = "gone" => processes[Root][p] = "Completed" \/ p \in awaited
    BY <1>1 DEF RootsChildren
  <2>3. QED
    BY <1>1, <2>1, <2>2 DEF KernelKeeps, TablesKeep
<1>3. FgWaitsForChild'
  <2> SUFFICES ASSUME NEW s \in Processes, proc'[s] \in Live, pc'[s] = "fg"
               PROVE  parent'[target'[s]] = s /\ proc'[target'[s]] # "none"
    BY DEF FgWaitsForChild
  <2>1. /\ target'[s] = target[s]
        /\ target[s] \in Processes
        /\ parent[target[s]] = s
        /\ proc[target[s]] # "none"
    BY DEF FgWaitsForChild, TableInv, FgHasTarget, Processes
  <2>2. QED
    BY <2>1 DEF KernelKeeps
<1>4. QED
  BY <1>2, <1>3

\* Steps that do not concern the children of a shell
LEMMA OtherStepsLeave ==
    ASSUME TableInv, ChildInv, StepKeeps,
           \/ UNCHANGED vars \/ Interrupt
           \/ \E c \in Clients : Send(c)
           \/ \E p \in Pids : ChildEnds(p)
           \/ \E s \in Processes : Throw(s) \/ HandlerExits(s) \/ Quit(s) \/ Other(s)
           \/ \E s \in Processes, p \in Pids : FgRefused(s, p)
    PROVE  ChildInv'
<1> USE DEF TableInv, IrishTypeOK, LoopLeaves
<1>1. CASE UNCHANGED vars
  BY <1>1, NothingLeaves, LeavesKeepChildren DEF vars
<1>2. CASE Interrupt
  <2>1. KernelLeaves
    BY <1>2, KillSteps, SettleLeaves DEF Interrupt
  <2>2. LoopLeaves
    BY <1>2 DEF Interrupt
  <2>3. QED
    BY <2>1, <2>2, LeavesKeepChildren
<1>3. ASSUME NEW c \in Clients, Send(c)
      PROVE  ChildInv'
  BY <1>3, NothingLeaves, LeavesKeepChildren DEF Send
<1>4. ASSUME NEW p \in Pids, ChildEnds(p)
      PROVE  ChildInv'
  BY <1>4, EndSteps, SettleLeaves, LeavesKeepChildren DEF ChildEnds, Processes
<1>5. ASSUME NEW s \in Processes, Throw(s) \/ HandlerExits(s)
      PROVE  ChildInv'
  BY <1>5, EndSteps, SettleLeaves, LeavesKeepChildren DEF Throw, HandlerExits, At
<1>6. ASSUME NEW s \in Processes, Quit(s)
      PROVE  ChildInv'
  <2>1. KernelLeaves
    BY <1>6, QuitSteps, SettleLeaves
  <2>2. LoopLeaves
    BY <1>6 DEF Quit, Goto, At
  <2>3. QED
    BY <2>1, <2>2, LeavesKeepChildren
<1>7. ASSUME NEW s \in Processes, Other(s)
      PROVE  ChildInv'
  <2>1. LoopLeaves
    BY <1>7 DEF Other, Reply, Answer, Goto, At
  <2>2. QED
    BY <1>7, <2>1, NothingLeaves, LeavesKeepChildren DEF Other
<1>8. ASSUME NEW s \in Processes, NEW p \in Pids, FgRefused(s, p)
      PROVE  ChildInv'
  <2>1. LoopLeaves
    BY <1>8 DEF FgRefused, Continue, Goto, At
  <2>2. QED
    BY <1>8, <2>1, NothingLeaves, LeavesKeepChildren DEF FgRefused
<1>9. QED
  BY <1>1, <1>2, <1>3, <1>4, <1>5, <1>6, <1>7, <1>8

\* Signals do not wait for a process.
LEMMA SignalLeaves ==
    ASSUME TableInv, ChildInv, StepKeeps, NEW s \in Processes, NEW p \in Pids,
           NEW sig \in Signals, Signal(s, p, sig) \/ Stop(s, p) \/ ContinueProcess(s, p)
    PROVE  ChildInv'
<1> USE DEF TableInv
<1>1. /\ At(s, "command")
      /\ Reply(s) \/ (Interrupted(s, p, sig) /\ Answer(s))
      /\ UNCHANGED awaited
      /\ \/ \E sent : Kill({p}, sent) /\ \E state : SetState(s, p, state)
         \/ UNCHANGED <<kernelVars, processes>>
  BY DEF Signal, Stop, ContinueProcess, SignalAndSet, Reply
<1>2. KernelLeaves
  BY <1>1, KillSteps, SettleLeaves, NothingLeaves
<1>3. DOMAIN processes'[Root] = DOMAIN processes[Root]
  BY <1>1 DEF SetState, IrishTypeOK, Processes
<1>4. LoopLeaves
  BY <1>1, <1>3 DEF LoopLeaves, Reply, Answer, Interrupted, Goto, At, IrishTypeOK
<1>5. QED
  BY <1>2, <1>4, LeavesKeepChildren

\* Polling lists the children it has waited for as completed.
LEMMA ReceiveLeaves ==
    ASSUME TableInv, ChildInv, StepKeeps, NEW s \in Processes, Receive(s)
    PROVE  ChildInv'
<1> USE DEF TableInv, IrishTypeOK
<1>1. /\ proc' = [p \in Processes |-> IF p \in Completed(s) THEN "gone" ELSE proc[p]]
      /\ processes' = [processes EXCEPT ![s] =
             [p \in DOMAIN processes[s] |->
                 IF p \in Completed(s) THEN "Completed" ELSE processes[s][p]]]
      /\ pc' = [pc EXCEPT ![s] = "command"]
      /\ UNCHANGED <<parent, target, awaited>>
      /\ proc[s] = "running"
  BY DEF Receive, WaitProcesses, Goto, At
<1>2. \A p \in Completed(s) :
          p \in DOMAIN processes[s] /\ parent[p] = s /\ proc[p] = "zombie"
  BY DEF Completed, Zombies, Unfinished, Waitable
<1>3. RootsChildren'
  <2> SUFFICES ASSUME proc'[Root] \in Live, NEW p \in DOMAIN processes[Root]
               PROVE  /\ parent'[p] = Root
                      /\ proc'[p] # "none"
                      /\ proc'[p] = "gone" =>
                             processes'[Root][p] = "Completed" \/ p \in awaited'
    BY <1>1 DEF RootsChildren, Processes
  <2>1. p \in Processes /\ Root \in Processes
    BY TableFacts DEF Processes
  <2>2. /\ parent[p] = Root
        /\ proc[p] # "none"
        /\ proc[p] = "gone" => processes[Root][p] = "Completed" \/ p \in awaited
    BY <1>1, <2>1 DEF ChildInv, RootsChildren, Live
  <2>3. CASE p \in Completed(s)
    BY <1>1, <1>2, <2>1, <2>2, <2>3
  <2>4. CASE p \notin Completed(s)
    BY <1>1, <2>1, <2>2, <2>4
  <2>5. QED
    BY <2>3, <2>4
<1>4. FgWaitsForChild'
  BY <1>1, <1>2 DEF ChildInv, FgWaitsForChild, FgHasTarget, Processes, Live
<1>5. QED
  BY <1>3, <1>4 DEF ChildInv

\* A new process is a child of the shell that lists it.
LEMMA StartLeaves ==
    ASSUME TableInv, ChildInv, StepKeeps, NEW s \in Processes, Bg(s) \/ BgExecFails(s)
    PROVE  ChildInv'
<1> USE DEF TableInv, IrishTypeOK
<1>1. PICK p \in Pids :
        /\ proc[p] = "none"
        /\ \E state \in {"running", "zombie"} : proc' = [proc EXCEPT ![p] = state]
        /\ parent' = [parent EXCEPT ![p] = s]
        /\ processes'[s] = Insert(processes[s], p, "Running")
        /\ \A q \in Processes \ {s, p} : processes'[q] = processes[q]
        /\ \A q \in Processes \ {s, p} : pc'[q] = pc[q]
        /\ pc'[s] = "receive"
        /\ pc'[p] # "fg"
        /\ \A q \in Processes \ {s} : target'[q] = target[q]
        /\ UNCHANGED awaited
  <2>1. proc[s] # "none"
    BY DEF Bg, BgExecFails, At
  <2>2. CASE Bg(s)
    <3>1. PICK p \in Pids :
            /\ NewPid(p)
            /\ proc' = [proc EXCEPT ![p] = "running"]
            /\ parent' = [parent EXCEPT ![p] = s]
            /\ processes' = [processes EXCEPT ![s] = Insert(processes[s], p, "Running")]
      BY <2>2 DEF Bg
    <3>2. proc[p] = "none" /\ p # s /\ p \in Processes
      BY <2>1, <3>1 DEF NewPid, Processes
    <3>3. pc[p] = "exec"
      BY <3>2 DEF UnstartedKnowNothing
    <3>4. QED
      BY <2>2, <3>1, <3>2, <3>3 DEF Bg, Reply, Answer, Goto
  <2>3. CASE BgExecFails(s)
    <3>1. PICK p \in Pids :
            /\ NewPid(p)
            /\ proc' = [proc EXCEPT ![p] = IF level = 1 THEN "running" ELSE "zombie"]
            /\ parent' = [parent EXCEPT ![p] = s]
            /\ processes' = [processes EXCEPT ![s] = Insert(processes[s], p, "Running"),
                                              ![p] = processes[s]]
            /\ pc' = [pc EXCEPT ![s] = "receive",
                                ![p] = IF level = 1 THEN "receive" ELSE pc[p]]
      BY <2>3 DEF BgExecFails
    <3>2. proc[p] = "none" /\ p # s /\ p \in Processes
      BY <2>1, <3>1 DEF NewPid, Processes
    <3>3. pc[p] = "exec"
      BY <3>2 DEF UnstartedKnowNothing
    <3>4. processes'[s] = Insert(processes[s], p, "Running")
      BY <3>1, <3>2
    <3>5. QED
      BY <2>3, <3>1, <3>2, <3>3, <3>4 DEF BgExecFails, Answer
  <2>4. QED
    BY <2>2, <2>3
<1>2. p \in Processes /\ p # Root /\ proc[s] = "running"
  BY IrishAssumption DEF Processes, Bg, BgExecFails, At
<1>3. RootsChildren'
  <2> SUFFICES ASSUME proc'[Root] \in Live, NEW q \in DOMAIN processes'[Root]
               PROVE  /\ parent'[q] = Root
                      /\ proc'[q] # "none"
                      /\ proc'[q] = "gone" =>
                             processes'[Root][q] = "Completed" \/ q \in awaited'
    BY DEF RootsChildren
  <2>1. Root \in Processes /\ proc[Root] \in Live
    BY <1>1, <1>2 DEF Processes
  <2>2. \A r \in DOMAIN processes[Root] :
            /\ r \in Processes
            /\ parent[r] = Root
            /\ proc[r] # "none"
            /\ proc[r] = "gone" => processes[Root][r] = "Completed" \/ r \in awaited
    BY <2>1, TableFacts DEF ChildInv, RootsChildren, Processes
  <2>3. CASE s = Root /\ q = p
    BY <1>1, <1>2, <2>3
  <2>4. CASE ~(s = Root /\ q = p)
    <3>1. q \in DOMAIN processes[Root]
      BY <1>1, <1>2, <2>1, <2>4 DEF Insert
    <3>2. q # p
      BY <1>1, <2>2, <3>1
    <3>3. proc'[q] = proc[q] /\ parent'[q] = parent[q]
      BY <1>1, <2>2, <3>1, <3>2
    <3>4. processes[Root][q] = "Completed" => processes'[Root][q] = "Completed"
      BY <2>1, <3>1 DEF StepKeeps, TablesKeep
    <3>5. QED
      BY <1>1, <2>2, <3>1, <3>3, <3>4
  <2>5. QED
    BY <2>3, <2>4
<1>4. FgWaitsForChild'
  <2> SUFFICES ASSUME NEW q \in Processes, proc'[q] \in Live, pc'[q] = "fg"
               PROVE  parent'[target'[q]] = q /\ proc'[target'[q]] # "none"
    BY DEF FgWaitsForChild
  <2>1. q \notin {s, p}
    BY <1>1
  <2>2. proc[q] \in Live /\ pc[q] = "fg" /\ target'[q] = target[q]
    BY <1>1, <1>2, <2>1
  <2>3. target[q] \in Processes /\ parent[target[q]] = q /\ proc[target[q]] # "none"
    BY <2>2 DEF ChildInv, FgWaitsForChild, FgHasTarget, Processes
  <2>4. QED
    BY <1>1, <2>2, <2>3
<1>5. QED
  BY <1>3, <1>4 DEF ChildInv

\* fg waits for a child of its own, and notes that it is gone.
LEMMA FgLeaves ==
    ASSUME TableInv, ChildInv, StepKeeps, NEW s \in Processes, NEW p \in Pids,
           Fg(s, p) \/ FgReturns(s)
    PROVE  ChildInv'
<1> USE DEF TableInv, IrishTypeOK
<1>1. CASE Fg(s, p)
  <2>1. parent[p] = s /\ proc[p] # "none"
    BY <1>1 DEF Fg, FgWaits, Waitable, Exists
  <2>2. FgWaitsForChild'
    BY <1>1, <2>1 DEF Fg, Goto, ChildInv, FgWaitsForChild, kernelVars
  <2>3. RootsChildren'
    BY <1>1 DEF Fg, At, Goto, ChildInv, RootsChildren, kernelVars
  <2>4. QED
    BY <2>2, <2>3 DEF ChildInv
<1>2. CASE FgReturns(s)
  <2> DEFINE t == target[s]
  <2>1. /\ t \in Processes
        /\ proc[s] = "running"
        /\ parent[t] = s
        /\ proc[t] = "zombie"
        /\ proc' = [proc EXCEPT ![t] = "gone"]
        /\ UNCHANGED <<parent, processes>>
        /\ pc' = [pc EXCEPT ![s] = "receive"]
        /\ \A q \in Processes \ {s} : target'[q] = target[q]
        /\ awaited \subseteq awaited'
        /\ s = Root => t \in awaited'
    BY <1>2
    DEF FgReturns, At, Reply, Answer, Goto, ChildInv, FgWaitsForChild, FgHasTarget, Processes, Live
  <2>2. RootsChildren'
    <3> SUFFICES ASSUME proc'[Root] \in Live, NEW q \in DOMAIN processes[Root]
                 PROVE  /\ parent'[q] = Root
                        /\ proc'[q] # "none"
                        /\ proc'[q] = "gone" =>
                               processes'[Root][q] = "Completed" \/ q \in awaited'
      BY <2>1 DEF RootsChildren
    <3>1. q \in Processes /\ Root \in Processes /\ proc[Root] \in Live
      BY <2>1, TableFacts DEF Processes, Live
    <3>2. /\ parent[q] = Root
          /\ proc[q] # "none"
          /\ proc[q] = "gone" => processes[Root][q] = "Completed" \/ q \in awaited
      BY <3>1 DEF ChildInv, RootsChildren
    <3>3. QED
      BY <2>1, <3>1, <3>2
  <2>3. FgWaitsForChild'
    BY <2>1 DEF ChildInv, FgWaitsForChild, FgHasTarget, Processes, Live
  <2>4. QED
    BY <2>2, <2>3 DEF ChildInv
<1>3. QED
  BY <1>1, <1>2

\* Every step keeps to whom the processes belong.
LEMMA StepChildInv ==
    ASSUME TableInv, ChildInv, [Next]_vars
    PROVE  ChildInv'
<1>1. StepKeeps
  BY StepTableInv
<1>2. ASSUME NEW s \in Processes, Execute(s)
      PROVE  ChildInv'
  <2>1. CASE FgReturns(s)
    <3>1. target[s] \in Pids
      BY <2>1 DEF FgReturns, At, TableInv, FgHasTarget
    <3>2. QED
      BY <1>1, <2>1, <3>1, FgLeaves
  <2>2. ASSUME NEW p \in Pids, FgRefused(s, p) \/ Fg(s, p)
        PROVE  ChildInv'
    BY <1>1, <2>2, FgLeaves, OtherStepsLeave
  <2>3. ASSUME NEW p \in Pids, NEW sig \in Signals, Signal(s, p, sig)
        PROVE  ChildInv'
    BY <1>1, <2>3, SignalLeaves
  <2>4. ASSUME NEW p \in Pids, Stop(s, p) \/ ContinueProcess(s, p)
        PROVE  ChildInv'
    <3>1. "SIGSTOP" \in Signals
      BY DEF Signals
    <3>2. QED
      BY <1>1, <2>4, <3>1, SignalLeaves
  <2>5. QED
    BY <1>1, <1>2, <2>1, <2>2, <2>3, <2>4, StartLeaves, OtherStepsLeave DEF Execute
<1>3. QED
  BY <1>1, <1>2, ReceiveLeaves, OtherStepsLeave DEF Next

\* What the user's shell lists as running or stopped is there, unless fg has
\* waited for it, however early waitProcesses() ends its loop.
THEOREM ListedAreThere == Spec => []ListedProcessesExist
<1>1. Init => ChildInv
  BY DEF Init, ChildInv, RootsChildren, FgWaitsForChild, Processes
<1>2. TableInv /\ ChildInv /\ [Next]_vars => ChildInv'
  BY StepChildInv
<1>3. TableInv /\ ChildInv => ListedProcessesExist
  BY DEF ChildInv, RootsChildren, ListedProcessesExist, IsShell, Unfinished, Final, Exists
<1>4. QED
  BY <1>1, <1>2, <1>3, ShellInvariant, PTL DEF Spec

-----------------------------------------------------------------------------
(* What the states in the tables say about the processes *)

Ends == {"doomed", "zombie", "gone"}
Held == {"stopped", "doomed"}

\* It has withstood a deadly signal, or waits in its handler.
Outlives(p) == p \in spared \/ pc[p] = "interrupted"

\* Tables list processes that were started; those listed as terminated end, or
\* outlive their signal.
TerminatedEnds ==
    \A s \in Processes : \A p \in DOMAIN processes[s] :
        /\ proc[p] # "none"
        /\ processes[s][p] = "Terminated" => proc[p] \in Ends \/ Outlives(p)

\* At level 2 there is no second shell, ...
OneShell == level = 2 => \A p \in Pids : pc[p] = "exec"

\* ... so nobody but the user's shell stops a process, and it notes that, ...
RunningRuns ==
    level = 2 => \A p \in DOMAIN processes[Root] :
        processes[Root][p] = "Running" => proc[p] \notin Held

\* ... and its table stays as it is while fg waits.
FgRunning ==
    level = 2 /\ pc[Root] = "fg" =>
        /\ target[Root] \in DOMAIN processes[Root]
        /\ processes[Root][target[Root]] \in {"Running", "stopped"}

StateInv == TerminatedEnds /\ OneShell /\ RunningRuns /\ FgRunning

\* What has begun to end ends, and nothing else is stopped.
KernelEnds ==
    \A p \in Processes :
        /\ proc[p] \in Ends => proc'[p] \in Ends
        /\ proc'[p] \in Held => proc[p] \in Held

\* A signal to what has begun to end does not stop that; nothing but SIGSTOP
\* stops.
LEMMA AfterEnds ==
    ASSUME NEW st \in KernelStates, NEW sig
    PROVE  /\ st \in Ends => After(st, sig) \in Ends
           /\ After(st, sig) \in Held => st \in Held \/ sig = "SIGSTOP"
  BY DEF After, KernelStates, Live, Ends, Held

\* Neither does the kernel when it settles.
LEMMA SettleEnds ==
    ASSUME IrishTypeOK, NEW st, NEW kept, KernelStep(st, kept), NEW p \in Processes
    PROVE  /\ st[p] \in Ends => proc'[p] \in Ends
           /\ proc'[p] \in Held => st[p] \in Held
<1>1. PICK new, hup :
        Adopt(new) /\ IF Orphaned(st) THEN new = HangUp(st, hup) ELSE new = st
  BY SettleFacts
<1>2. /\ st[p] \in Ends => new[p] \in Ends
      /\ new[p] \in Held => st[p] \in Held
  <2>1. CASE new = st
    BY <2>1
  <2>2. CASE new = HangUp(st, hup)
    <3> DEFINE a == IF p \in hup THEN st[p] ELSE After(st[p], "SIGHUP")
    <3>1. st[p] \in KernelStates
      BY DEF KernelStep, SettleArgument
    <3>2. /\ a \in KernelStates
          /\ st[p] \in Ends => a \in Ends
          /\ a \in Held => st[p] \in Held
      BY <3>1, AfterKeeps, AfterEnds
    <3>3. new[p] = After(a, "SIGCONT")
      BY <2>2 DEF HangUp
    <3> HIDE DEF a
    <3>4. QED
      BY <3>2, <3>3, AfterEnds
  <2>3. QED
    BY <1>1, <2>1, <2>2
<1>3. proc'[p] = new[p] \/ (new[p] = "zombie" /\ proc'[p] = "gone")
  BY <1>1 DEF Adopt
<1>4. QED
  BY <1>2, <1>3 DEF Ends, Held

\* So it is when processes end or are sent a signal that does not stop them.
LEMMA ManyEnd ==
    ASSUME IrishTypeOK, NEW st, NEW kept, KernelStep(st, kept), NEW sig, sig # "SIGSTOP",
           \A p \in Processes : st[p] \in {proc[p], "zombie", After(proc[p], sig)}
    PROVE  KernelEnds
<1> SUFFICES ASSUME NEW p \in Processes
             PROVE  /\ proc[p] \in Ends => proc'[p] \in Ends
                    /\ proc'[p] \in Held => proc[p] \in Held
  BY DEF KernelEnds
<1>1. proc[p] \in KernelStates
  BY DEF IrishTypeOK, KernelStates
<1>2. st[p] \in {proc[p], "zombie", After(proc[p], sig)}
  OBVIOUS
<1>3. /\ proc[p] \in Ends => st[p] \in Ends
      /\ st[p] \in Held => proc[p] \in Held
  BY <1>1, <1>2, AfterEnds DEF Ends, Held
<1>4. QED
  BY <1>3, SettleEnds

\* The end of one process, ...
LEMMA OneEndEnds ==
    ASSUME IrishTypeOK, NEW q \in Processes, proc[q] = "running", Settle(Ended(q, proc), {})
    PROVE  KernelEnds
<1>1. \A p \in Processes : Ended(q, proc)[p] \in {proc[p], "zombie", After(proc[p], "SIGTERM")}
  BY DEF Ended, IrishTypeOK
<1>2. KernelStep(Ended(q, proc), {})
  BY EndSteps
<1>3. QED
  BY <1>1, <1>2, ManyEnd

\* ... of those quit signals, ...
LEMMA QuitEndsThem ==
    ASSUME IrishTypeOK, NEW s \in Processes, Quit(s)
    PROVE  KernelEnds
<1>1. PICK kept : KernelStep(Ended(s, Sent(Unfinished(s), "SIGTERM", kept)), kept)
  BY QuitSteps
<1> DEFINE sent == Sent(Unfinished(s), "SIGTERM", kept)
<1>2. \A p \in Processes : sent[p] \in {proc[p], After(proc[p], "SIGTERM")}
  BY SentFacts
<1>3. SettleArgument(sent)
  BY SentSettles
<1> HIDE DEF sent
<1>4. \A p \in Processes : Ended(s, sent)[p] \in {proc[p], "zombie", After(proc[p], "SIGTERM")}
  BY <1>2, <1>3 DEF Ended, SettleArgument
<1>5. KernelStep(Ended(s, sent), kept)
  BY <1>1 DEF sent
<1>6. QED
  BY <1>4, <1>5, ManyEnd

\* ... and of those ^C reaches.
LEMMA InterruptEnds ==
    ASSUME IrishTypeOK, Interrupt
    PROVE  KernelEnds
<1>1. PICK kept : KernelStep(Sent(Processes, "SIGINT", kept), kept)
  BY KillSteps DEF Interrupt
<1>2. \A p \in Processes :
          Sent(Processes, "SIGINT", kept)[p] \in {proc[p], "zombie", After(proc[p], "SIGINT")}
  BY SentFacts
<1>3. QED
  BY <1>1, <1>2, ManyEnd

\* A step that changes no table, begins no fg and makes no shell
LEMMA QuietStep ==
    ASSUME TableInv, StateInv, StepKeeps, KernelEnds,
           UNCHANGED <<level, processes>>,
           \A p \in Pids : pc[p] = "exec" => pc'[p] = "exec",
           pc'[Root] = "fg" => pc[Root] = "fg" /\ target'[Root] = target[Root]
    PROVE  StateInv'
<1> USE DEF StateInv, StepKeeps, TableInv, IrishTypeOK
<1>1. Root \in Processes /\ Pids \subseteq Processes
  BY DEF Processes
<1>2. \A s \in Processes : DOMAIN processes[s] \subseteq Pids
  BY TableFacts
<1>3. TerminatedEnds'
  <2> SUFFICES ASSUME NEW s \in Processes, NEW p \in DOMAIN processes[s]
               PROVE  /\ proc'[p] # "none"
                      /\ processes[s][p] = "Terminated" => proc'[p] \in Ends \/ Outlives(p)'
    BY DEF TerminatedEnds
  <2>1. p \in Processes
    BY <1>1, <1>2
  <2>2. QED
    BY <2>1 DEF TerminatedEnds, Outlives, KernelEnds, KernelKeeps, LoopKeeps
<1>4. OneShell'
  BY DEF OneShell
<1>5. RunningRuns'
  BY <1>1, <1>2 DEF RunningRuns, KernelEnds
<1>6. FgRunning'
  BY DEF FgRunning
<1>7. QED
  BY <1>3, <1>4, <1>5, <1>6

\* Steps that leave the tables alone
LEMMA OtherStepsEnd ==
    ASSUME TableInv, StateInv, StepKeeps,
           \/ UNCHANGED vars \/ Interrupt
           \/ \E c \in Clients : Send(c)
           \/ \E p \in Pids : ChildEnds(p)
           \/ \E s \in Processes : Throw(s) \/ HandlerExits(s) \/ Quit(s) \/ Other(s)
           \/ \E s \in Processes : FgReturns(s)
           \/ \E s \in Processes, p \in Pids : FgRefused(s, p)
    PROVE  StateInv'
<1> USE DEF TableInv, IrishTypeOK
<1>1. Root \in Processes /\ Root \notin Pids /\ Pids \subseteq Processes
  BY IrishAssumption DEF Processes
<1>2. UNCHANGED proc => KernelEnds
  BY DEF KernelEnds
<1>3. CASE UNCHANGED vars
  BY <1>2, <1>3, QuietStep DEF vars, kernelVars
<1>4. CASE Interrupt
  <2>1. KernelEnds
    BY <1>4, InterruptEnds
  <2>2. /\ \A p \in Pids : pc[p] = "exec" => pc'[p] = "exec"
        /\ pc'[Root] = "interrupted"
    BY <1>1, <1>4 DEF Interrupt, IsShell
  <2>3. QED
    BY <1>4, <2>1, <2>2, QuietStep DEF Interrupt
<1>5. ASSUME NEW c \in Clients, Send(c)
      PROVE  StateInv'
  BY <1>2, <1>5, QuietStep DEF Send, kernelVars
<1>6. ASSUME NEW p \in Pids, ChildEnds(p)
      PROVE  StateInv'
  <2>1. KernelEnds
    BY <1>1, <1>6, OneEndEnds DEF ChildEnds
  <2>2. QED
    BY <1>6, <2>1, QuietStep DEF ChildEnds
<1>7. ASSUME NEW s \in Processes, Throw(s) \/ HandlerExits(s)
      PROVE  StateInv'
  <2>1. KernelEnds
    BY <1>7, OneEndEnds DEF Throw, HandlerExits, At
  <2>2. QED
    BY <1>7, <2>1, QuietStep DEF Throw, HandlerExits
<1>8. ASSUME NEW s \in Processes, Quit(s)
      PROVE  StateInv'
  <2>1. KernelEnds
    BY <1>8, QuitEndsThem
  <2>2. /\ \A p \in Pids : pc[p] = "exec" => pc'[p] = "exec"
        /\ pc'[Root] = "fg" => pc[Root] = "fg"
    BY <1>1, <1>8 DEF Quit, Goto, At
  <2>3. QED
    BY <1>8, <2>1, <2>2, QuietStep DEF Quit
<1>9. ASSUME NEW s \in Processes, Other(s) \/ FgReturns(s) \/ \E p \in Pids : FgRefused(s, p)
      PROVE  StateInv'
  <2>1. KernelEnds
    <3>1. CASE FgReturns(s)
      <4>1. target[s] \in Processes /\ proc[target[s]] = "zombie"
        BY <1>1, <3>1 DEF FgReturns, At, FgHasTarget
      <4>2. QED
        BY <3>1, <4>1 DEF FgReturns, KernelEnds, Ends, Held
    <3>2. CASE UNCHANGED kernelVars
      BY <1>2, <3>2 DEF kernelVars
    <3>3. QED
      BY <1>9, <3>1, <3>2 DEF Other, FgRefused
  <2>2. /\ pc[s] # "exec"
        /\ pc' = [pc EXCEPT ![s] = "receive"]
        /\ \A r \in Processes \ {s} : target'[r] = target[r]
        /\ UNCHANGED <<level, processes>>
    BY <1>9 DEF Other, FgReturns, FgRefused, Reply, Answer, Continue, Goto, At
  <2>3. /\ \A p \in Pids : pc[p] = "exec" => pc'[p] = "exec"
        /\ pc'[Root] = "fg" => pc[Root] = "fg" /\ target'[Root] = target[Root]
    BY <1>1, <2>2
  <2>4. QED
    BY <2>1, <2>2, <2>3, QuietStep
<1>10. QED
  BY <1>3, <1>4, <1>5, <1>6, <1>7, <1>8, <1>9

\* At level 2 a step of a shell is one of the user's shell, and only fg begins
\* to wait.
LEMMA RootsStep ==
    ASSUME TableInv, StateInv, NEW s \in Processes, pc[s] # "exec", UNCHANGED level,
           pc'[s] # "fg",
           \A q \in Processes \ {s} : pc'[q] = pc[q] \/ (IsShell(q) /\ pc'[q] = "interrupted")
    PROVE  /\ level = 2 => s = Root
           /\ OneShell' /\ FgRunning'
<1>1. level = 2 => s = Root
  BY DEF StateInv, OneShell, Processes
<1>2. Root \in Processes /\ Root \notin Pids /\ Pids \subseteq Processes
  BY IrishAssumption DEF Processes
<1>3. QED
  BY <1>1, <1>2 DEF StateInv, OneShell, FgRunning, IsShell

\* fg waits for what is listed as running or as stopped by stop.
LEMMA FgEnds ==
    ASSUME TableInv, StateInv, NEW s \in Processes, NEW p \in Pids, Fg(s, p)
    PROVE  StateInv'
<1> USE DEF TableInv, IrishTypeOK
<1>1. /\ pc[s] = "command"
      /\ p \in DOMAIN processes[s]
      /\ processes[s][p] \in {"Running", "stopped"}
      /\ pc' = [pc EXCEPT ![s] = "fg"]
      /\ target' = [target EXCEPT ![s] = p]
      /\ UNCHANGED <<level, kernelVars, proc, processes>>
  BY TableFacts DEF Fg, At, FgWaits, Goto, kernelVars, States
<1>2. level = 2 => s = Root
  BY <1>1 DEF StateInv, OneShell, Processes
<1>3. TerminatedEnds' /\ RunningRuns'
  BY <1>1 DEF StateInv, TerminatedEnds, Outlives, RunningRuns, kernelVars
<1>4. OneShell' /\ FgRunning'
  BY <1>1, <1>2, IrishAssumption DEF StateInv, OneShell, FgRunning, Processes
<1>5. QED
  BY <1>3, <1>4 DEF StateInv

\* Polling only lists processes as completed that have ended.
LEMMA ReceiveEnds ==
    ASSUME TableInv, StateInv, NEW s \in Processes, Receive(s)
    PROVE  StateInv'
<1> USE DEF TableInv, IrishTypeOK
<1>1. /\ proc' = [p \in Processes |-> IF p \in Completed(s) THEN "gone" ELSE proc[p]]
      /\ processes' = [processes EXCEPT ![s] =
             [p \in DOMAIN processes[s] |->
                 IF p \in Completed(s) THEN "Completed" ELSE processes[s][p]]]
      /\ pc[s] = "receive"
      /\ pc' = [pc EXCEPT ![s] = "command"]
      /\ UNCHANGED <<level, spared>>
  BY DEF Receive, WaitProcesses, Goto, At
<1>2. \A q \in Processes : \A p \in DOMAIN processes'[q] :
          /\ p \in DOMAIN processes[q]
          /\ p \in Processes
          /\ processes'[q][p] \in {processes[q][p], "Completed"}
  BY <1>1, TableFacts DEF Processes
<1>3. \A p \in Processes : proc'[p] \in {proc[p], "gone"}
  BY <1>1
<1>4. TerminatedEnds'
  <2> SUFFICES ASSUME NEW q \in Processes, NEW p \in DOMAIN processes'[q]
               PROVE  /\ proc'[p] # "none"
                      /\ processes'[q][p] = "Terminated" => proc'[p] \in Ends \/ Outlives(p)'
    BY <1>1 DEF TerminatedEnds
  <2>1. /\ proc[p] # "none"
        /\ processes[q][p] = "Terminated" => proc[p] \in Ends \/ Outlives(p)
    BY <1>2 DEF StateInv, TerminatedEnds
  <2>2. QED
    <3>1. Outlives(p) => Outlives(p)'
      BY <1>1, <1>2 DEF Outlives
    <3>2. QED
      BY <1>2, <1>3, <2>1, <3>1 DEF Ends
<1>5. RunningRuns'
  <2> SUFFICES ASSUME level = 2, NEW p \in DOMAIN processes'[Root],
                      processes'[Root][p] = "Running"
               PROVE  proc'[p] \notin Held
    BY <1>1 DEF RunningRuns
  <2>1. p \in Processes /\ p \in DOMAIN processes[Root] /\ processes[Root][p] = "Running"
    BY <1>2 DEF Processes
  <2>2. QED
    BY <1>3, <2>1 DEF StateInv, RunningRuns, Held
<1>6. OneShell' /\ FgRunning'
  BY <1>1, RootsStep
<1>7. QED
  BY <1>4, <1>5, <1>6 DEF StateInv

\* What a signal does to its receiver, and that it leaves the others alone
LEMMA KillEnds ==
    ASSUME IrishTypeOK, NEW p \in Pids, NEW sig, Kill({p}, sig)
    PROVE  /\ \A q \in Processes \ {p} : proc'[q] \in Held => proc[q] \in Held
           /\ \A q \in Processes : proc[q] \in Ends => proc'[q] \in Ends
           /\ After(proc[p], sig) \in Ends =>
                  proc'[p] \in Ends \/ p \in spared' \/ Caught(p, sig)
           /\ sig = "SIGCONT" /\ proc'[p] \in Held => After(proc[p], sig) \in Held
<1>1. PICK kept \in SUBSET Spareable({p}, sig) : KernelStep(Sent({p}, sig, kept), kept)
  BY KillSteps
<1> DEFINE st == Sent({p}, sig, kept)
<1>2. p \in Processes
  BY DEF Processes
<1>3. /\ \A q \in Processes \ {p} : st[q] = proc[q]
      /\ \A q \in Processes : st[q] \in {proc[q], After(proc[q], sig)}
      /\ p \notin kept /\ ~Caught(p, sig) => st[p] = After(proc[p], sig)
  BY <1>2, SentFacts
<1>4. \A q \in Processes : proc[q] \in KernelStates
  BY DEF IrishTypeOK, KernelStates
<1>5. ASSUME NEW q \in Processes, proc[q] \in Ends
      PROVE  st[q] \in Ends
  BY <1>3, <1>4, <1>5, AfterEnds
<1>6. kept \subseteq spared'
  <2>1. PICK hup : spared' = spared \cup kept \cup hup
    BY <1>1, SettleFacts
  <2>2. QED
    BY <2>1
<1>7. sig = "SIGCONT" => p \notin kept /\ ~Caught(p, sig)
  BY DEF Spareable, Catchable, Caught
<1>8. KernelStep(st, kept)
  BY <1>1
<1> HIDE DEF st
<1>9. \A q \in Processes : /\ st[q] \in Ends => proc'[q] \in Ends
                           /\ proc'[q] \in Held => st[q] \in Held
  BY <1>8, SettleEnds
<1>10. /\ \A q \in Processes \ {p} : proc'[q] \in Held => proc[q] \in Held
       /\ \A q \in Processes : proc[q] \in Ends => proc'[q] \in Ends
  BY <1>3, <1>5, <1>9
<1>11. After(proc[p], sig) \in Ends => proc'[p] \in Ends \/ p \in spared' \/ Caught(p, sig)
  BY <1>2, <1>3, <1>6, <1>9
<1>12. sig = "SIGCONT" /\ proc'[p] \in Held => After(proc[p], sig) \in Held
  BY <1>2, <1>3, <1>7, <1>9
<1>13. QED
  BY <1>10, <1>11, <1>12

\* The state a shell notes for a process it has sent a signal is the state the
\* signal has brought about, unless the process outlives it.
LEMMA SignalEnds ==
    ASSUME TableInv, StateInv, StepKeeps, NEW s \in Processes, NEW p \in Pids,
           NEW sig \in Signals, Signal(s, p, sig) \/ Stop(s, p) \/ ContinueProcess(s, p)
    PROVE  StateInv'
<1> USE DEF TableInv, IrishTypeOK
<1>1. /\ pc[s] = "command"
      /\ UNCHANGED level
      /\ Reply(s) \/ (Interrupted(s, p, sig) /\ Answer(s))
  BY DEF Signal, Stop, ContinueProcess, SignalAndSet, At, Reply
<1>2. /\ pc'[s] # "fg"
      /\ \A q \in Processes \ {s} : pc'[q] = pc[q] \/ (IsShell(q) /\ pc'[q] = "interrupted")
      /\ \A q \in Processes \ {s} : target'[q] = target[q]
  BY <1>1 DEF Reply, Answer, Goto, Interrupted, Caught
<1>3. CASE UNCHANGED <<kernelVars, processes>>
  <2>1. KernelEnds
    BY <1>3 DEF KernelEnds, kernelVars
  <2>2. /\ \A q \in Pids : pc[q] = "exec" => pc'[q] = "exec"
        /\ pc'[Root] = "fg" => pc[Root] = "fg" /\ target'[Root] = target[Root]
    <3>1. Root \in Processes /\ Pids \subseteq Processes
      BY DEF Processes
    <3>2. s \in Pids => pc[s] # "exec"
      BY <1>1
    <3>3. QED
      BY <1>2, <3>1, <3>2 DEF IsShell
  <2>3. QED
    BY <1>1, <1>3, <2>1, <2>2, QuietStep
<1>4. ASSUME NEW sent, NEW state, CanSignal(s, p), Kill({p}, sent), SetState(s, p, state),
             state = "Running" => sent = "SIGCONT",
             state = "Terminated" =>
                 sent \in Catchable \cup {"SIGKILL"} /\ (Caught(p, sent) => pc'[p] = "interrupted")
      PROVE  StateInv'
  <2>1. /\ p \in Processes
        /\ p \in DOMAIN processes[s]
        /\ proc[p] \in Live \cup {"zombie"}
    BY <1>4 DEF Processes, CanSignal, Exists
  <2>2. /\ \A q \in Processes \ {p} : proc'[q] \in Held => proc[q] \in Held
        /\ \A q \in Processes : proc[q] \in Ends => proc'[q] \in Ends
        /\ After(proc[p], sent) \in Ends =>
               proc'[p] \in Ends \/ p \in spared' \/ Caught(p, sent)
        /\ sent = "SIGCONT" /\ proc'[p] \in Held => After(proc[p], sent) \in Held
    BY <1>4, KillEnds
  <2>3. state = "Terminated" => proc'[p] \in Ends \/ Outlives(p)'
    <3>1. state = "Terminated" => After(proc[p], sent) \in Ends
      BY <1>4, <2>1 DEF After, Ends, Live, Catchable
    <3>2. QED
      BY <1>4, <2>2, <3>1 DEF Outlives
  <2>4. state = "Running" => proc'[p] \notin Held
    <3>1. After(proc[p], "SIGCONT") \notin Held
      BY <2>1 DEF After, Held, Live, Catchable
    <3>2. QED
      BY <1>4, <2>2, <3>1
  <2>5. \A q \in Processes : \A r \in DOMAIN processes'[q] :
            /\ r \in DOMAIN processes[q]
            /\ r \in Processes
            /\ processes'[q][r] = IF q = s /\ r = p THEN state ELSE processes[q][r]
    BY <1>4, <2>1, TableFacts DEF SetState, Processes
  <2>6. TerminatedEnds'
    <3> SUFFICES ASSUME NEW q \in Processes, NEW r \in DOMAIN processes'[q]
                 PROVE  /\ proc'[r] # "none"
                        /\ processes'[q][r] = "Terminated" => proc'[r] \in Ends \/ Outlives(r)'
      BY <1>1 DEF TerminatedEnds
    <3>1. /\ proc[r] # "none"
          /\ processes[q][r] = "Terminated" => proc[r] \in Ends \/ Outlives(r)
      BY <2>5 DEF StateInv, TerminatedEnds
    <3>2. proc'[r] # "none"
      BY <2>5, <3>1 DEF StepKeeps, KernelKeeps
    <3>3. Outlives(r) => Outlives(r)'
      BY <2>5 DEF Outlives, StepKeeps, KernelKeeps, LoopKeeps
    <3>4. QED
      BY <2>2, <2>3, <2>5, <3>1, <3>2, <3>3
  <2>7. level = 2 => s = Root
    BY <1>1, <1>2, RootsStep
  <2>8. RunningRuns'
    <3> SUFFICES ASSUME level = 2, NEW r \in DOMAIN processes'[Root],
                        processes'[Root][r] = "Running"
                 PROVE  proc'[r] \notin Held
      BY <1>1 DEF RunningRuns
    <3>1. Root \in Processes /\ s = Root
      BY <2>7 DEF Processes
    <3>2. CASE r = p
      BY <2>4, <2>5, <3>1, <3>2
    <3>3. CASE r # p
      <4>1. r \in Processes /\ r \in DOMAIN processes[Root] /\ processes[Root][r] = "Running"
        BY <2>5, <3>1, <3>3
      <4>2. QED
        BY <2>2, <3>3, <4>1 DEF StateInv, RunningRuns
    <3>4. QED
      BY <3>2, <3>3
  <2>9. OneShell' /\ FgRunning'
    BY <1>1, <1>2, RootsStep
  <2>10. QED
    BY <2>6, <2>8, <2>9 DEF StateInv
<1>5. CASE Signal(s, p, sig) /\ ~UNCHANGED <<kernelVars, processes>>
  <2>1. /\ CanSignal(s, p) /\ Kill({p}, sig)
        /\ SetState(s, p, StateAfter(sig))
        /\ Interrupted(s, p, sig)
    BY <1>5 DEF Signal
  <2>2. /\ StateAfter(sig) = "Running" => sig = "SIGCONT"
        /\ StateAfter(sig) = "Terminated" => sig \in Catchable \cup {"SIGKILL"}
    BY DEF StateAfter, Signals
  <2>3. Caught(p, sig) => pc'[p] = "interrupted"
    <3>1. p \in Processes
      BY DEF Processes
    <3>2. QED
      BY <2>1, <3>1 DEF Interrupted
  <2>4. QED
    BY <1>4, <2>1, <2>2, <2>3
<1>6. CASE Stop(s, p) /\ ~UNCHANGED <<kernelVars, processes>>
  <2>1. CanSignal(s, p) /\ Kill({p}, "SIGSTOP") /\ SetState(s, p, "stopped")
    BY <1>6 DEF Stop, SignalAndSet
  <2>2. QED
    BY <1>4, <2>1
<1>7. CASE ContinueProcess(s, p) /\ ~UNCHANGED <<kernelVars, processes>>
  <2>1. CanSignal(s, p) /\ Kill({p}, "SIGCONT") /\ SetState(s, p, "Running")
    BY <1>7 DEF ContinueProcess, SignalAndSet
  <2>2. QED
    BY <1>4, <2>1
<1>8. QED
  BY <1>3, <1>5, <1>6, <1>7

\* A new process runs, or has ended, and is listed as running; no table has
\* listed it before.
LEMMA StartEnds ==
    ASSUME TableInv, StateInv, StepKeeps, NEW s \in Processes, Bg(s) \/ BgExecFails(s)
    PROVE  StateInv'
<1> USE DEF TableInv, IrishTypeOK
<1>1. PICK p \in Pids :
        /\ proc[p] = "none"
        /\ \E state \in {"running", "zombie"} : proc' = [proc EXCEPT ![p] = state]
        /\ processes'[s] = Insert(processes[s], p, "Running")
        /\ \A q \in Processes \ {s, p} : processes'[q] = processes[q]
        /\ processes'[p] \in {processes[p], processes[s]}
        /\ \/ pc' = [pc EXCEPT ![s] = "receive"]
           \/ level = 1
        /\ UNCHANGED <<level, spared>>
  <2>1. proc[s] # "none"
    BY DEF Bg, BgExecFails, At
  <2>2. CASE Bg(s)
    <3>1. PICK p \in Pids :
            /\ NewPid(p)
            /\ proc' = [proc EXCEPT ![p] = "running"]
            /\ processes' = [processes EXCEPT ![s] = Insert(processes[s], p, "Running")]
      BY <2>2 DEF Bg
    <3>2. proc[p] = "none" /\ p # s /\ p \in Processes
      BY <2>1, <3>1 DEF NewPid, Processes
    <3>3. QED
      BY <2>2, <3>1, <3>2 DEF Bg, Reply, Goto
  <2>3. CASE BgExecFails(s)
    <3>1. PICK p \in Pids :
            /\ NewPid(p)
            /\ proc' = [proc EXCEPT ![p] = IF level = 1 THEN "running" ELSE "zombie"]
            /\ processes' = [processes EXCEPT ![s] = Insert(processes[s], p, "Running"),
                                              ![p] = processes[s]]
            /\ pc' = [pc EXCEPT ![s] = "receive",
                                ![p] = IF level = 1 THEN "receive" ELSE @]
      BY <2>3 DEF BgExecFails
    <3>2. proc[p] = "none" /\ p # s /\ p \in Processes
      BY <2>1, <3>1 DEF NewPid, Processes
    <3>3. processes'[s] = Insert(processes[s], p, "Running") /\ processes'[p] = processes[s]
      BY <3>1, <3>2
    <3>4. level = 2 => pc' = [pc EXCEPT ![s] = "receive"]
      <4>1. ASSUME level = 2
            PROVE  pc' = [[pc EXCEPT ![s] = "receive"] EXCEPT ![p] = pc[p]]
        BY <3>1, <3>2, <4>1
      <4>2. [pc EXCEPT ![s] = "receive"][p] = pc[p]
        BY <3>2
      <4>3. QED
        BY <4>1, <4>2
    <3>5. UNCHANGED <<level, spared>>
      BY <2>3 DEF BgExecFails
    <3>6. QED
      BY <3>1, <3>2, <3>3, <3>4, <3>5
  <2>4. QED
    BY <2>2, <2>3
<1>2. /\ p \in Processes
      /\ p # Root
      /\ Root \in Processes
      /\ pc[s] = "command"
  BY IrishAssumption DEF Processes, Bg, BgExecFails, At
<1>3. /\ proc'[p] \in {"running", "zombie"}
      /\ \A q \in Processes \ {p} : proc'[q] = proc[q]
  BY <1>1, <1>2
<1>4. \A q \in Processes : \A r \in DOMAIN processes[q] : r \in Processes /\ r # p
  BY <1>1, TableFacts DEF StateInv, TerminatedEnds, Processes
<1>5. \A q \in Processes : \A r \in DOMAIN processes'[q] :
          \/ r = p /\ processes'[q][r] = "Running"
          \/ \E t \in {q, s} : r \in DOMAIN processes[t] /\ processes'[q][r] = processes[t][r]
  <2> SUFFICES ASSUME NEW q \in Processes, NEW r \in DOMAIN processes'[q]
               PROVE  \/ r = p /\ processes'[q][r] = "Running"
                      \/ \E t \in {q, s} : /\ r \in DOMAIN processes[t]
                                           /\ processes'[q][r] = processes[t][r]
    OBVIOUS
  <2>1. CASE q = s
    <3> DEFINE t == processes[s]
    <3>1. processes'[q] = [o \in DOMAIN t \cup {p} |-> IF o \in DOMAIN t THEN t[o] ELSE "Running"]
      BY <1>1, <2>1 DEF Insert
    <3> HIDE DEF t
    <3>2. \/ r = p /\ processes'[q][r] = "Running"
          \/ r \in DOMAIN t /\ processes'[q][r] = t[r]
      BY <3>1
    <3>3. QED
      BY <3>2, <2>1 DEF t
  <2>2. CASE q # s
    <3>1. processes'[q] = processes[q] \/ processes'[q] = processes[s]
      BY <1>1, <2>2
    <3>2. QED
      BY <3>1
  <2>3. QED
    BY <2>1, <2>2
<1>6. TerminatedEnds'
  <2> SUFFICES ASSUME NEW q \in Processes, NEW r \in DOMAIN processes'[q]
               PROVE  /\ proc'[r] # "none"
                      /\ processes'[q][r] = "Terminated" => proc'[r] \in Ends \/ Outlives(r)'
    BY DEF TerminatedEnds
  <2>1. CASE r = p /\ processes'[q][r] = "Running"
    BY <1>3, <2>1
  <2>2. ASSUME NEW t \in {q, s}, r \in DOMAIN processes[t], processes'[q][r] = processes[t][r]
        PROVE  /\ proc'[r] # "none"
               /\ processes'[q][r] = "Terminated" => proc'[r] \in Ends \/ Outlives(r)'
    <3>1. r \in Processes /\ r # p
      BY <1>4, <2>2
    <3>2. Outlives(r) => Outlives(r)'
      BY <3>1 DEF Outlives, StepKeeps, KernelKeeps, LoopKeeps
    <3>3. QED
      BY <1>3, <2>2, <3>1, <3>2 DEF StateInv, TerminatedEnds
  <2>3. QED
    BY <1>5, <2>1, <2>2
<1>7. level = 2 => s = Root
  BY <1>2 DEF StateInv, OneShell, Processes
<1>8. RunningRuns'
  <2> SUFFICES ASSUME level = 2, NEW r \in DOMAIN processes'[Root],
                      processes'[Root][r] = "Running"
               PROVE  proc'[r] \notin Held
    BY <1>1 DEF RunningRuns
  <2>1. CASE r = p
    BY <1>3, <2>1 DEF Held
  <2>2. CASE r # p
    BY <1>2, <1>3, <1>4, <1>5, <1>7, <2>2 DEF StateInv, RunningRuns
  <2>3. QED
    BY <2>1, <2>2
<1>9. OneShell' /\ FgRunning'
  <2>1. CASE pc' = [pc EXCEPT ![s] = "receive"]
    BY <1>1, <1>2, <2>1, RootsStep
  <2>2. CASE level = 1
    BY <1>1, <2>2 DEF OneShell, FgRunning
  <2>3. QED
    BY <1>1, <2>1, <2>2
<1>10. QED
  BY <1>6, <1>8, <1>9 DEF StateInv

\* Every step keeps what the states in the tables say.
LEMMA StepStateInv ==
    ASSUME TableInv, StateInv, [Next]_vars
    PROVE  StateInv'
<1>1. StepKeeps
  BY StepTableInv
<1>2. ASSUME NEW s \in Processes, Execute(s)
      PROVE  StateInv'
  <2>1. ASSUME NEW p \in Pids, FgRefused(s, p) \/ Fg(s, p)
        PROVE  StateInv'
    BY <1>1, <2>1, FgEnds, OtherStepsEnd
  <2>2. ASSUME NEW p \in Pids, NEW sig \in Signals, Signal(s, p, sig)
        PROVE  StateInv'
    BY <1>1, <2>2, SignalEnds
  <2>3. ASSUME NEW p \in Pids, Stop(s, p) \/ ContinueProcess(s, p)
        PROVE  StateInv'
    <3>1. "SIGSTOP" \in Signals
      BY DEF Signals
    <3>2. QED
      BY <1>1, <2>3, <3>1, SignalEnds
  <2>4. QED
    BY <1>1, <1>2, <2>1, <2>2, <2>3, StartEnds, OtherStepsEnd DEF Execute
<1>3. QED
  BY <1>1, <1>2, ReceiveEnds, OtherStepsEnd DEF Next

\* The shells' tables and the processes agree.
THEOREM StateInvariant == Spec => []StateInv
<1>1. Init => StateInv
  <2> SUFFICES ASSUME Init
               PROVE  StateInv
    OBVIOUS
  <2>1. Root \in Processes /\ \A s \in Processes : DOMAIN processes[s] = {}
    BY DEF Init, Processes
  <2>2. TerminatedEnds /\ RunningRuns
    BY <2>1 DEF TerminatedEnds, RunningRuns
  <2>3. OneShell /\ FgRunning
    BY IrishAssumption DEF Init, OneShell, FgRunning, Processes
  <2>4. QED
    BY <2>2, <2>3 DEF StateInv
<1>2. TableInv /\ StateInv /\ [Next]_vars => StateInv'
  BY StepStateInv
<1>3. QED
  BY <1>1, <1>2, ShellInvariant, PTL DEF Spec

\* What a shell lists as terminated (irish.cpp:104-121) will not run again, but a
\* program that has withstood a signal, and a second shell in its handler.
THEOREM TerminatedAreOver == Spec => []TerminatedIsOver
<1>1. StateInv => TerminatedIsOver
  BY DEF StateInv, TerminatedEnds, Outlives, TerminatedIsOver, Ends
<1>2. QED
  BY <1>1, StateInvariant, PTL

\* At level 2 fg hangs only on what the stop command has stopped
\* (irish.cpp:286 and 329).
THEOREM FgHangsOnStop == Spec => []FgHangsOnlyOnStop
<1>1. StateInv => FgHangsOnlyOnStop
  BY DEF StateInv, RunningRuns, FgRunning, FgHangsOnlyOnStop, At, Held
<1>2. QED
  BY <1>1, StateInvariant, PTL

-----------------------------------------------------------------------------
(* What quit leaves behind *)

Dead == {"zombie", "gone"}

\* No step revives a process, ...
DeadStay == \A p \in Processes : proc[p] \in Dead => proc'[p] \in Dead

\* ... so what quit has brought about stays: the shell has ended, and of its
\* processes nothing is left but those that outlive their signals.
QuitInv ==
    pc[Root] = "quit" =>
        /\ proc[Root] \in Dead
        /\ QuitLeavesNothingRunning

\* The kernel revives nothing when it settles, and continues what is stopped
\* when the user's shell ends.
LEMMA SettleDead ==
    ASSUME IrishTypeOK, NEW st, NEW kept, KernelStep(st, kept), NEW p \in Processes
    PROVE  /\ st[p] \in Dead => proc'[p] \in Dead
           /\ proc[Root] \in Live /\ st[Root] \notin Live /\ p \in Pids /\ st[p] = "doomed"
                  => proc'[p] \in Dead
<1>1. PICK new, hup :
        Adopt(new) /\ IF Orphaned(st) THEN new = HangUp(st, hup) ELSE new = st
  BY SettleFacts
<1>2. /\ st[p] \in Dead => new[p] \in Dead
      /\ proc[Root] \in Live /\ st[Root] \notin Live /\ p \in Pids /\ st[p] = "doomed"
             => new[p] \in Dead
  <2>1. /\ After("doomed", "SIGHUP") = "doomed"
        /\ After("doomed", "SIGCONT") = "zombie"
    BY DEF After, Live, Catchable
  <2>2. ASSUME NEW x \in Dead, NEW sig
        PROVE  After(x, sig) = x
    BY <2>2, AfterKeeps DEF Dead, KernelStates, Live
  <2>3. HangUp(st, hup)[p] = After(IF p \in hup THEN st[p] ELSE After(st[p], "SIGHUP"), "SIGCONT")
    BY DEF HangUp
  <2>4. /\ st[p] \in Dead => HangUp(st, hup)[p] = st[p]
        /\ st[p] = "doomed" => HangUp(st, hup)[p] = "zombie"
    BY <2>1, <2>2, <2>3
  <2>5. proc[Root] \in Live /\ st[Root] \notin Live /\ p \in Pids /\ st[p] = "doomed"
            => Orphaned(st)
    BY DEF Orphaned
  <2>6. QED
    BY <1>1, <2>4, <2>5 DEF Dead
<1>3. proc'[p] = new[p] \/ (new[p] = "zombie" /\ proc'[p] = "gone")
  BY <1>1 DEF Adopt
<1>4. QED
  BY <1>2, <1>3 DEF Dead

\* The states the kernel settles keep what has ended.
LEMMA SettlingRevivesNothing ==
    ASSUME IrishTypeOK, NEW st, NEW kept, KernelStep(st, kept)
    PROVE  DeadStay
  BY SettleDead DEF DeadStay, KernelStep, SettleArgument, Dead, Live

\* No step revives what has ended.
LEMMA StepRevivesNothing ==
    ASSUME TableInv, [Next]_vars
    PROVE  DeadStay
<1> USE DEF TableInv, IrishTypeOK
<1>1. Pids \subseteq Processes
  BY DEF Processes
<1>2. ASSUME NEW q \in Processes, proc[q] = "running", Settle(Ended(q, proc), {})
      PROVE  DeadStay
  BY <1>2, EndSteps, SettlingRevivesNothing
<1>3. ASSUME NEW to, NEW sig, Kill(to, sig)
      PROVE  DeadStay
  BY <1>3, KillSteps, SettlingRevivesNothing
<1>4. UNCHANGED proc => DeadStay
  BY DEF DeadStay
<1>5. CASE Interrupt
  BY <1>3, <1>5 DEF Interrupt
<1>6. ASSUME NEW s \in Processes, Quit(s)
      PROVE  DeadStay
  BY <1>6, QuitSteps, SettlingRevivesNothing
<1>7. ASSUME NEW s \in Processes, Receive(s)
      PROVE  DeadStay
  BY <1>7 DEF Receive, WaitProcesses, DeadStay, Dead
<1>8. ASSUME NEW s \in Processes, Bg(s) \/ BgExecFails(s)
      PROVE  DeadStay
  <2>1. PICK p \in Pids, state \in {"running", "zombie"} :
            proc[p] = "none" /\ proc' = [proc EXCEPT ![p] = state]
    BY <1>8 DEF Bg, BgExecFails, NewPid
  <2>2. QED
    BY <1>1, <2>1 DEF DeadStay, Dead
<1>9. ASSUME NEW s \in Processes, FgReturns(s)
      PROVE  DeadStay
  BY <1>9 DEF FgReturns, DeadStay, Dead
<1>10. ASSUME NEW s \in Processes, NEW p \in Pids, NEW sig,
              Signal(s, p, sig) \/ Stop(s, p) \/ ContinueProcess(s, p)
       PROVE  DeadStay
  <2>1. UNCHANGED proc \/ \E sent : Kill({p}, sent)
    BY <1>10 DEF Signal, Stop, ContinueProcess, SignalAndSet, kernelVars
  <2>2. QED
    BY <1>3, <1>4, <2>1
<1>11. ASSUME NEW s \in Processes, Throw(s) \/ HandlerExits(s)
       PROVE  DeadStay
  BY <1>2, <1>11 DEF Throw, HandlerExits, At
<1>12. ASSUME NEW p \in Pids, ChildEnds(p)
       PROVE  DeadStay
  BY <1>1, <1>2, <1>12 DEF ChildEnds
<1>13. ASSUME NEW s \in Processes, Other(s) \/ \E p \in Pids : FgRefused(s, p) \/ Fg(s, p)
       PROVE  DeadStay
  BY <1>4, <1>13 DEF Other, FgRefused, Fg, kernelVars
<1>14. ASSUME NEW s \in Processes, Execute(s)
       PROVE  DeadStay
  BY <1>6, <1>8, <1>9, <1>10, <1>13, <1>14 DEF Execute
<1>15. CASE UNCHANGED vars \/ \E c \in Clients : Send(c)
  BY <1>4, <1>15 DEF vars, Send, kernelVars
<1>16. QED
  BY <1>5, <1>7, <1>11, <1>12, <1>14, <1>15 DEF Next

\* Quit sends SIGTERM to what is unfinished; its end continues what is stopped,
\* so that the signal takes effect.
LEMMA QuitEnds ==
    ASSUME TableInv, StateInv, StepKeeps, Quit(Root)
    PROVE  QuitInv'
<1> USE DEF TableInv, IrishTypeOK
<1>1. Root \in Processes /\ Root \notin Pids /\ Pids \subseteq Processes
  BY IrishAssumption DEF Processes
<1>2. PICK kept : KernelStep(Ended(Root, Sent(Unfinished(Root), "SIGTERM", kept)), kept)
  BY <1>1, QuitSteps
<1> DEFINE sent == Sent(Unfinished(Root), "SIGTERM", kept)
           st == Ended(Root, sent)
<1>3. /\ \A p \in Processes : sent[p] \in {proc[p], After(proc[p], "SIGTERM")}
      /\ \A p \in Unfinished(Root) \cap Processes :
            p \notin kept => sent[p] = After(proc[p], "SIGTERM")
  BY SentFacts DEF Caught
<1>4. SettleArgument(sent)
  BY SentSettles
<1> HIDE DEF sent
<1>5. /\ st[Root] = "zombie"
      /\ \A p \in Pids : st[p] = sent[p]
  BY <1>1, <1>4 DEF Ended, SettleArgument
<1>6. KernelStep(st, kept)
  BY <1>2 DEF sent
<1> HIDE DEF st
<1>7. proc[Root] \in Live /\ UNCHANGED processes
  BY <1>1 DEF Quit, At, Live
<1>8. proc'[Root] \in Dead
  BY <1>1, <1>5, <1>6, SettleDead DEF Dead
<1>9. kept \subseteq spared'
  <2>1. PICK hup : spared' = spared \cup kept \cup hup
    BY <1>6, SettleFacts
  <2>2. QED
    BY <2>1
<1>10. ASSUME NEW p \in DOMAIN processes[Root], proc'[p] \in Live
       PROVE  p \in spared' \/ (processes[Root][p] = "Terminated" /\ pc'[p] = "interrupted")
  <2>1. p \in Pids /\ p \in Processes
    BY <1>1, TableFacts
  <2>2. st[p] \notin Ends
    BY <1>5, <1>6, <1>7, <1>10, <2>1, SettleDead DEF Ends, Dead, Live
  <2>3. proc[p] # "none" /\ proc[p] \in KernelStates
    BY <1>1, <2>1 DEF StateInv, TerminatedEnds, KernelStates
  <2>4. CASE p \in Unfinished(Root)
    <3>1. After(proc[p], "SIGTERM") \in Ends
      BY <2>3 DEF After, Catchable, KernelStates, Live, Ends
    <3>2. p \in kept
      BY <1>3, <1>5, <2>1, <2>2, <2>4, <3>1
    <3>3. QED
      BY <1>9, <3>2
  <2>5. CASE p \notin Unfinished(Root)
    <3>1. proc[p] \notin Ends
      <4>1. ASSUME proc[p] \in Ends
            PROVE  After(proc[p], "SIGTERM") \in Ends
        BY <2>3, <4>1, AfterEnds
      <4>2. QED
        BY <1>3, <1>5, <2>1, <2>2, <4>1
    <3>2. processes[Root][p] # "Completed"
      BY <1>1, <3>1 DEF CompletedIsGone, Ends
    <3>3. processes[Root][p] = "Terminated"
      BY <2>5, <3>2 DEF Unfinished, Final
    <3>4. Outlives(p)
      BY <1>1, <3>1, <3>3 DEF StateInv, TerminatedEnds
    <3>5. QED
      BY <2>1, <3>3, <3>4 DEF Outlives, StepKeeps, KernelKeeps, LoopKeeps
  <2>6. QED
    BY <2>4, <2>5
<1>11. QED
  BY <1>7, <1>8, <1>10 DEF QuitInv, QuitLeavesNothingRunning

\* Steps that leave the table of the user's shell alone
LEMMA QuitStays ==
    ASSUME TableInv, StateInv, QuitInv, StepKeeps, DeadStay,
           pc'[Root] = "quit" => pc[Root] = "quit",
           processes'[Root] = processes[Root]
    PROVE  QuitInv'
<1>1. Root \in Processes
  BY DEF Processes
<1>2. ASSUME pc[Root] = "quit", NEW p \in DOMAIN processes[Root], proc'[p] \in Live
      PROVE  p \in spared' \/ (processes[Root][p] = "Terminated" /\ pc'[p] = "interrupted")
  <2>1. p \in Processes
    BY <1>1, TableFacts DEF TableInv, IrishTypeOK, Processes
  <2>2. proc[p] \in Live
    BY <1>1, <1>2, <2>1
    DEF DeadStay, Dead, Live, StateInv, TerminatedEnds, TableInv, IrishTypeOK
  <2>3. p \in spared \/ (processes[Root][p] = "Terminated" /\ pc[p] = "interrupted")
    BY <1>2, <2>2 DEF QuitInv, QuitLeavesNothingRunning
  <2>4. QED
    BY <2>1, <2>3 DEF StepKeeps, KernelKeeps, LoopKeeps
<1>3. QED
  BY <1>1, <1>2 DEF QuitInv, QuitLeavesNothingRunning, DeadStay

\* Other shells do not touch that table.
LEMMA OtherShells ==
    ASSUME TableInv, StateInv, NEW s \in Processes \ {Root},
           Receive(s) \/ Throw(s) \/ Execute(s) \/ HandlerExits(s)
    PROVE  /\ pc'[Root] = pc[Root]
           /\ processes'[Root] = processes[Root]
<1> USE DEF TableInv, IrishTypeOK
<1>1. Root \in Processes /\ Root \notin Pids
  BY IrishAssumption DEF Processes
<1>2. CASE Receive(s) \/ Throw(s) \/ HandlerExits(s)
  BY <1>1, <1>2 DEF Receive, Throw, HandlerExits, WaitProcesses, Goto
<1>3. CASE Bg(s)
  BY <1>1, <1>3 DEF Bg, Reply, Goto
<1>4. CASE BgExecFails(s)
  BY <1>1, <1>4 DEF BgExecFails
<1>5. CASE Other(s) \/ FgReturns(s) \/ Quit(s)
  BY <1>1, <1>5 DEF Other, FgReturns, Quit, Reply, Goto
<1>6. ASSUME NEW p \in Pids, FgRefused(s, p) \/ Fg(s, p)
      PROVE  pc'[Root] = pc[Root] /\ UNCHANGED processes
  BY <1>1, <1>6 DEF FgRefused, Fg, Continue, Goto
<1>7. ASSUME NEW p \in Pids, NEW sig, Signal(s, p, sig) \/ Stop(s, p) \/ ContinueProcess(s, p)
      PROVE  pc'[Root] = pc[Root] /\ processes'[Root] = processes[Root]
  BY <1>1, <1>7 DEF Signal, Stop, ContinueProcess, SignalAndSet, SetState, Interrupted, Reply, Goto
<1>8. QED
  BY <1>2, <1>3, <1>4, <1>5, <1>6, <1>7 DEF Execute

\* Of the steps of the user's shell only quit brings it there.
LEMMA OnlyQuitQuits ==
    ASSUME TableInv, Receive(Root) \/ Throw(Root) \/ Execute(Root) \/ HandlerExits(Root),
           ~Quit(Root)
    PROVE  pc'[Root] # "quit"
<1> USE DEF TableInv, IrishTypeOK
<1>1. Root \in Processes
  BY DEF Processes
<1>2. CASE Receive(Root) \/ Throw(Root) \/ HandlerExits(Root)
  BY <1>1, <1>2 DEF Receive, Throw, HandlerExits, At, Goto
<1>3. CASE Bg(Root) \/ BgExecFails(Root) \/ Other(Root) \/ FgReturns(Root)
  <2>1. pc'[Root] \in {"receive", pc[Root]} /\ pc[Root] # "quit"
    BY <1>1, <1>3, IrishAssumption DEF Bg, BgExecFails, Other, FgReturns, Reply, Goto, At
  <2>2. QED
    BY <2>1
<1>4. ASSUME NEW p \in Pids, FgRefused(Root, p) \/ Fg(Root, p)
      PROVE  pc'[Root] # "quit"
  BY <1>1, <1>4 DEF FgRefused, Fg, Continue, Goto
<1>5. ASSUME NEW p \in Pids, NEW sig,
             Signal(Root, p, sig) \/ Stop(Root, p) \/ ContinueProcess(Root, p)
      PROVE  pc'[Root] # "quit"
  BY <1>1, <1>5 DEF Signal, Stop, ContinueProcess, SignalAndSet, Interrupted, Reply, Goto
<1>6. QED
  BY <1>2, <1>3, <1>4, <1>5 DEF Execute

\* After quit (irish.cpp:369-382) none of the shell's processes is left, but a
\* program that has withstood its signal, and a second shell that is taken for
\* terminated while its handler waits.
THEOREM QuitLeavesNothing == Spec => []QuitLeavesNothingRunning
<1>1. Init => QuitInv
  BY DEF Init, QuitInv, Processes
<1>2. ASSUME TableInv, StateInv, QuitInv, [Next]_vars
      PROVE  QuitInv'
  <2>1. StepKeeps /\ DeadStay
    BY <1>2, StepTableInv, StepRevivesNothing
  <2>2. CASE UNCHANGED <<pc, processes>>
    BY <1>2, <2>1, <2>2, QuitStays
  <2>3. CASE Interrupt
    BY <2>3 DEF Interrupt, QuitInv, Processes
  <2>4. ASSUME NEW s \in Processes, Receive(s) \/ Throw(s) \/ Execute(s) \/ HandlerExits(s)
        PROVE  QuitInv'
    <3>1. CASE s # Root
      BY <1>2, <2>1, <2>4, <3>1, OtherShells, QuitStays
    <3>2. CASE s = Root /\ Quit(Root)
      BY <1>2, <2>1, <3>2, QuitEnds
    <3>3. CASE s = Root /\ ~Quit(Root)
      BY <1>2, <2>4, <3>3, OnlyQuitQuits DEF QuitInv
    <3>4. QED
      BY <3>1, <3>2, <3>3
  <2>5. QED
    BY <1>2, <2>2, <2>3, <2>4 DEF Next, vars, ChildEnds, Send
<1>3. QuitInv => QuitLeavesNothingRunning
  BY DEF QuitInv, QuitLeavesNothingRunning
<1>4. QED
  BY <1>1, <1>2, <1>3, ShellInvariant, StateInvariant, PTL DEF Spec

=============================================================================
