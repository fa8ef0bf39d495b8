------------------------------- MODULE Irish -------------------------------
(***************************************************************************)
(* project2: the shell irish.cpp, which starts processes in the background *)
(* and keeps a table of their states, its clients irish.py, and what the   *)
(* kernel does with signals and with ended processes.  At level 1 commands *)
(* come from the terminal, at level 2 from clients over a REP socket.      *)
(***************************************************************************)
EXTENDS Integers, Sequences, FiniteSets

CONSTANTS
    Pids,           \* the processes that can be started, in the order of their start
    Clients,
    None            \* no client, no command, no parent

Root == 0           \* the process the user has started
Processes == {Root} \cup Pids

ASSUME IrishAssumption ==
    /\ Pids \subseteq Nat \ {Root}
    /\ None \notin Clients \cup Processes

VARIABLES
    level,          \* the -level option
    proc,           \* the kernel's state of each process
    parent,         \* the process that may wait for it; None: init or the shell
    spared,         \* history: the programs that have withstood a deadly signal
    processes,      \* each shell's table: its states of the processes it knows
    pc,             \* where each shell is; "exec" for what is not a shell
    target,         \* the process each shell's fg waits for
    client,         \* whether a client waits for an answer, or has left
    queue,          \* the clients whose requests have not been received
    owed,           \* the client that is owed a reply
    awaited         \* history: the children waited for by Root's fg

kernelVars == <<proc, parent, spared>>
clientVars == <<client, queue, owed>>
vars == <<level, kernelVars, processes, pc, target, clientVars, awaited>>

\* Those of handleSignal().  The first ones are deadly, unless they are caught
\* or ignored.
Catchable == {"SIGHUP", "SIGALRM", "SIGINT", "SIGQUIT", "SIGTERM"}

Signals == Catchable \cup {"SIGKILL", "SIGSTOP", "SIGCONT"}

Init ==
    /\ level \in {1, 2}
    /\ proc = [p \in Processes |-> IF p = Root THEN "running" ELSE "none"]
    /\ parent = [p \in Processes |-> None]
    /\ spared = {}
    /\ processes = [p \in Processes |-> <<>>]
    /\ pc = [p \in Processes |-> IF p = Root THEN "receive" ELSE "exec"]
    /\ target = [p \in Processes |-> None]
    /\ client = [c \in Clients |-> "idle"]
    /\ queue = <<>>
    /\ owed = None
    /\ awaited = {}

-----------------------------------------------------------------------------
(* The kernel.  "doomed" is stopped with a deadly signal pending; "gone" is  *)
(* ended and waited for.                                                     *)

Live == {"running", "stopped", "doomed"}

IsShell(p) == proc[p] \in Live /\ pc[p] # "exec"

\* A process in state st after signal sig, when it leaves it its default effect
After(st, sig) ==
    CASE st = "running" /\ sig \in Catchable -> "zombie"
      [] st \in Live /\ sig = "SIGKILL"      -> "zombie"
      [] st = "running" /\ sig = "SIGSTOP"   -> "stopped"
      [] st = "stopped" /\ sig = "SIGCONT"   -> "running"
      [] st = "stopped" /\ sig \in Catchable -> "doomed"
      [] st = "doomed" /\ sig = "SIGCONT"    -> "zombie"
      [] OTHER                               -> st

\* The programs, in the states st, that may catch or ignore a signal.  What a
\* program does with its signals it may change at any time.
Withstanding(st) == {p \in Pids : st[p] \in {"running", "stopped"} /\ pc[p] = "exec"}

\* kill() finds the process, though it may have ended.
Exists(p) == proc[p] \notin {"none", "gone"}

\* When Root ends, its process group is orphaned: if it has stopped members,
\* all members are sent SIGHUP and SIGCONT.
Orphaned(st) ==
    /\ proc[Root] \in Live /\ st[Root] \notin Live
    /\ \E p \in Pids : st[p] \in {"stopped", "doomed"}

HangUp(st, kept) ==
    [p \in Processes |->
        After(IF p \in kept THEN st[p] ELSE After(st[p], "SIGHUP"), "SIGCONT")]

\* The processes have come to be in the states new.  Children of a process
\* that has ended are init's, which waits for them.
Adopt(new) ==
    LET adopted(p) == parent[p] = None \/ new[parent[p]] \notin Live
    IN  /\ proc' = [p \in Processes |->
                       IF new[p] = "zombie" /\ adopted(p) THEN "gone" ELSE new[p]]
        /\ parent' = [p \in Processes |-> IF adopted(p) THEN None ELSE parent[p]]

\* The processes have come to be in the states st, where the programs in kept
\* have withstood a signal.
Settle(st, kept) ==
    IF Orphaned(st)
    THEN \E hup \in SUBSET Withstanding(st) :
            Adopt(HangUp(st, hup)) /\ spared' = spared \cup kept \cup hup
    ELSE Adopt(st) /\ spared' = spared \cup kept

\* A shell catches SIGINT.
Caught(p, sig) == sig = "SIGINT" /\ IsShell(p)

\* The states after signal sig to the processes in to
Sent(to, sig, kept) ==
    [p \in Processes |->
        IF p \in to \ kept /\ ~Caught(p, sig) THEN After(proc[p], sig) ELSE proc[p]]

Spareable(to, sig) == IF sig \in Catchable THEN to \cap Withstanding(proc) ELSE {}

Kill(to, sig) ==
    \E kept \in SUBSET Spareable(to, sig) : Settle(Sent(to, sig, kept), kept)

Ended(p, st) == [st EXCEPT ![p] = "zombie"]

\* A process started in the background ends by itself.
ChildEnds(p) ==
    /\ proc[p] = "running"
    /\ ~IsShell(p)
    /\ Settle(Ended(p, proc), {})
    /\ UNCHANGED <<level, processes, pc, target, clientVars, awaited>>

-----------------------------------------------------------------------------
(* The clients: REQ sockets that send and receive in turn *)

Send(c) ==
    /\ level = 2
    /\ client[c] = "idle"
    /\ client' = [client EXCEPT ![c] = "waiting"]
    /\ queue' = Append(queue, c)
    /\ UNCHANGED <<level, kernelVars, processes, pc, target, owed, awaited>>

-----------------------------------------------------------------------------
(* The main loop of a shell s *)

At(s, place) == proc[s] = "running" /\ pc[s] = place

Goto(s, place) == pc' = [pc EXCEPT ![s] = place]

Final == {"Terminated", "Completed"}

\* Mutant: only those that run
UnfinishedRunning(s) == {p \in DOMAIN processes[s] : processes[s][p] = "Running"}

Unfinished(s) == {p \in DOMAIN processes[s] : processes[s][p] \notin Final}

\* waitpid(p) succeeds, now or later
Waitable(s, p) == parent[p] = s /\ Exists(p)

Zombies(s) == {p \in Unfinished(s) : Waitable(s, p) /\ proc[p] = "zombie"}

\* waitProcesses() looks at the table in the order of the pids and ends at the
\* first process it cannot wait for.
Completed(s) ==
    {p \in Zombies(s) : \A q \in Unfinished(s) : q < p => Waitable(s, q)}

\* Mutant: the table is not updated
WaitProcessesUnmarked(s) ==
    /\ UNCHANGED processes
    /\ proc' = [p \in Processes |-> IF p \in Completed(s) THEN "gone" ELSE proc[p]]

WaitProcesses(s) ==
    /\ processes' = [processes EXCEPT ![s] =
           [p \in DOMAIN @ |-> IF p \in Completed(s) THEN "Completed" ELSE @[p]]]
    /\ proc' = [p \in Processes |-> IF p \in Completed(s) THEN "gone" ELSE proc[p]]

\* A command is read, which one its execution will tell, and completed
\* processes are cleaned up.
Receive(s) ==
    /\ At(s, "receive")
    /\ \/ level = 1 /\ UNCHANGED clientVars
       \/ /\ level = 2
          /\ owed = None
          /\ queue # <<>>
          /\ owed' = Head(queue)
          /\ queue' = Tail(queue)
          /\ UNCHANGED client
    /\ WaitProcesses(s)
    /\ Goto(s, "command")
    /\ UNCHANGED <<level, parent, spared, target, awaited>>

\* Mutant: no reply is sent
AnswerForgotten(s) ==
    /\ target' = [target EXCEPT ![s] = None]
    /\ owed' = None
    /\ UNCHANGED <<client, queue>>

\* The end of the loop's body sends the reply...
Answer(s) ==
    /\ target' = [target EXCEPT ![s] = None]
    /\ owed' = None
    /\ client' = [c \in Clients |-> IF c = owed THEN "idle" ELSE client[c]]
    /\ UNCHANGED queue

Reply(s) == Goto(s, "receive") /\ Answer(s)

\* ... but not when the body is left with continue.
Continue(s) ==
    /\ Goto(s, "receive")
    /\ UNCHANGED <<target, clientVars>>

\* A REP socket that owes a reply cannot receive: recv() throws, nobody
\* catches.
Throw(s) ==
    /\ At(s, "receive")
    /\ level = 2
    /\ owed # None
    /\ Settle(Ended(s, proc), {})
    /\ UNCHANGED <<level, processes, pc, target, clientVars, awaited>>

\* What a table lists already insert() leaves as it is.
Insert(t, p, state) ==
    [q \in DOMAIN t \cup {p} |-> IF q \in DOMAIN t THEN t[q] ELSE state]

NewPid(p) == proc[p] = "none" /\ \A q \in Pids : q < p => proc[q] # "none"

\* fork(), and the child's execvp() succeeds
Bg(s) ==
    /\ At(s, "command")
    /\ \E p \in Pids :
        /\ NewPid(p)
        /\ proc' = [proc EXCEPT ![p] = "running"]
        /\ parent' = [parent EXCEPT ![p] = s]
        /\ processes' = [processes EXCEPT ![s] = Insert(@, p, "Running")]
    /\ Reply(s)
    /\ UNCHANGED <<level, spared, awaited>>

\* When execvp() fails the child returns to the main loop.  At level 1 it is a
\* second shell at the same terminal; at level 2 its copy of the socket throws.
BgExecFails(s) ==
    /\ At(s, "command")
    /\ \E p \in Pids :
        /\ NewPid(p)
        /\ proc' = [proc EXCEPT ![p] = IF level = 1 THEN "running" ELSE "zombie"]
        /\ parent' = [parent EXCEPT ![p] = s]
        /\ processes' = [processes EXCEPT ![s] = Insert(@, p, "Running"), ![p] = processes[s]]
        /\ pc' = [pc EXCEPT ![s] = "receive", ![p] = IF level = 1 THEN "receive" ELSE @]
    /\ Answer(s)
    /\ UNCHANGED <<level, spared, awaited>>

\* list, help, and a bg whose fork() fails
Other(s) ==
    /\ At(s, "command")
    /\ Reply(s)
    /\ UNCHANGED <<level, kernelVars, processes, awaited>>

\* Mutant: stopped processes are not excepted
FgWaitsUnlessEnded(s, p) ==
    /\ p \in Unfinished(s)
    /\ Waitable(s, p)

FgWaits(s, p) ==
    /\ p \in DOMAIN processes[s]
    /\ processes[s][p] \notin {"Completed", "Stopped", "Terminated"}
    /\ Waitable(s, p)

\* The process is not known, has ended or is stopped, or cannot be waited for.
FgRefused(s, p) ==
    /\ At(s, "command")
    /\ ~FgWaits(s, p)
    /\ Continue(s)
    /\ UNCHANGED <<level, kernelVars, processes, awaited>>

Fg(s, p) ==
    /\ At(s, "command")
    /\ FgWaits(s, p)
    /\ Goto(s, "fg")
    /\ target' = [target EXCEPT ![s] = p]
    /\ UNCHANGED <<level, kernelVars, processes, clientVars, awaited>>

\* waitpid() returns.  The table is left as it is.
FgReturns(s) ==
    LET p == target[s]
    IN
    /\ At(s, "fg")
    /\ proc[p] = "zombie"
    /\ proc' = [proc EXCEPT ![p] = "gone"]
    /\ awaited' = IF s = Root THEN awaited \cup {p} ELSE awaited
    /\ Reply(s)
    /\ UNCHANGED <<level, parent, spared, processes>>

\* Whether sendSignal() succeeds
CanSignal(s, p) == p \in DOMAIN processes[s] /\ Exists(p)

SetState(s, p, state) == processes' = [processes EXCEPT ![s][p] = state]

\* Mutant: no case for SIGSTOP
StateAfterNoStop(sig) == IF sig = "SIGCONT" THEN "Running" ELSE "Terminated"

StateAfter(sig) ==
    CASE sig = "SIGSTOP" -> "Stopped" [] sig = "SIGCONT" -> "Running" [] OTHER -> "Terminated"

\* A shell that is sent SIGINT starts its handler.
Interrupted(s, p, sig) ==
    pc' = [q \in Processes |->
        IF q = p /\ Caught(p, sig) THEN "interrupted"
        ELSE IF q = s THEN "receive"
        ELSE pc[q]]

\* Mutant: the old state is not restored
SignalUnrestored(s, p, sig) ==
    /\ At(s, "command")
    /\ IF p \in DOMAIN processes[s]
       THEN Kill({p}, sig) /\ SetState(s, p, StateAfter(sig))
       ELSE UNCHANGED <<kernelVars, processes>>
    /\ Interrupted(s, p, sig)
    /\ Answer(s)
    /\ UNCHANGED <<level, awaited>>

\* handleSignal() refuses to stop or continue what is stopped or runs already;
\* if the signal cannot be sent it restores the old state.
Signal(s, p, sig) ==
    LET done == \/ sig = "SIGSTOP" /\ processes[s][p] = "stopped"
                \/ sig = "SIGCONT" /\ processes[s][p] = "Running"
    IN
    /\ At(s, "command")
    /\ IF CanSignal(s, p) /\ ~done
       THEN /\ Kill({p}, sig)
            /\ SetState(s, p, StateAfter(sig))
            /\ Interrupted(s, p, sig)
       ELSE UNCHANGED <<kernelVars, processes>> /\ Goto(s, "receive")
    /\ Answer(s)
    /\ UNCHANGED <<level, awaited>>

SignalAndSet(s, p, sig, state) ==
    /\ At(s, "command")
    /\ IF CanSignal(s, p)
       THEN Kill({p}, sig) /\ SetState(s, p, state)
       ELSE UNCHANGED <<kernelVars, processes>>
    /\ Reply(s)
    /\ UNCHANGED <<level, awaited>>

Stop(s, p) == SignalAndSet(s, p, "SIGSTOP", "stopped")
ContinueProcess(s, p) == SignalAndSet(s, p, "SIGCONT", "Running")

\* All unfinished processes are sent SIGTERM, and the shell returns.  The
\* client has left without waiting for a reply.
Quit(s) ==
    /\ At(s, "command")
    /\ \E kept \in SUBSET Spareable(Unfinished(s), "SIGTERM") :
           Settle(Ended(s, Sent(Unfinished(s), "SIGTERM", kept)), kept)
    /\ Goto(s, "quit")
    /\ client' = [c \in Clients |-> IF c = owed THEN "left" ELSE client[c]]
    /\ UNCHANGED <<level, processes, target, queue, owed, awaited>>

\* ^C at the terminal goes to all processes; a shell starts its handler, once
\* it runs.
Interrupt ==
    /\ IsShell(Root)
    /\ Kill(Processes, "SIGINT")
    /\ pc' = [p \in Processes |-> IF IsShell(p) THEN "interrupted" ELSE pc[p]]
    /\ UNCHANGED <<level, processes, target, clientVars, awaited>>

\* The handler waits for one child and exits.
HandlerExits(s) ==
    /\ At(s, "interrupted")
    /\ \/ \E p \in Pids : parent[p] = s /\ proc[p] = "zombie"
       \/ \A p \in Pids : parent[p] # s \/ ~Exists(p)
    /\ Settle(Ended(s, proc), {})
    /\ UNCHANGED <<level, processes, pc, target, clientVars, awaited>>

Execute(s) ==
    \/ Bg(s) \/ BgExecFails(s) \/ Other(s) \/ FgReturns(s) \/ Quit(s)
    \/ \E p \in Pids :
        \/ FgRefused(s, p) \/ Fg(s, p) \/ Stop(s, p) \/ ContinueProcess(s, p)
        \/ \E sig \in Signals : Signal(s, p, sig)

Next ==
    \/ \E s \in Processes : Receive(s) \/ Throw(s) \/ Execute(s) \/ HandlerExits(s)
    \/ \E p \in Pids : ChildEnds(p)
    \/ \E c \in Clients : Send(c)
    \/ Interrupt

\* A shell goes on with what it does, and at level 2 it receives what was
\* sent.  Nobody has to send a command, and no process has to end.
Spec ==
    /\ Init
    /\ [][Next]_vars
    /\ \A s \in Processes :
        /\ WF_vars(Receive(s) /\ level = 2)
        /\ WF_vars(Throw(s) \/ Execute(s) \/ HandlerExits(s))

-----------------------------------------------------------------------------

States == {"Running", "stopped", "Stopped", "Terminated", "Completed"}

Tables == UNION {[listed -> States] : listed \in SUBSET Pids}

\* Type invariant of the kernel, the shells and their clients.
IrishTypeOK ==
    /\ level \in {1, 2}
    /\ proc \in [Processes -> Live \cup {"none", "zombie", "gone"}]
    /\ parent \in [Processes -> Processes \cup {None}]
    /\ spared \subseteq Pids
    /\ processes \in [Processes -> Tables]
    /\ pc \in [Processes -> {"exec", "receive", "command", "fg", "quit", "interrupted"}]
    /\ target \in [Processes -> Pids \cup {None}]
    /\ client \in [Clients -> {"idle", "waiting", "left"}]
    /\ queue \in Seq(Clients)
    /\ owed \in Clients \cup {None}
    /\ awaited \subseteq Pids

\* What is listed as completed stays so: a signal, stop or continue that comes
\* too late must not change the state it could not change (irish.cpp:143-147).
CompletedIsFinal ==
    [][\A s \in Processes : \A p \in DOMAIN processes[s] :
          processes[s][p] = "Completed" => processes'[s][p] = "Completed"]_vars

\* What the user's shell lists as running or stopped is there, running, stopped
\* or not yet waited for, unless fg has waited for it (irish.cpp:299 leaves the
\* table as it is).
ListedProcessesExist ==
    IsShell(Root) => \A p \in Unfinished(Root) : Exists(p) \/ p \in awaited

\* What a shell lists as terminated (irish.cpp:104-121) will not run again, but
\* a program that has caught or ignored a deadly signal, and a second shell
\* that SIGINT has sent into its handler, where it waits for a child.
TerminatedIsOver ==
    \A s \in Processes : \A p \in DOMAIN processes[s] :
        processes[s][p] = "Terminated" /\ IsShell(s) /\ proc[p] \in {"running", "stopped"}
            => p \in spared \/ pc[p] = "interrupted"

\* At level 2 fg waits for a stopped process, which nobody can continue any
\* more, only if it was stopped with the stop command: irish.cpp:286 knows the
\* state that the signal command sets, not the one of irish.cpp:329.
FgHangsOnlyOnStop ==
    \A p \in Pids :
        /\ level = 2
        /\ At(Root, "fg")
        /\ target[Root] = p
        /\ proc[p] \in {"stopped", "doomed"}
        => processes[Root][p] = "stopped"

\* After quit (irish.cpp:369-382) none of the shell's processes is left, but a
\* program that has withstood its signal, and a second shell that is taken for
\* terminated while its handler waits.  The kernel continues stopped ones.
QuitLeavesNothingRunning ==
    pc[Root] = "quit" => \A p \in DOMAIN processes[Root] :
        proc[p] \in Live =>
            \/ p \in spared
            \/ processes[Root][p] = "Terminated" /\ pc[p] = "interrupted"

\* A client gets its answer, unless the server ends, has been interrupted, or
\* waits in fg for ever (irish.cpp:217-366).
ClientsServed ==
    \A c \in Clients :
        client[c] = "waiting" ~>
            \/ client[c] # "waiting"
            \/ ~IsShell(Root)
            \/ pc[Root] = "interrupted"
            \/ [](pc[Root] = "fg")

\* Refuted: a request has been answered when the next is received.
RepliesBeforeReceive == level = 2 /\ At(Root, "receive") => owed = None

=============================================================================
