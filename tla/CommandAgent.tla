---------------------------- MODULE CommandAgent ----------------------------
(***************************************************************************)
(* The command engine of WolfLauncher (OrcLib/CommandAgent.cpp): one agent *)
(* thread that empties a priority mailbox, and one thread-pool callback    *)
(* per terminated process.  Both call ExecuteNextCommand, both touch the   *)
(* command queue, the running list, the completed list and the counting    *)
(* semaphore that bounds how many processes run.                           *)
(*                                                                         *)
(* m_cs protects the two lists and the pops of the queue; every section it *)
(* protects is one action, but for the pop that finds the queue empty and  *)
(* then releases the semaphore before it unlocks (pc = "release").         *)
(* Notifications to WolfTask are outside this module.                      *)
(***************************************************************************)
EXTENDS Integers, Sequences, FiniteSets

CONSTANTS
  Commands,    \* the Execute messages of one WolfExecution
  Agent,       \* the thread that runs CommandAgent::run
  NoCommand,   \* no command popped yet
  Redirected,  \* the commands whose standard outputs go through a pipe
  MaxRunning,  \* max_running_tasks, the capacity of the semaphore
  Armed,       \* the one-shot senders of this instance, see Senders
  Faults,      \* what Windows may refuse in this instance, see FaultKinds
  MaxMail      \* bound: equal messages that may wait in the mailbox

Senders == {"killer", "handler", "cancel", "limit"}
FaultKinds == {"setup", "prepare", "launch", "register", "kill"}

ASSUME CommandsAssumption == IsFiniteSet(Commands)
ASSUME ThreadsAssumption == Agent \notin Commands /\ NoCommand \notin Commands
ASSUME MaxRunningAssumption == MaxRunning \in Nat
ASSUME EnvironmentAssumption ==
  /\ Redirected \subseteq Commands
  /\ Armed \subseteq Senders /\ Faults \subseteq FaultKinds /\ MaxMail \in Nat \ {0}

VARIABLES
  toSubmit,   \* commands EnqueueCommands has not sent yet
  armed,      \* senders that have not fired; "main" until Done was sent
  submitted,  \* Execute messages in the mailbox, in order of arrival
  terminate,  \* commands whose process a pending Terminate message names
  mail,       \* the other pending messages, counted by kind
  pc,         \* what each thread does next
  cmd,        \* the command each thread popped last in ExecuteNextCommand
  stopping,   \* m_bStopping
  count,      \* _semaphore_count of m_MaximumRunningSemaphore
  queue,      \* m_CommandQueue
  nullcmd,    \* queued commands whose shared_ptr is null
  running,    \* the commands of m_RunningCommands
  vacated,    \* the slots of m_RunningCommands that hold nullptr
  completed,  \* m_CompletedCommands
  discarded,  \* commands rejected, drained, not prepared or not launched
  proc,       \* the child process of each command
  wait,       \* the registered wait of each command and the permit it holds
  status,     \* CommandExecute::m_Status
  pipe,       \* the least status of the redirections of each command
  redirect,   \* CommandExecute::m_RedirectStatus, the last one evaluated
  archived    \* how often the on-complete actions were carried out

mailVars == <<submitted, terminate, mail>>
listVars == <<running, vacated, completed>>
cmdVars == <<status, redirect, archived>>
vars == <<toSubmit, armed, mailVars, pc, cmd, stopping, count, queue, nullcmd,
          listVars, discarded, proc, wait, pipe, cmdVars>>

-----------------------------------------------------------------------------
(* CommandExecute::ProcessStatus and ProcessRedirect::RedirectStatus *)
Initialized == 0
Started == 1
Complete == 2
Closed == 3
PipeCreated == 1
PendingIO == 2
PipeComplete == 3
PipeClosed == 4

\* The requests other than Execute and Terminate, by increasing enum value.
Requests == {"RefreshRunningList", "TerminateAll", "CancelAnyPendingAndStop", "Done"}
Rank == [r \in Requests |->
           CASE r = "RefreshRunningList" -> 3 [] r = "TerminateAll" -> 4
             [] r = "CancelAnyPendingAndStop" -> 5 [] r = "Done" -> 6]

Threads == Commands \cup {Agent}
AgentSteps == {"setup", "receive", "kill", "check", "check2", "done"}
CallbackSteps == {"idle", "complete", "move", "end"}
\* The steps of ExecuteNextCommand at which the thread has decremented the semaphore
\* and owes the increment or the hand-over of the permit.
HolderSteps == {"undo", "pop", "release", "launch", "push", "register", "failed"}
Steps == AgentSteps \cup CallbackSteps \cup {"acquire", "dead"} \cup HolderSteps

TypeOK ==
  /\ toSubmit \subseteq Commands
  /\ armed \subseteq Senders \cup {"main"}
  /\ submitted \in Seq(Commands) /\ terminate \subseteq Commands
  /\ mail \in [Requests -> Nat]
  /\ pc \in [Threads -> Steps]
  /\ cmd \in [Threads -> Commands \cup {NoCommand}]
  /\ stopping \in BOOLEAN
  /\ count \in Int
  /\ queue \in Seq(Commands) /\ nullcmd \subseteq Commands
  /\ running \subseteq Commands /\ vacated \subseteq Commands
  /\ completed \subseteq Commands /\ discarded \subseteq Commands
  /\ proc \in [Commands -> {"none", "live", "exited"}]
  /\ wait \in [Commands -> {"none", "registered", "released", "leaked"}]
  /\ status \in [Commands -> Initialized .. Closed]
  /\ pipe \in [Commands -> 0 .. PipeClosed]
  /\ redirect \in [Commands -> 0 .. PipeClosed]
  /\ archived \in [Commands -> Nat]

Init ==
  /\ toSubmit = Commands /\ armed = Armed \cup {"main"}
  /\ submitted = <<>> /\ terminate = {} /\ mail = [r \in Requests |-> 0]
  /\ pc = [t \in Threads |-> IF t = Agent THEN "setup" ELSE "idle"]
  /\ cmd = [t \in Threads |-> NoCommand]
  /\ stopping = FALSE /\ count = MaxRunning
  /\ queue = <<>> /\ nullcmd = {} /\ running = {} /\ vacated = {}
  /\ completed = {} /\ discarded = {}
  /\ proc = [c \in Commands |-> "none"] /\ wait = [c \in Commands |-> "none"]
  /\ status = [c \in Commands |-> Initialized]
  \* A command without redirection counts as closed.
  /\ pipe = [c \in Commands |-> IF c \in Redirected THEN PipeCreated ELSE PipeClosed]
  /\ redirect = [c \in Commands |-> 0]
  /\ archived = [c \in Commands |-> 0]

-----------------------------------------------------------------------------
(* The environment: WolfExecution, its timers, WolfTask and the processes. *)

Post(r) == mail[r] < MaxMail /\ mail' = [mail EXCEPT ![r] = @ + 1]

\* EnqueueCommands sends one Execute message.
SendExecute(c) ==
  /\ c \in toSubmit
  /\ toSubmit' = toSubmit \ {c} /\ submitted' = Append(submitted, c)
  /\ UNCHANGED <<armed, terminate, mail, pc, cmd, stopping, count, queue, nullcmd,
                 listVars, discarded, proc, wait, pipe, cmdVars>>

\* CompleteExecution sends Done after every Execute message.
SendDone ==
  /\ toSubmit = {} /\ "main" \in armed
  /\ armed' = armed \ {"main"} /\ Post("Done")
  /\ UNCHANGED <<toSubmit, submitted, terminate, pc, cmd, stopping, count, queue,
                 nullcmd, listVars, discarded, proc, wait, pipe, cmdVars>>

\* m_RefreshTimer, a repeating timer.
RefreshTimer ==
  /\ Post("RefreshRunningList")
  /\ UNCHANGED <<toSubmit, armed, submitted, terminate, pc, cmd, stopping, count,
                 queue, nullcmd, listVars, discarded, proc, wait, pipe, cmdVars>>

\* The one-shot senders: m_KillerTimer, CommandTerminationHandler (which sends
\* TerminateAll, then Done) and a caller of MakeCancelAnyPendingAndStopMessage.
OneShot(s) ==
  /\ s \in armed /\ armed' = armed \ {s}
  /\ \/ s = "killer" /\ Post("TerminateAll")
     \/ s = "cancel" /\ Post("CancelAnyPendingAndStop")
     \/ /\ s = "handler" /\ mail["TerminateAll"] < MaxMail /\ mail["Done"] < MaxMail
        /\ mail' = [mail EXCEPT !["TerminateAll"] = @ + 1, !["Done"] = @ + 1]
  /\ UNCHANGED <<toSubmit, submitted, terminate, pc, cmd, stopping, count, queue,
                 nullcmd, listVars, discarded, proc, wait, pipe, cmdVars>>

\* WolfTask asks for the termination of a process that hit a limit.
LimitReached(c) ==
  /\ "limit" \in armed /\ proc[c] # "none"
  /\ armed' = armed \ {"limit"} /\ terminate' = terminate \cup {c}
  /\ UNCHANGED <<toSubmit, submitted, mail, pc, cmd, stopping, count, queue, nullcmd,
                 listVars, discarded, proc, wait, pipe, cmdVars>>

ProcessExits(c) ==
  /\ proc[c] = "live"
  /\ proc' = [proc EXCEPT ![c] = "exited"]
  /\ UNCHANGED <<toSubmit, armed, mailVars, pc, cmd, stopping, count, queue, nullcmd,
                 listVars, discarded, wait, pipe, cmdVars>>

\* Mutant: a completion that arrives after Close still moves the status.
PipeIOAfterClose(c) ==
  /\ proc[c] # "none" /\ pipe[c] >= PendingIO
  /\ pipe' = [pipe EXCEPT ![c] = @ + 1]
  /\ UNCHANGED <<toSubmit, armed, mailVars, pc, cmd, stopping, count, queue, nullcmd,
                 listVars, discarded, proc, wait, cmdVars>>

\* FileIOCompletionRoutine: the read ends on a broken pipe, SetStatus(Complete),
\* then Close.
PipeIO(c) ==
  /\ proc[c] # "none" /\ pipe[c] \in {PendingIO, PipeComplete}
  /\ pipe' = [pipe EXCEPT ![c] = @ + 1]
  /\ UNCHANGED <<toSubmit, armed, mailVars, pc, cmd, stopping, count, queue, nullcmd,
                 listVars, discarded, proc, wait, cmdVars>>

-----------------------------------------------------------------------------
(* ExecuteNextCommand, called by thread t. *)

Goto(t, step) == pc' = [pc EXCEPT ![t] = step]
Caller(t) == IF t = Agent THEN "check" ELSE "end"
Return(t) == Goto(t, Caller(t))

\* m_cs is free: no thread is between its empty pop and the unlock.
LockFree == \A t \in Threads : pc[t] # "release"

\* An access violation ends the program, and with it every thread.
Dead == [t \in Threads |-> "dead"]
Crashed == pc[Agent] = "dead"

\* Semaphore::Release, then step next.  No context ever waits in Acquire here, so an
\* increment that does not lift the count above zero pops nothing and unblocks a null
\* context.
Release(t, next) ==
  /\ count' = count + 1
  /\ pc' = IF count + 1 <= 0 THEN Dead ELSE [pc EXCEPT ![t] = next]

SetStatus(c, s) == status' = [status EXCEPT ![c] = IF @ >= s THEN @ ELSE s]

\* Mutant: an off-by-one in the test of the counter.
TryAcquireOneMore(t) ==
  /\ pc[t] = "acquire"
  /\ count' = count - 1
  /\ Goto(t, IF count < 0 THEN "undo" ELSE "pop")
  /\ UNCHANGED <<toSubmit, armed, mailVars, cmd, stopping, queue, nullcmd, listVars,
                 discarded, proc, wait, pipe, cmdVars>>

\* TryAcquire, first half: InterlockedDecrement.
TryAcquire(t) ==
  /\ pc[t] = "acquire"
  /\ count' = count - 1
  /\ Goto(t, IF count - 1 < 0 THEN "undo" ELSE "pop")
  /\ UNCHANGED <<toSubmit, armed, mailVars, cmd, stopping, queue, nullcmd, listVars,
                 discarded, proc, wait, pipe, cmdVars>>

\* TryAcquire, second half when it would block: InterlockedIncrement.
UndoAcquire(t) ==
  /\ pc[t] = "undo"
  /\ count' = count + 1
  /\ Return(t)
  /\ UNCHANGED <<toSubmit, armed, mailVars, cmd, stopping, queue, nullcmd, listVars,
                 discarded, proc, wait, pipe, cmdVars>>

PopCommand(t) ==
  /\ pc[t] = "pop" /\ LockFree
  /\ IF queue = <<>>
     THEN Goto(t, "release") /\ UNCHANGED <<cmd, queue>>
     ELSE /\ cmd' = [cmd EXCEPT ![t] = Head(queue)] /\ queue' = Tail(queue)
          /\ Goto(t, "launch")
  /\ UNCHANGED <<toSubmit, armed, mailVars, stopping, count, nullcmd, listVars,
                 discarded, proc, wait, pipe, cmdVars>>

\* Mutant: the permit is kept when nothing is queued.
NothingQueuedKeepsPermit(t) ==
  /\ pc[t] = "release" /\ Return(t)
  /\ UNCHANGED <<toSubmit, armed, mailVars, cmd, stopping, count, queue, nullcmd,
                 listVars, discarded, proc, wait, pipe, cmdVars>>

NothingQueued(t) ==
  /\ pc[t] = "release"
  /\ Release(t, Caller(t))
  /\ UNCHANGED <<toSubmit, armed, mailVars, cmd, stopping, queue, nullcmd, listVars,
                 discarded, proc, wait, pipe, cmdVars>>

\* A null command is not executed, and nobody gives its permit back.
SkipNull(t) ==
  /\ pc[t] = "launch" /\ cmd[t] \in nullcmd
  /\ wait' = [wait EXCEPT ![cmd[t]] = "leaked"]
  /\ discarded' = discarded \cup {cmd[t]}
  /\ Return(t)
  /\ UNCHANGED <<toSubmit, armed, mailVars, cmd, stopping, count, queue, nullcmd,
                 listVars, proc, pipe, cmdVars>>

\* ProcessRedirect::ChildConnected starts the reads of a redirected command: they are
\* pending, have already ended, or could not be started.  Execute then evaluates them.
ChildConnected(c) ==
  \E p \in IF c \in Redirected THEN PipeCreated .. PipeClosed ELSE {PipeClosed} :
    /\ pipe' = [pipe EXCEPT ![c] = p]
    /\ redirect' = [redirect EXCEPT ![c] = p]

\* CommandExecute::Execute succeeds.
Launch(t) ==
  /\ pc[t] = "launch" /\ cmd[t] \in Commands \ nullcmd
  /\ LET c == cmd[t] IN
     /\ proc' = [proc EXCEPT ![c] = "live"]
     /\ ChildConnected(c) /\ SetStatus(c, Started)
  /\ Goto(t, "push")
  /\ UNCHANGED <<toSubmit, armed, mailVars, cmd, stopping, count, queue, nullcmd,
                 listVars, discarded, wait, archived>>

LaunchFails(t) ==
  /\ pc[t] = "launch" /\ cmd[t] \in Commands \ nullcmd /\ "launch" \in Faults
  /\ discarded' = discarded \cup {cmd[t]}
  /\ Goto(t, "failed")
  /\ UNCHANGED <<toSubmit, armed, mailVars, cmd, stopping, count, queue, nullcmd,
                 listVars, proc, wait, pipe, cmdVars>>

\* CompleteExecution() returns at once: the status is not Complete.
ReleaseFailed(t) ==
  /\ pc[t] = "failed"
  /\ Release(t, Caller(t))
  /\ UNCHANGED <<toSubmit, armed, mailVars, cmd, stopping, queue, nullcmd, listVars,
                 discarded, proc, wait, pipe, cmdVars>>

PushRunning(t) ==
  /\ pc[t] = "push" /\ LockFree
  /\ running' = running \cup {cmd[t]}
  /\ Goto(t, "register")
  /\ UNCHANGED <<toSubmit, armed, mailVars, cmd, stopping, count, queue, nullcmd,
                 vacated, completed, discarded, proc, wait, pipe, cmdVars>>

\* RegisterWaitForSingleObject: the permit goes to the callback, or to nobody when
\* the call fails.
RegisterWait(t) ==
  /\ pc[t] = "register"
  /\ \E w \in {"registered"} \cup (IF "register" \in Faults THEN {"leaked"} ELSE {}) :
       wait' = [wait EXCEPT ![cmd[t]] = w]
  /\ Return(t)
  /\ UNCHANGED <<toSubmit, armed, mailVars, cmd, stopping, count, queue, nullcmd,
                 listVars, discarded, proc, pipe, cmdVars>>

ExecuteNextCommand(t) ==
  \/ TryAcquire(t) \/ UndoAcquire(t) \/ PopCommand(t) \/ NothingQueued(t)
  \/ SkipNull(t) \/ Launch(t) \/ LaunchFails(t) \/ ReleaseFailed(t)
  \/ PushRunning(t) \/ RegisterWait(t)

-----------------------------------------------------------------------------
(* WaitOrTimerCallbackFunction for the process of command c, on thread c. *)

CallbackRelease(c) ==
  /\ pc[c] = "idle" /\ wait[c] = "registered" /\ proc[c] = "exited"
  /\ Release(c, "complete")
  /\ wait' = [wait EXCEPT ![c] = "released"]
  /\ UNCHANGED <<toSubmit, armed, mailVars, cmd, stopping, queue, nullcmd, listVars,
                 discarded, proc, pipe, cmdVars>>

CallbackComplete(c) ==
  /\ pc[c] = "complete"
  /\ SetStatus(c, Complete)
  /\ Goto(c, "move")
  /\ UNCHANGED <<toSubmit, armed, mailVars, cmd, stopping, count, queue, nullcmd,
                 listVars, discarded, proc, wait, pipe, redirect, archived>>

\* Mutant: the command is taken out of the running list and put nowhere.
MoveCompletedNowhere(c) ==
  /\ pc[c] = "move" /\ LockFree
  /\ running' = running \ {c}
  /\ vacated' = vacated \cup (running \cap {c})
  /\ Goto(c, "acquire")
  /\ UNCHANGED <<toSubmit, armed, mailVars, cmd, stopping, count, queue, nullcmd,
                 completed, discarded, proc, wait, pipe, cmdVars>>

MoveCompletedCommand(c) ==
  /\ pc[c] = "move" /\ LockFree
  /\ completed' = completed \cup {c}
  /\ running' = running \ {c}
  /\ vacated' = vacated \cup (running \cap {c})
  /\ Goto(c, "acquire")
  /\ UNCHANGED <<toSubmit, armed, mailVars, cmd, stopping, count, queue, nullcmd,
                 discarded, proc, wait, pipe, cmdVars>>

-----------------------------------------------------------------------------
(* CommandAgent::run *)

\* The first request is received before the job object is set up; when that fails
\* the agent is done with whatever the mailbox holds.
AgentSetup ==
  /\ pc[Agent] = "setup"
  /\ submitted # <<>> \/ terminate # {} \/ \E r \in Requests : mail[r] > 0
  /\ \/ Goto(Agent, "receive")
     \/ "setup" \in Faults /\ Goto(Agent, "done")
  /\ UNCHANGED <<toSubmit, armed, mailVars, cmd, stopping, count, queue, nullcmd,
                 listVars, discarded, proc, wait, pipe, cmdVars>>

\* PrepareCommandExecute returns null when a resource or an argument cannot be prepared.
PrepareCommandExecute(c) ==
  \/ UNCHANGED nullcmd
  \/ "prepare" \in Faults /\ nullcmd' = nullcmd \cup {c}

\* Execute has the least enum value: it is received before anything else.
AgentExecute ==
  /\ pc[Agent] = "receive" /\ submitted # <<>>
  /\ LET c == Head(submitted) IN
     \/ /\ stopping /\ discarded' = discarded \cup {c} /\ UNCHANGED <<queue, nullcmd>>
     \/ /\ ~stopping /\ PrepareCommandExecute(c) /\ queue' = Append(queue, c)
        /\ UNCHANGED discarded
  /\ submitted' = Tail(submitted)
  /\ Goto(Agent, "acquire")
  /\ UNCHANGED <<toSubmit, armed, terminate, mail, cmd, stopping, count, listVars,
                 proc, wait, pipe, cmdVars>>

AgentTerminate(c) ==
  /\ pc[Agent] = "receive" /\ submitted = <<>> /\ c \in terminate
  /\ terminate' = terminate \ {c}
  /\ \/ proc' = [proc EXCEPT ![c] = IF @ = "live" THEN "exited" ELSE @]
     \/ "kill" \in Faults /\ UNCHANGED proc
  /\ Goto(Agent, "acquire")
  /\ UNCHANGED <<toSubmit, armed, submitted, mail, cmd, stopping, count, queue,
                 nullcmd, listVars, discarded, wait, pipe, cmdVars>>

\* The agent receives r: nothing that precedes r is waiting.
Receive(r) ==
  /\ pc[Agent] = "receive" /\ submitted = <<>> /\ terminate = {}
  /\ mail[r] > 0 /\ \A q \in Requests : Rank[q] < Rank[r] => mail[q] = 0
  /\ mail' = [mail EXCEPT ![r] = @ - 1]

\* Mutants: a closed command still counts as completed; pending reads do not matter.
HasCompletedAgain(c) ==
  /\ status[c] >= Complete
  /\ redirect[c] >= PipeComplete \/ pipe[c] > PipeComplete
HasCompletedEarly(c) == status[c] = Complete

\* CommandExecute::HasCompleted; the process handle is invalid once Closed.
HasCompleted(c) ==
  /\ status[c] = Complete
  /\ redirect[c] >= PipeComplete \/ pipe[c] > PipeComplete

\* EvaluateRedirectionsStatus, which HasCompleted calls for a completed command that it
\* does not find ready; CompleteExecution closes the redirections of the others.
RedirectStatus(looked, ready) ==
  [c \in Commands |->
     IF c \in ready THEN PipeClosed
     ELSE IF c \in looked /\ status[c] = Complete THEN pipe[c] ELSE redirect[c]]

\* CommandExecute::CompleteExecution of the commands that are ready.
CompleteExecution(ready) ==
  /\ status' = [c \in Commands |-> IF c \in ready THEN Closed ELSE status[c]]
  /\ pipe' = [c \in Commands |-> IF c \in ready THEN PipeClosed ELSE pipe[c]]
  /\ archived' = [c \in Commands |-> IF c \in ready THEN archived[c] + 1 ELSE archived[c]]

\* Mutant: the null slots are not erased.
AgentRefreshKeepsNulls ==
  /\ Receive("RefreshRunningList") /\ LockFree
  /\ LET looked == running \cup completed  ready == {c \in looked : HasCompleted(c)} IN
     /\ CompleteExecution(ready) /\ redirect' = RedirectStatus(looked, ready)
     /\ running' = running \ ready /\ UNCHANGED vacated
  /\ Goto(Agent, "acquire")
  /\ UNCHANGED <<toSubmit, armed, submitted, terminate, cmd, stopping, count, queue,
                 nullcmd, completed, discarded, proc, wait>>

\* RefreshRunningList: drops the null slots and completes what it finds ready in either
\* list; what was ready also leaves the running list.
AgentRefresh ==
  /\ Receive("RefreshRunningList") /\ LockFree
  /\ LET looked == running \cup completed  ready == {c \in looked : HasCompleted(c)} IN
     /\ CompleteExecution(ready) /\ redirect' = RedirectStatus(looked, ready)
     /\ running' = running \ ready /\ vacated' = {}
  /\ Goto(Agent, "acquire")
  /\ UNCHANGED <<toSubmit, armed, submitted, terminate, cmd, stopping, count, queue,
                 nullcmd, completed, discarded, proc, wait>>

\* Empty the queue under m_cs.
Drain ==
  /\ discarded' = discarded \cup {queue[i] : i \in 1 .. Len(queue)}
  /\ queue' = <<>>

AgentTerminateAll ==
  /\ Receive("TerminateAll") /\ LockFree
  /\ stopping' = TRUE /\ Drain
  /\ Goto(Agent, "kill")
  /\ UNCHANGED <<toSubmit, armed, submitted, terminate, cmd, count, nullcmd, listVars,
                 proc, wait, pipe, cmdVars>>

\* TerminateJobObject kills the processes of the job at that moment.
AgentKill ==
  /\ pc[Agent] = "kill"
  /\ \/ proc' = [c \in Commands |-> IF proc[c] = "live" THEN "exited" ELSE proc[c]]
     \/ "kill" \in Faults /\ UNCHANGED proc
  /\ Goto(Agent, "acquire")
  /\ UNCHANGED <<toSubmit, armed, mailVars, cmd, stopping, count, queue, nullcmd,
                 listVars, discarded, wait, pipe, cmdVars>>

\* The keyword of every cancelled command is logged, through a null pointer when the
\* command could not be prepared.
AgentCancel ==
  /\ Receive("CancelAnyPendingAndStop") /\ LockFree
  /\ stopping' = TRUE /\ Drain
  /\ IF \E i \in 1 .. Len(queue) : queue[i] \in nullcmd
     THEN pc' = Dead ELSE Goto(Agent, "acquire")
  /\ UNCHANGED <<toSubmit, armed, submitted, terminate, cmd, count, nullcmd, listVars,
                 proc, wait, pipe, cmdVars>>

AgentDone ==
  /\ Receive("Done")
  /\ stopping' = TRUE
  /\ Goto(Agent, "acquire")
  /\ UNCHANGED <<toSubmit, armed, submitted, terminate, cmd, count, queue, nullcmd,
                 listVars, discarded, proc, wait, pipe, cmdVars>>

\* Mutant: the exit test does not look at the running list.
AgentCheckNothing ==
  /\ pc[Agent] = "check"
  /\ Goto(Agent, IF stopping THEN "check2" ELSE "receive")
  /\ UNCHANGED <<toSubmit, armed, mailVars, cmd, stopping, count, queue, nullcmd,
                 listVars, discarded, proc, wait, pipe, cmdVars>>

\* The exit test reads m_RunningCommands.size(), then m_CommandQueue.empty(), without
\* m_cs.
AgentCheckRunning ==
  /\ pc[Agent] = "check"
  /\ Goto(Agent, IF stopping /\ running = {} /\ vacated = {} THEN "check2" ELSE "receive")
  /\ UNCHANGED <<toSubmit, armed, mailVars, cmd, stopping, count, queue, nullcmd,
                 listVars, discarded, proc, wait, pipe, cmdVars>>

AgentCheckQueue ==
  /\ pc[Agent] = "check2"
  /\ Goto(Agent, IF queue = <<>> THEN "done" ELSE "receive")
  /\ UNCHANGED <<toSubmit, armed, mailVars, cmd, stopping, count, queue, nullcmd,
                 listVars, discarded, proc, wait, pipe, cmdVars>>

-----------------------------------------------------------------------------
Environment ==
  \/ SendDone \/ RefreshTimer
  \/ \E s \in Senders : OneShot(s)
  \/ \E c \in Commands : SendExecute(c) \/ LimitReached(c) \/ ProcessExits(c) \/ PipeIO(c)

AgentStep ==
  \/ AgentSetup \/ AgentExecute \/ AgentRefresh \/ AgentTerminateAll \/ AgentKill
  \/ AgentCancel \/ AgentDone \/ AgentCheckRunning \/ AgentCheckQueue
  \/ \E c \in Commands : AgentTerminate(c)
  \/ ExecuteNextCommand(Agent)

CallbackStep(c) ==
  CallbackRelease(c) \/ CallbackComplete(c) \/ MoveCompletedCommand(c) \/ ExecuteNextCommand(c)

\* The program may stop: the agent is done and every callback has returned, or an
\* access violation ended it.
Finished ==
  /\ Crashed \/ pc[Agent] = "done"
  /\ UNCHANGED vars

Next ==
  \/ Environment \/ AgentStep
  \/ \E c \in Commands : CallbackStep(c)
  \/ Finished

Spec == Init /\ [][Next]_vars

-----------------------------------------------------------------------------
(* Fairness. Every thread is scheduled and m_cs, a ConcRT critical section, is a fair
   lock, hence strong fairness for the steps that wait for it or for the mailbox.  The
   child processes end by themselves.  Pipes, Windows' refusals and the one-shot senders
   are not fair. *)
Fairness ==
  /\ WF_vars((\E c \in Commands : SendExecute(c)))
  /\ WF_vars(SendDone) /\ WF_vars(RefreshTimer)
  /\ \A c \in Commands : WF_vars(ProcessExits(c))
  /\ \A c \in Commands : SF_vars(CallbackStep(c))
  /\ SF_vars(ExecuteNextCommand(Agent))
  /\ WF_vars((AgentSetup \/ AgentExecute \/ AgentKill \/ AgentCheckRunning
                            \/ AgentCheckQueue \/ \E c \in Commands : AgentTerminate(c)))
  /\ SF_vars(AgentRefresh) /\ SF_vars(AgentTerminateAll)
  /\ SF_vars(AgentCancel) /\ SF_vars(AgentDone)

FairSpec == Spec /\ Fairness

-----------------------------------------------------------------------------
HolderThreads == {t \in Threads : pc[t] \in HolderSteps}
HolderCommands == {c \in Commands : wait[c] \in {"registered", "leaked"}}
Live == {c \in Commands : proc[c] = "live"}

\* No permit of m_MaximumRunningSemaphore is lost or returned twice: what the counter
\* misses is held by a thread inside ExecuteNextCommand, by a registered wait, or by a
\* command whose permit the code abandons (a null command, a failed registration).
PermitsAccounted ==
  ~Crashed => count + Cardinality(HolderThreads) + Cardinality(HolderCommands) = MaxRunning

\* Never more than max_running_tasks children run, whoever launches them: the agent or a
\* callback that released its own permit before it moved its command.
JobLimit == Cardinality(Live) <= MaxRunning

\* CompleteExecution "must be executed only once": the output of a command is archived at
\* most once although a refresh may find it in both lists, one after the other.
ArchivedOnce == \A c \in Commands : archived[c] <= 1

\* What is archived is the whole output: the process has exited and no read of its
\* redirections is pending when CompleteExecution closes them.
ArchivedWhole ==
  [][\A c \in Commands :
       archived'[c] > archived[c] => proc[c] = "exited" /\ pipe[c] >= PipeComplete]_vars

\* A command sent to the agent is always somewhere: still to be received, queued, in the
\* hands of a thread, in one of the two lists, archived, or deliberately given up.
NoCommandForgotten ==
  \A c \in Commands :
    \/ c \in toSubmit \cup running \cup completed \cup discarded \/ archived[c] > 0
    \/ \E i \in 1 .. Len(submitted) : submitted[i] = c
    \/ \E i \in 1 .. Len(queue) : queue[i] = c
    \/ \E t \in Threads : cmd[t] = c /\ pc[t] \in {"launch", "push", "dead"}

\* When the agent is done, a child that still runs was launched by a callback: the exit
\* test does not see a command that a callback has popped and not yet pushed.
DoneLeavesOnlyCallbackLaunches ==
  pc[Agent] = "done" => \A c \in Live : \E t \in Commands : cmd[t] = c

\* The refresh messages do not keep the mailbox busy for ever (the period of the timer is
\* longer than one turn of the loop): Done ranks last and would starve.
TimerSlow == []<>(pc[Agent] \in {"receive", "done"} /\ mail["RefreshRunningList"] = 0)

\* The commands whose permit the code abandons, for good: nobody gives back the permit
\* of a null command or of a process whose wait could not be registered.
Leaked == {c \in Commands : wait[c] = "leaked"}

\* No command is launched any more.
NoPermitLeft == Cardinality(Leaked) >= MaxRunning

\* The processes nobody waits for: they stay in the running list for ever.
Unwatched == running \cap Leaked

\* Once Done is sent the agent ends, unless a null pointer ended the program first.  It
\* does not end when a registration has failed, for its process never leaves the running
\* list, nor when commands are queued and every permit has leaked.
AgentEnds ==
  TimerSlow =>
    \/ <>(pc[Agent] = "done" \/ Crashed)
    \/ <>[](Unwatched # {} \/ (NoPermitLeft /\ queue # <<>>))

\* A queued command leaves the queue even if the thread that should have launched it lost
\* the race for the last permit: the next message makes the agent try again.  It stays
\* there when every permit has leaked.
QueueServed ==
  \A c \in Commands :
    (\E i \in 1 .. Len(queue) : queue[i] = c)
      ~> (Crashed \/ NoPermitLeft \/ \A i \in 1 .. Len(queue) : queue[i] # c)
=============================================================================
