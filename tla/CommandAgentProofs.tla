------------------------- MODULE CommandAgentProofs -------------------------
(***************************************************************************)
(* Theorems about CommandAgent, for every set of commands, every number of *)
(* permits and every choice of senders and faults.                         *)
(***************************************************************************)
EXTENDS CommandAgent, FiniteSetTheorems, TLAPS

-----------------------------------------------------------------------------
(* Type correctness.  TypeOK alone is not inductive: PushRunning and RegisterWait use
   cmd[t], which must be a command by then. *)
Popped == \A t \in Threads : pc[t] \in {"push", "register"} => cmd[t] \in Commands

TypeInv == TypeOK /\ Popped

\* Initially every variable has its type and no thread has popped a command.
LEMMA InitTypeInv == Init => TypeInv
<1> SUFFICES ASSUME Init PROVE TypeInv
  OBVIOUS
<1> USE EnvironmentAssumption, MaxRunningAssumption
<1>1. TypeOK
  <2>1. pc \in [Threads -> Steps] /\ cmd \in [Threads -> Commands \cup {NoCommand}]
    BY DEF Init, Steps, AgentSteps, CallbackSteps
  <2>2. /\ status \in [Commands -> Initialized .. Closed]
        /\ pipe \in [Commands -> 0 .. PipeClosed] /\ redirect \in [Commands -> 0 .. PipeClosed]
    BY DEF Init, Initialized, Closed, PipeCreated, PipeClosed
  <2>3. submitted \in Seq(Commands) /\ queue \in Seq(Commands)
    BY DEF Init
  <2>4. mail \in [Requests -> Nat] /\ archived \in [Commands -> Nat]
    BY DEF Init
  <2>5. /\ proc \in [Commands -> {"none", "live", "exited"}]
        /\ wait \in [Commands -> {"none", "registered", "released", "leaked"}]
    BY DEF Init
  <2>6. armed \subseteq Senders \cup {"main"}
    BY DEF Init
  <2>7. count \in Int
    BY DEF Init
  <2> QED
    BY <2>1, <2>2, <2>3, <2>4, <2>5, <2>6, <2>7 DEF Init, TypeOK
<1>2. Popped
  BY DEF Init, Popped
<1> QED
  BY <1>1, <1>2 DEF TypeInv

\* The steps of the environment keep the types.
LEMMA EnvironmentType == TypeInv /\ Environment => TypeInv'
<1> SUFFICES ASSUME TypeInv, Environment PROVE TypeInv'
  OBVIOUS
<1> USE DEF TypeInv, TypeOK, Popped, mailVars, listVars, cmdVars
<1>1. CASE SendDone
  <2>1. mail' \in [Requests -> Nat]
    BY <1>1 DEF SendDone, Post, Requests
  <2>2. armed' \subseteq Senders \cup {"main"}
    BY <1>1 DEF SendDone
  <2> QED
    BY <1>1, <2>1, <2>2 DEF SendDone
<1>2. CASE RefreshTimer
  BY <1>2 DEF RefreshTimer, Post, Requests
<1>3. ASSUME NEW s \in Senders, OneShot(s) PROVE TypeInv'
  BY <1>3, SMTT(60) DEF OneShot, Post, Requests
<1>4. ASSUME NEW c \in Commands, SendExecute(c) PROVE TypeInv'
  BY <1>4 DEF SendExecute
<1>5. ASSUME NEW c \in Commands, LimitReached(c) PROVE TypeInv'
  BY <1>5 DEF LimitReached
<1>6. ASSUME NEW c \in Commands, ProcessExits(c) PROVE TypeInv'
  BY <1>6 DEF ProcessExits
<1>7. ASSUME NEW c \in Commands, PipeIO(c) PROVE TypeInv'
  BY <1>7 DEF PipeIO, PendingIO, PipeComplete, PipeClosed
<1> QED
  BY <1>1, <1>2, <1>3, <1>4, <1>5, <1>6, <1>7 DEF Environment

\* Whoever runs ExecuteNextCommand keeps the types.
LEMMA ExecuteNextCommandType ==
  ASSUME TypeInv, NEW t \in Threads, ExecuteNextCommand(t)
  PROVE  TypeInv'
<1> USE DEF TypeInv, TypeOK, Popped, mailVars, listVars, cmdVars
<1>1. Caller(t) \in Steps \ {"push", "register"} /\ HolderSteps \subseteq Steps
  BY DEF Caller, Steps, AgentSteps, CallbackSteps
<1>2. \A next \in Steps \ {"push", "register"} :
         Release(t, next) => count' \in Int /\ pc' \in [Threads -> Steps]
                             /\ \A u \in Threads : pc'[u] \in {"push", "register"} => pc'[u] = pc[u]
  BY DEF Release, Dead, Steps
<1>3. CASE TryAcquire(t)
  BY <1>1, <1>3 DEF TryAcquire, Goto, HolderSteps
<1>4. CASE UndoAcquire(t)
  BY <1>1, <1>4 DEF UndoAcquire, Return, Goto
<1>5. CASE PopCommand(t)
  <2>1. CASE queue = <<>>
    BY <1>1, <1>5, <2>1 DEF PopCommand, Goto, HolderSteps
  <2>2. CASE queue # <<>>
    <3>1. Head(queue) \in Commands /\ Tail(queue) \in Seq(Commands)
      BY <2>2
    <3>2. cmd' \in [Threads -> Commands \cup {NoCommand}] /\ queue' \in Seq(Commands)
      BY <1>5, <2>2, <3>1 DEF PopCommand
    <3>3. pc' \in [Threads -> Steps] /\ Popped'
      BY <1>1, <1>5, <2>2, <3>1 DEF PopCommand, Goto, HolderSteps
    <3> QED
      BY <1>5, <3>2, <3>3 DEF PopCommand
  <2> QED
    BY <2>1, <2>2
<1>6. CASE NothingQueued(t)
  BY <1>1, <1>2, <1>6 DEF NothingQueued
<1>7. CASE SkipNull(t)
  <2>1. wait' \in [Commands -> {"none", "registered", "released", "leaked"}]
    BY <1>7 DEF SkipNull
  <2> QED
    BY <1>1, <1>7, <2>1 DEF SkipNull, Return, Goto
<1>8. CASE Launch(t)
  <2>1. status' \in [Commands -> Initialized .. Closed]
    BY <1>8 DEF Launch, SetStatus, Initialized, Started, Closed
  <2>2. pipe' \in [Commands -> 0 .. PipeClosed] /\ redirect' \in [Commands -> 0 .. PipeClosed]
    BY <1>8 DEF Launch, ChildConnected, PipeCreated, PipeClosed
  <2>3. proc' \in [Commands -> {"none", "live", "exited"}]
    BY <1>8 DEF Launch
  <2>4. pc' \in [Threads -> Steps] /\ Popped'
    BY <1>1, <1>8 DEF Launch, Goto, HolderSteps
  <2> QED
    BY <1>8, <2>1, <2>2, <2>3, <2>4 DEF Launch
<1>9. CASE LaunchFails(t)
  BY <1>1, <1>9 DEF LaunchFails, Goto, HolderSteps
<1>10. CASE ReleaseFailed(t)
  BY <1>1, <1>2, <1>10 DEF ReleaseFailed
<1>11. CASE PushRunning(t)
  BY <1>1, <1>11 DEF PushRunning, Goto, HolderSteps
<1>12. CASE RegisterWait(t)
  <2>1. wait' \in [Commands -> {"none", "registered", "released", "leaked"}]
    BY <1>12 DEF RegisterWait
  <2> QED
    BY <1>1, <1>12, <2>1 DEF RegisterWait, Return, Goto
<1> QED
  BY <1>3, <1>4, <1>5, <1>6, <1>7, <1>8, <1>9, <1>10, <1>11, <1>12 DEF ExecuteNextCommand

\* The steps of WaitOrTimerCallbackFunction before it calls ExecuteNextCommand.
LEMMA CallbackType ==
  ASSUME TypeInv, NEW c \in Commands,
         CallbackRelease(c) \/ CallbackComplete(c) \/ MoveCompletedCommand(c)
  PROVE  TypeInv'
<1> USE DEF TypeInv, TypeOK, Popped, mailVars, listVars, cmdVars
<1>1. c \in Threads /\ {"complete", "move", "acquire", "dead"} \subseteq Steps
  BY DEF Threads, Steps, CallbackSteps
<1>2. CASE CallbackRelease(c)
  <2>1. wait' \in [Commands -> {"none", "registered", "released", "leaked"}] /\ count' \in Int
    BY <1>2 DEF CallbackRelease, Release
  <2>2. pc' \in [Threads -> Steps] /\ Popped'
    BY <1>1, <1>2 DEF CallbackRelease, Release, Dead
  <2> QED
    BY <1>2, <2>1, <2>2 DEF CallbackRelease
<1>3. CASE CallbackComplete(c)
  <2>1. status' \in [Commands -> Initialized .. Closed]
    BY <1>3 DEF CallbackComplete, SetStatus, Initialized, Complete, Closed
  <2>2. pc' \in [Threads -> Steps] /\ Popped'
    BY <1>1, <1>3 DEF CallbackComplete, Goto
  <2> QED
    BY <1>3, <2>1, <2>2 DEF CallbackComplete
<1>4. CASE MoveCompletedCommand(c)
  BY <1>1, <1>4 DEF MoveCompletedCommand, Goto
<1> QED
  BY <1>2, <1>3, <1>4

\* The steps of the loop of CommandAgent::run, but for its call of ExecuteNextCommand.
AgentLoop ==
  \/ AgentSetup \/ AgentExecute \/ AgentRefresh \/ AgentTerminateAll \/ AgentKill
  \/ AgentCancel \/ AgentDone \/ AgentCheckRunning \/ AgentCheckQueue
  \/ \E c \in Commands : AgentTerminate(c)

\* They keep the types.
LEMMA AgentLoopType == TypeInv /\ AgentLoop => TypeInv'
<1> SUFFICES ASSUME TypeInv, AgentLoop PROVE TypeInv'
  OBVIOUS
<1> USE DEF TypeInv, TypeOK, Popped, mailVars, listVars, cmdVars
<1>1. /\ Agent \in Threads
      /\ {"setup", "receive", "kill", "acquire", "check", "check2", "done", "dead"}
           \subseteq Steps \ {"push", "register"}
  BY DEF Threads, Steps, AgentSteps, HolderSteps
<1>2. \A r \in Requests : Receive(r) => mail' \in [Requests -> Nat]
  BY DEF Receive
<1>3. {queue[i] : i \in 1 .. Len(queue)} \subseteq Commands /\ <<>> \in Seq(Commands)
  OBVIOUS
<1>4. CASE AgentSetup
  BY <1>1, <1>4 DEF AgentSetup, Goto
<1>5. CASE AgentExecute
  <2>1. Head(submitted) \in Commands /\ submitted' \in Seq(Commands)
    BY <1>5 DEF AgentExecute
  <2>2. queue' \in Seq(Commands) /\ nullcmd' \subseteq Commands /\ discarded' \subseteq Commands
    <3>1. Append(queue, Head(submitted)) \in Seq(Commands)
      BY <2>1
    <3>2. queue' \in {queue, Append(queue, Head(submitted))}
      BY <1>5 DEF AgentExecute
    <3>3. nullcmd' \subseteq Commands /\ discarded' \subseteq Commands
      BY <1>5, <2>1 DEF AgentExecute, PrepareCommandExecute
    <3> QED
      BY <3>1, <3>2, <3>3
  <2>3. pc' \in [Threads -> Steps] /\ Popped'
    BY <1>1, <1>5 DEF AgentExecute, Goto
  <2> QED
    BY <1>5, <2>1, <2>2, <2>3 DEF AgentExecute
<1>6. ASSUME NEW c \in Commands, AgentTerminate(c) PROVE TypeInv'
  BY <1>1, <1>6 DEF AgentTerminate, Goto
<1>7. CASE AgentRefresh
  <2>1. mail' \in [Requests -> Nat]
    BY <1>2, <1>7 DEF AgentRefresh, Requests
  <2>2. /\ status' \in [Commands -> Initialized .. Closed]
        /\ archived' \in [Commands -> Nat]
    BY <1>7 DEF AgentRefresh, CompleteExecution, Initialized, Closed
  <2>3. /\ pipe' \in [Commands -> 0 .. PipeClosed]
        /\ redirect' \in [Commands -> 0 .. PipeClosed]
    BY <1>7 DEF AgentRefresh, CompleteExecution, RedirectStatus, PipeClosed
  <2>4. pc' \in [Threads -> Steps] /\ Popped'
    BY <1>1, <1>7 DEF AgentRefresh, Goto
  <2>5. running' \subseteq Commands /\ vacated' \subseteq Commands
    BY <1>7 DEF AgentRefresh
  <2> QED
    BY <1>7, <2>1, <2>2, <2>3, <2>4, <2>5 DEF AgentRefresh
<1>8. CASE AgentTerminateAll
  <2>1. mail' \in [Requests -> Nat]
    BY <1>2, <1>8 DEF AgentTerminateAll, Requests
  <2>2. pc' \in [Threads -> Steps] /\ Popped'
    BY <1>1, <1>8 DEF AgentTerminateAll, Goto
  <2> QED
    BY <1>3, <1>8, <2>1, <2>2 DEF AgentTerminateAll, Drain
<1>9. CASE AgentKill
  <2>1. proc' \in [Commands -> {"none", "live", "exited"}]
    BY <1>9 DEF AgentKill
  <2>2. pc' \in [Threads -> Steps] /\ Popped'
    BY <1>1, <1>9 DEF AgentKill, Goto
  <2> QED
    BY <1>9, <2>1, <2>2 DEF AgentKill
<1>10. CASE AgentCancel
  <2>1. mail' \in [Requests -> Nat]
    BY <1>2, <1>10 DEF AgentCancel, Requests
  <2>2. pc' \in [Threads -> Steps] /\ Popped'
    BY <1>1, <1>10 DEF AgentCancel, Goto, Dead
  <2> QED
    BY <1>3, <1>10, <2>1, <2>2 DEF AgentCancel, Drain
<1>11. CASE AgentDone
  <2>1. mail' \in [Requests -> Nat]
    BY <1>2, <1>11 DEF AgentDone, Requests
  <2>2. pc' \in [Threads -> Steps] /\ Popped'
    BY <1>1, <1>11 DEF AgentDone, Goto
  <2> QED
    BY <1>11, <2>1, <2>2 DEF AgentDone
<1>12. CASE AgentCheckRunning
  BY <1>1, <1>12 DEF AgentCheckRunning, Goto
<1>13. CASE AgentCheckQueue
  BY <1>1, <1>13 DEF AgentCheckQueue, Goto
<1> QED
  BY <1>4, <1>5, <1>6, <1>7, <1>8, <1>9, <1>10, <1>11, <1>12, <1>13 DEF AgentLoop

\* The next-state relation by who takes the step.
LEMMA NextByActor ==
  ASSUME Next
  PROVE  \/ Environment \/ AgentLoop \/ UNCHANGED vars
         \/ \E t \in Threads : ExecuteNextCommand(t)
         \/ \E c \in Commands : CallbackRelease(c) \/ CallbackComplete(c) \/ MoveCompletedCommand(c)
BY DEF Next, AgentStep, AgentLoop, CallbackStep, Finished, Threads

\* Every step keeps the types.
LEMMA TypeStep == TypeInv /\ [Next]_vars => TypeInv'
<1> SUFFICES ASSUME TypeInv, [Next]_vars PROVE TypeInv'
  OBVIOUS
<1>1. CASE UNCHANGED vars
  BY <1>1 DEF TypeInv, TypeOK, Popped, vars, mailVars, listVars, cmdVars
<1> QED
  BY <1>1, NextByActor, EnvironmentType, ExecuteNextCommandType, CallbackType, AgentLoopType

\* CommandAgent is type correct.
THEOREM TypeCorrect == Spec => []TypeOK
<1>1. TypeInv => TypeOK
  BY DEF TypeInv
<1> QED
  BY <1>1, InitTypeInv, TypeStep, PTL DEF Spec

-----------------------------------------------------------------------------
(* The output of a command is archived when its status becomes Closed, and only then. *)
ArchivedWhenClosed == \A c \in Commands : archived[c] = IF status[c] = Closed THEN 1 ELSE 0

\* Only Launch, CallbackComplete and AgentRefresh change a status.
LEMMA ArchivedStep ==
  ASSUME TypeInv, ArchivedWhenClosed, [Next]_vars
  PROVE  ArchivedWhenClosed'
<1> USE DEF ArchivedWhenClosed
<1>1. ASSUME UNCHANGED <<status, archived>> PROVE ArchivedWhenClosed'
  BY <1>1
<1>2. status \in [Commands -> 0 .. 3] /\ archived \in [Commands -> Nat]
  BY DEF TypeInv, TypeOK, Initialized, Closed
<1>3. ASSUME NEW c \in Commands, NEW s \in {Started, Complete}, SetStatus(c, s), UNCHANGED archived
      PROVE  ArchivedWhenClosed'
  BY <1>2, <1>3 DEF SetStatus, Started, Complete, Closed
<1>4. CASE Environment
  BY <1>1, <1>4 DEF Environment, SendDone, RefreshTimer, OneShot, SendExecute, LimitReached,
     ProcessExits, PipeIO, cmdVars
<1>5. ASSUME NEW t \in Threads, ExecuteNextCommand(t) PROVE ArchivedWhenClosed'
  <2>1. CASE Launch(t)
    BY <1>3, <2>1 DEF Launch
  <2> QED
    BY <1>1, <1>5, <2>1 DEF ExecuteNextCommand, TryAcquire, UndoAcquire, PopCommand,
       NothingQueued, SkipNull, LaunchFails, ReleaseFailed, PushRunning, RegisterWait, cmdVars
<1>6. ASSUME NEW c \in Commands,
             CallbackRelease(c) \/ CallbackComplete(c) \/ MoveCompletedCommand(c)
      PROVE  ArchivedWhenClosed'
  <2>1. CASE CallbackComplete(c)
    BY <1>3, <2>1 DEF CallbackComplete
  <2> QED
    BY <1>1, <1>6, <2>1 DEF CallbackRelease, MoveCompletedCommand, cmdVars
<1>7. CASE AgentRefresh
  BY <1>2, <1>7 DEF AgentRefresh, CompleteExecution, HasCompleted, Complete, Closed
<1>8. CASE AgentLoop
  BY <1>1, <1>7, <1>8 DEF AgentLoop, AgentSetup, AgentExecute, AgentTerminateAll, AgentKill,
     AgentCancel, AgentDone, AgentCheckRunning, AgentCheckQueue, AgentTerminate, cmdVars
<1>9. CASE UNCHANGED vars
  BY <1>1, <1>9 DEF vars, cmdVars
<1> QED
  BY <1>4, <1>5, <1>6, <1>8, <1>9, NextByActor

\* The output of a command is archived at most once, although the callback leaves a
\* completed command in either list for the refreshes to find.
THEOREM ArchivedAtMostOnce == Spec => []ArchivedOnce
<1>1. Init => ArchivedWhenClosed
  BY DEF Init, ArchivedWhenClosed, Initialized, Closed
<1>2. TypeInv /\ ArchivedWhenClosed /\ [Next]_vars => (TypeInv /\ ArchivedWhenClosed)'
  BY TypeStep, ArchivedStep
<1>3. ArchivedWhenClosed => ArchivedOnce
  BY DEF ArchivedWhenClosed, ArchivedOnce
<1> QED
  BY <1>1, <1>2, <1>3, InitTypeInv, PTL DEF Spec

-----------------------------------------------------------------------------
(* A command that has no permit yet is in one place at most: to be sent, in the mailbox,
   in the queue, or in the hands of one thread. *)
Elems(s) == {s[i] : i \in 1 .. Len(s)}
Distinct(s) == \A i, j \in 1 .. Len(s) : s[i] = s[j] => i = j
InHand == {t \in Threads : pc[t] \in {"launch", "push", "register"}}
Hands == {cmd[t] : t \in InHand}

OnePlace ==
  /\ Distinct(submitted) /\ Distinct(queue)
  /\ \A t, u \in InHand : cmd[t] = cmd[u] => t = u
  /\ toSubmit \cap (Elems(submitted) \cup Elems(queue) \cup Hands) = {}
  /\ Elems(submitted) \cap (Elems(queue) \cup Hands) = {}
  /\ Elems(queue) \cap Hands = {}
  /\ \A c \in Commands \cap (toSubmit \cup Elems(submitted) \cup Elems(queue) \cup Hands) :
       wait[c] = "none"

\* Appending a new element to a sequence without repetition.
LEMMA AppendElems ==
  ASSUME NEW S, NEW s \in Seq(S), NEW e \in S
  PROVE  /\ Elems(Append(s, e)) = Elems(s) \cup {e}
         /\ Distinct(s) /\ e \notin Elems(s) => Distinct(Append(s, e))
<1> DEFINE a == Append(s, e)
<1>1. Len(a) = Len(s) + 1 /\ a[Len(s) + 1] = e /\ \A i \in 1 .. Len(s) : a[i] = s[i]
  OBVIOUS
<1>2. Len(s) \in Nat
  OBVIOUS
<1> HIDE DEF a
<1>3. Elems(a) = Elems(s) \cup {e}
  BY <1>1, <1>2 DEF Elems
<1>4. ASSUME Distinct(s), e \notin Elems(s) PROVE Distinct(a)
  BY <1>1, <1>2, <1>4 DEF Elems, Distinct
<1> QED
  BY <1>3, <1>4 DEF a

\* Removing the head of a sequence without repetition.
LEMMA TailElems ==
  ASSUME NEW S, NEW s \in Seq(S), s # <<>>, Distinct(s)
  PROVE  /\ Head(s) \in Elems(s)
         /\ Elems(Tail(s)) = Elems(s) \ {Head(s)}
         /\ Distinct(Tail(s))
<1> DEFINE r == Tail(s)
<1>1. /\ Len(s) \in Nat \ {0} /\ Len(r) = Len(s) - 1 /\ Head(s) = s[1]
      /\ \A i \in 1 .. Len(s) - 1 : r[i] = s[i + 1]
  OBVIOUS
<1> HIDE DEF r
<1>2. Head(s) \in Elems(s)
  BY <1>1 DEF Elems
<1>3. Distinct(r)
  BY <1>1 DEF Distinct
<1>4. ASSUME NEW i \in 1 .. Len(r) PROVE r[i] \in Elems(s) \ {Head(s)}
  BY <1>1 DEF Elems, Distinct
<1>5. ASSUME NEW i \in 1 .. Len(s), s[i] # Head(s) PROVE s[i] \in Elems(r)
  <2>1. i - 1 \in 1 .. Len(r) /\ r[i - 1] = s[i]
    BY <1>1, <1>5
  <2> QED
    BY <2>1 DEF Elems
<1>6. Elems(r) = Elems(s) \ {Head(s)}
  BY <1>4, <1>5 DEF Elems
<1> QED
  BY <1>2, <1>3, <1>6 DEF r

\* No command enters a place: the queue may be drained and a thread may let go of its
\* command.
LEMMA OnePlaceShrinks ==
  ASSUME OnePlace, UNCHANGED <<toSubmit, submitted, cmd, wait>>,
         queue' \in {queue, <<>>}, InHand' \subseteq InHand
  PROVE  OnePlace'
<1>1. Distinct(queue)' /\ Elems(queue)' \subseteq Elems(queue)
  BY DEF Distinct, Elems, OnePlace
<1>2. Hands' \subseteq Hands
  BY DEF Hands
<1>3. Elems(submitted)' = Elems(submitted) /\ Distinct(submitted)' = Distinct(submitted)
  BY DEF Elems, Distinct
<1> QED
  BY <1>1, <1>2, <1>3 DEF OnePlace

\* A thread that does not step to "launch", "push" or "register" holds no command after it.
LEMMA GotoHand ==
  ASSUME TypeInv, NEW t \in Threads, NEW s, Goto(t, s) \/ Release(t, s),
         s \notin {"launch", "push", "register"}
  PROVE  InHand' \subseteq InHand
BY DEF Goto, Release, Dead, InHand, TypeInv, TypeOK

\* No command ever is in two places.
LEMMA OnePlaceStep ==
  ASSUME TypeInv, OnePlace, [Next]_vars
  PROVE  OnePlace'
<1>0. ASSUME UNCHANGED <<toSubmit, submitted, queue, pc, cmd, wait>> PROVE OnePlace'
  BY <1>0, OnePlaceShrinks DEF InHand
<1> USE DEF mailVars, listVars, cmdVars
<1>1. CASE Environment
  <2>1. ASSUME NEW c \in Commands, SendExecute(c) PROVE OnePlace'
    <3>1. submitted \in Seq(Commands) /\ c \notin Elems(submitted)
      BY <2>1 DEF TypeInv, TypeOK, SendExecute, OnePlace
    <3>2. Distinct(submitted') /\ Elems(submitted') = Elems(submitted) \cup {c}
      BY <2>1, <3>1, AppendElems DEF SendExecute, OnePlace
    <3>3. toSubmit' = toSubmit \ {c} /\ c \in toSubmit /\ UNCHANGED <<queue, pc, cmd, wait>>
      BY <2>1 DEF SendExecute
    <3>4. UNCHANGED <<InHand, Hands, Elems(queue), Distinct(queue)>>
      BY <3>3 DEF InHand, Hands, Elems, Distinct
    <3>5. Distinct(submitted)' /\ Elems(submitted)' = Elems(submitted) \cup {c}
      BY <3>2 DEF Elems, Distinct
    <3> QED
      BY <3>3, <3>4, <3>5 DEF OnePlace
  <2> QED
    BY <1>0, <1>1, <2>1 DEF Environment, SendDone, RefreshTimer, OneShot, LimitReached,
       ProcessExits, PipeIO
<1>2. ASSUME NEW t \in Threads, ExecuteNextCommand(t) PROVE OnePlace'
  <2>0. Caller(t) \notin {"launch", "push", "register"} /\ pc \in [Threads -> Steps]
    BY DEF Caller, TypeInv, TypeOK
  <2>1. CASE TryAcquire(t) \/ UndoAcquire(t)
    BY <2>0, <2>1, GotoHand, OnePlaceShrinks DEF TryAcquire, UndoAcquire, Return
  <2>2. CASE PopCommand(t)
    <3>1. CASE queue = <<>>
      BY <2>2, <3>1, GotoHand, OnePlaceShrinks DEF PopCommand
    <3>2. CASE queue # <<>>
      <4> DEFINE h == Head(queue)
      <4>1. queue \in Seq(Commands) /\ cmd \in [Threads -> Commands \cup {NoCommand}] /\ h \in Commands
        BY <3>2 DEF TypeInv, TypeOK
      <4>2. /\ queue' = Tail(queue) /\ UNCHANGED <<toSubmit, submitted, wait>>
            /\ cmd' = [cmd EXCEPT ![t] = h] /\ pc' = [pc EXCEPT ![t] = "launch"] /\ pc[t] = "pop"
        BY <2>2, <3>2 DEF PopCommand, Goto
      <4>3. h \in Elems(queue) /\ Elems(queue') = Elems(queue) \ {h} /\ Distinct(queue')
        BY <3>2, <4>1, <4>2, TailElems DEF OnePlace
      <4>4. InHand' = InHand \cup {t} /\ t \notin InHand
        BY <2>0, <4>2 DEF InHand
      <4> HIDE DEF h
      <4>5. cmd'[t] = h /\ \A u \in InHand : cmd'[u] = cmd[u]
        BY <4>1, <4>2, <4>4 DEF InHand
      <4>6. Hands' = Hands \cup {h}
        BY <4>4, <4>5 DEF Hands
      <4>7. \A u, v \in InHand' : cmd'[u] = cmd'[v] => u = v
        <5>1. h \notin Hands
          BY <4>3 DEF OnePlace
        <5> QED
          BY <4>4, <4>5, <5>1 DEF OnePlace, Hands
      <4>8. UNCHANGED <<Elems(submitted), Distinct(submitted)>>
        BY <4>2 DEF Elems, Distinct
      <4>9. Elems(queue)' = Elems(queue) \ {h} /\ Distinct(queue)'
        BY <4>3 DEF Elems, Distinct
      <4>10. UNCHANGED <<toSubmit, wait>> /\ h \in Elems(queue)
        BY <4>2, <4>3
      <4> QED
        BY <4>6, <4>7, <4>8, <4>9, <4>10 DEF OnePlace
    <3> QED
      BY <3>1, <3>2
  <2>3. CASE NothingQueued(t) \/ LaunchFails(t) \/ ReleaseFailed(t)
    BY <2>0, <2>3, GotoHand, OnePlaceShrinks DEF NothingQueued, LaunchFails, ReleaseFailed
  <2>4. CASE Launch(t) \/ PushRunning(t)
    <3>1. InHand' = InHand
      BY <2>0, <2>4 DEF Launch, PushRunning, Goto, InHand
    <3> QED
      BY <2>4, <3>1, OnePlaceShrinks DEF Launch, PushRunning
  <2>5. CASE SkipNull(t) \/ RegisterWait(t)
    <3>1. InHand' = InHand \ {t} /\ t \in InHand
      BY <2>0, <2>5 DEF SkipNull, RegisterWait, Return, Goto, InHand
    <3>2. \A c \in Commands : c # cmd[t] => wait'[c] = wait[c]
      BY <2>5 DEF SkipNull, RegisterWait, TypeInv, TypeOK
    <3>3. UNCHANGED <<toSubmit, submitted, queue, cmd>>
      BY <2>5 DEF SkipNull, RegisterWait
    <3>4. Hands' = Hands \ {cmd[t]} /\ cmd[t] \in Hands
      BY <3>1, <3>3 DEF Hands, OnePlace
    <3>5. UNCHANGED <<Elems(submitted), Distinct(submitted), Elems(queue), Distinct(queue)>>
      BY <3>3 DEF Elems, Distinct
    <3> QED
      BY <3>1, <3>2, <3>3, <3>4, <3>5 DEF OnePlace
  <2> QED
    BY <1>2, <2>1, <2>2, <2>3, <2>4, <2>5 DEF ExecuteNextCommand
<1>3. ASSUME NEW c \in Commands,
             CallbackRelease(c) \/ CallbackComplete(c) \/ MoveCompletedCommand(c)
      PROVE  OnePlace'
  <2>0. c \in Threads
    BY DEF Threads
  <2>1. InHand' \subseteq InHand
    BY <1>3, <2>0, GotoHand DEF CallbackRelease, CallbackComplete, MoveCompletedCommand
  <2>2. CASE CallbackRelease(c)
    <3>1. /\ wait[c] = "registered" /\ \A d \in Commands \ {c} : wait'[d] = wait[d]
          /\ UNCHANGED <<toSubmit, submitted, queue, cmd>>
      BY <2>2 DEF CallbackRelease, TypeInv, TypeOK
    <3>2. Hands' \subseteq Hands
      BY <2>1, <3>1 DEF Hands
    <3>3. UNCHANGED <<Elems(submitted), Distinct(submitted), Elems(queue), Distinct(queue)>>
      BY <3>1 DEF Elems, Distinct
    <3> QED
      BY <2>1, <3>1, <3>2, <3>3 DEF OnePlace
  <2> QED
    BY <1>3, <2>1, <2>2, OnePlaceShrinks DEF CallbackComplete, MoveCompletedCommand
<1>4. CASE AgentLoop
  <2>0. Agent \in Threads
    BY DEF Threads
  <2>1. CASE AgentExecute
    <3> DEFINE h == Head(submitted)
    <3>1. submitted \in Seq(Commands) /\ queue \in Seq(Commands) /\ submitted # <<>> /\ h \in Commands
      BY <2>1 DEF AgentExecute, TypeInv, TypeOK
    <3>2. /\ submitted' = Tail(submitted) /\ queue' \in {queue, Append(queue, h)}
          /\ UNCHANGED <<toSubmit, cmd, wait>> /\ Goto(Agent, "acquire") /\ pc[Agent] = "receive"
      BY <2>1 DEF AgentExecute
    <3>3. /\ h \in Elems(submitted) /\ Elems(submitted') = Elems(submitted) \ {h}
          /\ Distinct(submitted')
      BY <3>1, <3>2, TailElems DEF OnePlace
    <3> HIDE DEF h
    <3>4. h \notin Elems(queue)
      BY <3>3 DEF OnePlace
    <3>5. Distinct(queue') /\ Elems(queue') \subseteq Elems(queue) \cup {h}
      <4>1. CASE queue' = queue
        BY <4>1 DEF OnePlace
      <4>2. CASE queue' = Append(queue, h)
        BY <3>1, <3>4, <4>2, AppendElems DEF OnePlace
      <4> QED
        BY <3>2, <4>1, <4>2
    <3>6. InHand' \subseteq InHand
      BY <2>0, <3>2, GotoHand
    <3>7. Hands' \subseteq Hands
      BY <3>2, <3>6 DEF Hands
    <3>8. /\ Distinct(queue)' /\ Elems(queue)' \subseteq Elems(queue) \cup {h}
          /\ Distinct(submitted)' /\ Elems(submitted)' = Elems(submitted) \ {h}
      BY <3>3, <3>5 DEF Elems, Distinct
    <3> QED
      BY <3>2, <3>3, <3>6, <3>7, <3>8 DEF OnePlace
  <2>2. CASE AgentTerminateAll \/ AgentCancel
    <3>1. InHand' \subseteq InHand
      BY <2>0, <2>2, GotoHand DEF AgentTerminateAll, AgentCancel, Dead, InHand
    <3> QED
      BY <2>2, <3>1, OnePlaceShrinks DEF AgentTerminateAll, AgentCancel, Drain
  <2>3. CASE AgentSetup \/ AgentRefresh \/ AgentKill \/ AgentDone
             \/ \E c \in Commands : AgentTerminate(c)
    BY <2>0, <2>3, GotoHand, OnePlaceShrinks DEF AgentSetup, AgentRefresh, AgentKill, AgentDone,
       AgentTerminate
  <2>4. CASE AgentCheckRunning \/ AgentCheckQueue
    BY <2>0, <2>4, GotoHand, OnePlaceShrinks DEF AgentCheckRunning, AgentCheckQueue
  <2> QED
    BY <1>4, <2>1, <2>2, <2>3, <2>4 DEF AgentLoop
<1>5. CASE UNCHANGED vars
  BY <1>0, <1>5 DEF vars
<1> QED
  BY <1>1, <1>2, <1>3, <1>4, <1>5, NextByActor

-----------------------------------------------------------------------------
(* The permits.  A thread between the two halves of a failing TryAcquire has taken from
   the counter what it does not own, so count alone may be negative; count plus these
   threads is what is free. *)
Undoing == {t \in Threads : pc[t] = "undo"}
Owners == {t \in Threads : pc[t] \in HolderSteps \ {"undo"}}
Free == count + Cardinality(Undoing)

\* A live child process is covered by a permit: of its registered wait, of its abandoned
\* one, or of the thread that has just launched it.
Covered ==
  \A c \in Live : c \in HolderCommands \/ \E t \in Owners : cmd[t] = c /\ pc[t] \in {"push", "register"}

Permits ==
  /\ Free >= 0
  /\ Free + Cardinality(Owners) + Cardinality(HolderCommands) = MaxRunning
  /\ Covered

AllDead == Crashed => \A t \in Threads : pc[t] = "dead"

PermitInv == TypeInv /\ OnePlace /\ AllDead /\ JobLimit /\ (~Crashed => Permits)

One(b) == IF b THEN 1 ELSE 0

\* Two finite sets that differ in one element at most.
LEMMA CardDiffersInOne ==
  ASSUME NEW S, IsFiniteSet(S), NEW x, NEW T, T \ {x} = S \ {x}
  PROVE  IsFiniteSet(T) /\ Cardinality(T) = Cardinality(S) - One(x \in S) + One(x \in T)
<1>1. /\ IsFiniteSet(S \ {x}) /\ Cardinality(S) \in Nat
      /\ Cardinality(S \ {x}) = Cardinality(S) - One(x \in S)
  BY FS_RemoveElement, FS_CardinalityType DEF One
<1>2. CASE x \in T
  <2>1. T = (S \ {x}) \cup {x}
    BY <1>2
  <2> QED
    BY <1>1, <1>2, <2>1, FS_AddElement DEF One
<1>3. CASE x \notin T
  <2>1. T = S \ {x}
    BY <1>3
  <2> QED
    BY <1>1, <1>3, <2>1, FS_CardinalityType DEF One
<1> QED
  BY <1>2, <1>3

\* The sets that are counted are finite.
LEMMA CountedFinite ==
  /\ IsFiniteSet(Threads) /\ IsFiniteSet(Undoing) /\ IsFiniteSet(Owners)
  /\ IsFiniteSet(HolderThreads) /\ IsFiniteSet(HolderCommands) /\ IsFiniteSet(Live)
  /\ Cardinality(Undoing) \in Nat /\ Cardinality(Owners) \in Nat
  /\ Cardinality(HolderThreads) \in Nat /\ Cardinality(HolderCommands) \in Nat
  /\ Cardinality(Live) \in Nat
<1>1. IsFiniteSet(Threads) /\ IsFiniteSet(Commands)
  BY CommandsAssumption, FS_AddElement DEF Threads
<1>2. /\ Undoing \subseteq Threads /\ Owners \subseteq Threads /\ HolderThreads \subseteq Threads
      /\ HolderCommands \subseteq Commands /\ Live \subseteq Commands
  BY DEF Undoing, Owners, HolderThreads, HolderCommands, Live
<1>3. IsFiniteSet(Undoing) /\ IsFiniteSet(Owners) /\ IsFiniteSet(HolderThreads)
  BY <1>1, <1>2, FS_Subset
<1>4. IsFiniteSet(HolderCommands) /\ IsFiniteSet(Live)
  BY <1>1, <1>2, FS_Subset
<1> QED
  BY <1>1, <1>3, <1>4, FS_CardinalityType

\* A step of one thread changes the number of undoing threads and of owners by what that
\* thread was and becomes.
LEMMA GotoCounts ==
  ASSUME TypeInv, NEW t \in Threads, NEW s, Goto(t, s)
  PROVE  /\ Cardinality(Undoing)' = Cardinality(Undoing) - One(pc[t] = "undo") + One(s = "undo")
         /\ Cardinality(Owners)' = Cardinality(Owners)
              - One(pc[t] \in HolderSteps \ {"undo"}) + One(s \in HolderSteps \ {"undo"})
<1>1. pc'[t] = s /\ \A u \in Threads \ {t} : pc'[u] = pc[u]
  BY DEF Goto, TypeInv, TypeOK
<1>2. Undoing' \ {t} = Undoing \ {t} /\ Owners' \ {t} = Owners \ {t}
  BY <1>1 DEF Undoing, Owners
<1>3. /\ (t \in Undoing) = (pc[t] = "undo") /\ (t \in Undoing') = (s = "undo")
      /\ (t \in Owners) = (pc[t] \in HolderSteps \ {"undo"})
      /\ (t \in Owners') = (s \in HolderSteps \ {"undo"})
  BY <1>1 DEF Undoing, Owners
<1> QED
  BY <1>2, <1>3, CardDiffersInOne, CountedFinite DEF One

\* A step that changes the wait of one command changes the number of permits that commands
\* hold by what that command held and holds.
LEMMA WaitCounts ==
  ASSUME TypeInv, NEW c \in Commands, NEW w, wait' = [wait EXCEPT ![c] = w]
  PROVE  Cardinality(HolderCommands)' = Cardinality(HolderCommands)
           - One(wait[c] \in {"registered", "leaked"}) + One(w \in {"registered", "leaked"})
<1>1. wait'[c] = w /\ \A d \in Commands \ {c} : wait'[d] = wait[d]
  BY DEF TypeInv, TypeOK
<1>2. HolderCommands' \ {c} = HolderCommands \ {c}
  BY <1>1 DEF HolderCommands
<1>3. /\ (c \in HolderCommands) = (wait[c] \in {"registered", "leaked"})
      /\ (c \in HolderCommands') = (w \in {"registered", "leaked"})
  BY <1>1 DEF HolderCommands
<1> QED
  BY <1>2, <1>3, CardDiffersInOne, CountedFinite DEF One

\* The permits bound the live children.
LEMMA PermitsBoundLive == TypeInv /\ Permits => JobLimit
<1> SUFFICES ASSUME TypeInv, Permits PROVE JobLimit
  OBVIOUS
<1> DEFINE Launched == {cmd[t] : t \in Owners}
<1>1. IsFiniteSet(Launched) /\ Cardinality(Launched) <= Cardinality(Owners)
  <2> DEFINE f == [t \in Owners |-> cmd[t]]
  <2>1. f \in Surjection(Owners, Launched)
    BY DEF Surjection
  <2> QED
    BY <2>1, CountedFinite, FS_Surjection
<1>2. Live \subseteq HolderCommands \cup Launched
  BY DEF Permits, Covered
<1>3. /\ IsFiniteSet(HolderCommands \cup Launched)
      /\ Cardinality(HolderCommands \cup Launched)
           = Cardinality(HolderCommands) + Cardinality(Launched) - Cardinality(HolderCommands \cap Launched)
  BY <1>1, CountedFinite, FS_Union
<1>4. Cardinality(HolderCommands \cap Launched) \in Nat
  BY CountedFinite, FS_Intersection, FS_CardinalityType
<1>5. Cardinality(Live) <= Cardinality(HolderCommands \cup Launched)
  BY <1>2, <1>3, FS_Subset
<1>6. Cardinality(Launched) \in Nat /\ Free \in Int
  BY <1>1, CountedFinite, FS_CardinalityType DEF Free, TypeInv, TypeOK
<1> HIDE DEF Launched
<1> QED
  BY <1>1, <1>3, <1>4, <1>5, <1>6, CountedFinite, MaxRunningAssumption DEF Permits, JobLimit

\* Covered survives a step of thread t that launches nothing, takes no permit from a
\* command, and is not between the launch and the registration.
LEMMA CoveredKept ==
  ASSUME TypeInv, Covered, NEW t \in Threads, NEW s, Goto(t, s),
         pc[t] \notin {"push", "register"}, Live' \subseteq Live,
         HolderCommands \cap Live' \subseteq HolderCommands',
         \A u \in Threads \ {t} : cmd'[u] = cmd[u]
  PROVE  Covered'
<1>1. \A u \in Threads \ {t} : pc'[u] = pc[u]
  BY DEF Goto, TypeInv, TypeOK
<1>2. \A u \in Owners : pc[u] \in {"push", "register"} => u \in Owners' /\ pc'[u] = pc[u] /\ cmd'[u] = cmd[u]
  BY <1>1 DEF Owners
<1> QED
  BY <1>2 DEF Covered

\* A step that leaves the threads, the counter and the waits alone keeps the permits.
LEMMA PermitsKept ==
  ASSUME Permits, UNCHANGED <<pc, cmd, count, wait>>, Live' \subseteq Live
  PROVE  Permits'
<1>1. UNCHANGED <<Undoing, Owners, HolderCommands, Free>>
  BY DEF Undoing, Owners, HolderCommands, Free
<1>2. Covered'
  BY <1>1 DEF Permits, Covered
<1> QED
  BY <1>1, <1>2 DEF Permits

\* A step of a thread that neither holds a permit before nor after it, and that changes
\* neither the counter nor the waits, keeps the permits.
LEMMA PermitsIdle ==
  ASSUME TypeInv, Permits, NEW t \in Threads, NEW s, Goto(t, s), UNCHANGED <<cmd, count, wait>>,
         pc[t] \notin HolderSteps, s \notin HolderSteps, Live' \subseteq Live
  PROVE  Permits'
<1>1. HolderCommands' = HolderCommands
  BY DEF HolderCommands
<1>2. "undo" \in HolderSteps /\ {"push", "register"} \subseteq HolderSteps
  BY DEF HolderSteps
<1>3. Covered'
  BY <1>1, <1>2, CoveredKept DEF Permits
<1>4. Cardinality(Undoing)' = Cardinality(Undoing) /\ Cardinality(Owners)' = Cardinality(Owners)
  BY <1>2, GotoCounts, CountedFinite DEF One
<1> QED
  BY <1>1, <1>3, <1>4 DEF Permits, Free

\* Unless it ends the program, ExecuteNextCommand neither loses nor invents a permit.
LEMMA PermitsExecuteNext ==
  ASSUME TypeInv, OnePlace, Permits, NEW t \in Threads, ExecuteNextCommand(t), ~Crashed'
  PROVE  Permits'
<1> DEFINE next == Caller(t)
<1>0. /\ next \notin HolderSteps /\ count \in Int /\ pc \in [Threads -> Steps] /\ MaxRunning \in Nat
      /\ Cardinality(Undoing) \in Nat /\ Cardinality(Owners) \in Nat
      /\ Cardinality(HolderCommands) \in Nat
  BY CountedFinite, MaxRunningAssumption DEF Caller, HolderSteps, TypeInv, TypeOK
<1>1. \A s : Release(t, s) => count' = count + 1 /\ Goto(t, s)
  BY DEF Release, Dead, Goto, Crashed, Threads
<1> HIDE DEF next
<1>2. CASE TryAcquire(t)
  <2>1. CASE count - 1 < 0
    <3>1. Goto(t, "undo") /\ pc[t] = "acquire" /\ count' = count - 1 /\ UNCHANGED <<cmd, wait, proc>>
      BY <1>2, <2>1 DEF TryAcquire
    <3>2. /\ Cardinality(Undoing)' = Cardinality(Undoing) + 1
          /\ Cardinality(Owners)' = Cardinality(Owners)
      BY <1>0, <3>1, GotoCounts DEF One, HolderSteps
    <3>3. HolderCommands' = HolderCommands /\ Live' = Live
      BY <3>1 DEF HolderCommands, Live
    <3>4. Covered'
      BY <3>1, <3>3, CoveredKept DEF Permits
    <3> QED
      BY <1>0, <3>1, <3>2, <3>3, <3>4 DEF Permits, Free
  <2>2. CASE ~(count - 1 < 0)
    <3>1. Goto(t, "pop") /\ pc[t] = "acquire" /\ count' = count - 1 /\ UNCHANGED <<cmd, wait, proc>>
      BY <1>2, <2>2 DEF TryAcquire
    <3>2. /\ Cardinality(Undoing)' = Cardinality(Undoing)
          /\ Cardinality(Owners)' = Cardinality(Owners) + 1
      BY <1>0, <3>1, GotoCounts DEF One, HolderSteps
    <3>3. HolderCommands' = HolderCommands /\ Live' = Live
      BY <3>1 DEF HolderCommands, Live
    <3>4. Covered'
      BY <3>1, <3>3, CoveredKept DEF Permits
    <3> QED
      BY <1>0, <2>2, <3>1, <3>2, <3>3, <3>4 DEF Permits, Free
  <2> QED
    BY <2>1, <2>2
<1>3. CASE UndoAcquire(t)
  <2>1. Goto(t, next) /\ pc[t] = "undo" /\ count' = count + 1 /\ UNCHANGED <<cmd, wait, proc>>
    BY <1>3 DEF UndoAcquire, Return, next
  <2>2. /\ Cardinality(Undoing)' = Cardinality(Undoing) - 1
        /\ Cardinality(Owners)' = Cardinality(Owners)
    BY <1>0, <2>1, GotoCounts DEF One, HolderSteps
  <2>3. HolderCommands' = HolderCommands /\ Live' = Live
    BY <2>1 DEF HolderCommands, Live
  <2>4. Covered'
    BY <2>1, <2>3, CoveredKept DEF Permits
  <2> QED
    BY <1>0, <2>1, <2>2, <2>3, <2>4 DEF Permits, Free
<1>4. CASE PopCommand(t)
  <2>1. \E s \in {"release", "launch"} : Goto(t, s)
    BY <1>4 DEF PopCommand
  <2>2. PICK s \in {"release", "launch"} : Goto(t, s)
    BY <2>1
  <2>3. pc[t] = "pop" /\ UNCHANGED <<count, wait, proc>> /\ \A u \in Threads \ {t} : cmd'[u] = cmd[u]
    BY <1>4 DEF PopCommand, TypeInv, TypeOK
  <2>4. /\ Cardinality(Undoing)' = Cardinality(Undoing)
        /\ Cardinality(Owners)' = Cardinality(Owners)
    BY <1>0, <2>2, <2>3, GotoCounts DEF One, HolderSteps
  <2>5. HolderCommands' = HolderCommands /\ Live' = Live
    BY <2>3 DEF HolderCommands, Live
  <2>6. Covered'
    BY <2>2, <2>3, <2>5, CoveredKept DEF Permits
  <2> QED
    BY <1>0, <2>3, <2>4, <2>5, <2>6 DEF Permits, Free
<1>5. CASE NothingQueued(t) \/ ReleaseFailed(t)
  <2>1. /\ Goto(t, next) /\ pc[t] \in {"release", "failed"} /\ count' = count + 1
        /\ UNCHANGED <<cmd, wait, proc>>
    BY <1>1, <1>5 DEF NothingQueued, ReleaseFailed, next
  <2>2. /\ Cardinality(Undoing)' = Cardinality(Undoing)
        /\ Cardinality(Owners)' = Cardinality(Owners) - 1
    BY <1>0, <2>1, GotoCounts DEF One, HolderSteps
  <2>3. HolderCommands' = HolderCommands /\ Live' = Live
    BY <2>1 DEF HolderCommands, Live
  <2>4. Covered'
    BY <2>1, <2>3, CoveredKept DEF Permits
  <2> QED
    BY <1>0, <2>1, <2>2, <2>3, <2>4 DEF Permits, Free
<1>6. CASE SkipNull(t) \/ RegisterWait(t)
  <2>1. PICK w \in {"registered", "leaked"} : wait' = [wait EXCEPT ![cmd[t]] = w]
    BY <1>6 DEF SkipNull, RegisterWait
  <2>2. /\ Goto(t, next) /\ pc[t] \in {"launch", "register"} /\ cmd[t] \in Commands
        /\ UNCHANGED <<cmd, count, proc>>
    BY <1>6 DEF SkipNull, RegisterWait, Return, next, TypeInv, TypeOK, Popped
  <2>3. wait[cmd[t]] = "none"
    BY <2>2 DEF OnePlace, Hands, InHand
  <2>4. /\ Cardinality(Undoing)' = Cardinality(Undoing)
        /\ Cardinality(Owners)' = Cardinality(Owners) - 1
    BY <1>0, <2>2, GotoCounts DEF One, HolderSteps
  <2>5. Cardinality(HolderCommands)' = Cardinality(HolderCommands) + 1
    <3>1. Cardinality(HolderCommands)' = Cardinality(HolderCommands)
            - One(wait[cmd[t]] \in {"registered", "leaked"}) + One(w \in {"registered", "leaked"})
      BY <2>1, <2>2, WaitCounts
    <3> QED
      BY <1>0, <2>3, <3>1 DEF One
  <2>6. Covered'
    <3>1. HolderCommands' = HolderCommands \cup {cmd[t]} /\ Live' = Live
      BY <2>1, <2>2 DEF HolderCommands, Live, TypeInv, TypeOK
    <3>2. \A u \in Threads \ {t} : pc'[u] = pc[u]
      BY <2>2 DEF Goto, TypeInv, TypeOK
    <3>3. \A u \in Owners : u # t => u \in Owners' /\ pc'[u] = pc[u] /\ cmd'[u] = cmd[u]
      BY <2>2, <3>2 DEF Owners
    <3> QED
      BY <3>1, <3>3 DEF Permits, Covered
  <2> QED
    BY <1>0, <2>2, <2>4, <2>5, <2>6 DEF Permits, Free
<1>7. CASE LaunchFails(t)
  <2>1. Goto(t, "failed") /\ pc[t] = "launch" /\ UNCHANGED <<cmd, count, wait, proc>>
    BY <1>7 DEF LaunchFails
  <2>2. /\ Cardinality(Undoing)' = Cardinality(Undoing)
        /\ Cardinality(Owners)' = Cardinality(Owners)
    BY <1>0, <2>1, GotoCounts DEF One, HolderSteps
  <2>3. HolderCommands' = HolderCommands /\ Live' = Live
    BY <2>1 DEF HolderCommands, Live
  <2>4. Covered'
    BY <2>1, <2>3, CoveredKept DEF Permits
  <2> QED
    BY <1>0, <2>1, <2>2, <2>3, <2>4 DEF Permits, Free
<1>8. CASE Launch(t) \/ PushRunning(t)
  <2>1. PICK s \in {"push", "register"} : Goto(t, s)
    BY <1>8 DEF Launch, PushRunning
  <2>2. pc[t] \in {"launch", "push"} /\ UNCHANGED <<cmd, count, wait>>
    BY <1>8 DEF Launch, PushRunning
  <2>3. /\ Cardinality(Undoing)' = Cardinality(Undoing)
        /\ Cardinality(Owners)' = Cardinality(Owners)
    BY <1>0, <2>1, <2>2, GotoCounts DEF One, HolderSteps
  <2>4. HolderCommands' = HolderCommands
    BY <2>2 DEF HolderCommands
  <2>5. Covered'
    <3>1. Live' \subseteq Live \cup {cmd[t]}
      BY <1>8 DEF Launch, PushRunning, Live, TypeInv, TypeOK
    <3>2. pc'[t] \in {"push", "register"} /\ \A u \in Threads \ {t} : pc'[u] = pc[u]
      BY <2>1 DEF Goto, TypeInv, TypeOK
    <3>3. \A u \in Owners : pc[u] \in {"push", "register"} =>
                              u \in Owners' /\ pc'[u] \in {"push", "register"}
      BY <3>2 DEF Owners, HolderSteps
    <3>4. t \in Owners'
      BY <3>2 DEF Owners, HolderSteps
    <3> QED
      BY <2>2, <2>4, <3>1, <3>2, <3>3, <3>4 DEF Permits, Covered
  <2> QED
    BY <1>0, <2>2, <2>3, <2>4, <2>5 DEF Permits, Free
<1> QED
  BY <1>2, <1>3, <1>4, <1>5, <1>6, <1>7, <1>8 DEF ExecuteNextCommand

\* Unless it ends the program, the termination callback hands back exactly the permit of
\* its command.
LEMMA PermitsCallback ==
  ASSUME TypeInv, Permits, NEW c \in Commands, ~Crashed',
         CallbackRelease(c) \/ CallbackComplete(c) \/ MoveCompletedCommand(c)
  PROVE  Permits'
<1>0. /\ c \in Threads /\ count \in Int /\ pc \in [Threads -> Steps] /\ MaxRunning \in Nat
      /\ Cardinality(Undoing) \in Nat /\ Cardinality(Owners) \in Nat
      /\ Cardinality(HolderCommands) \in Nat
  BY CountedFinite, MaxRunningAssumption DEF Threads, TypeInv, TypeOK
<1>1. CASE CallbackRelease(c)
  <2>1. /\ Goto(c, "complete") /\ pc[c] = "idle" /\ count' = count + 1
        /\ wait[c] = "registered" /\ wait' = [wait EXCEPT ![c] = "released"]
        /\ proc[c] = "exited" /\ UNCHANGED <<cmd, proc>>
    BY <1>1 DEF CallbackRelease, Release, Dead, Goto, Crashed, Threads
  <2>2. /\ Cardinality(Undoing)' = Cardinality(Undoing)
        /\ Cardinality(Owners)' = Cardinality(Owners)
    BY <1>0, <2>1, GotoCounts DEF One, HolderSteps
  <2>3. Cardinality(HolderCommands)' = Cardinality(HolderCommands) - 1
    <3>1. Cardinality(HolderCommands)' = Cardinality(HolderCommands)
            - One(wait[c] \in {"registered", "leaked"}) + One("released" \in {"registered", "leaked"})
      BY <2>1, WaitCounts
    <3> QED
      BY <1>0, <2>1, <3>1 DEF One
  <2>4. Covered'
    <3>1. Live' = Live /\ c \notin Live /\ HolderCommands' = HolderCommands \ {c}
      BY <2>1 DEF Live, HolderCommands, TypeInv, TypeOK
    <3> QED
      BY <1>0, <2>1, <3>1, CoveredKept DEF Permits
  <2> QED
    BY <1>0, <2>1, <2>2, <2>3, <2>4 DEF Permits, Free
<1>2. CASE CallbackComplete(c)
  BY <1>0, <1>2, PermitsIdle DEF CallbackComplete, HolderSteps, Live
<1>3. CASE MoveCompletedCommand(c)
  BY <1>0, <1>3, PermitsIdle DEF MoveCompletedCommand, HolderSteps, Live
<1> QED
  BY <1>1, <1>2, <1>3

\* The agent's own steps leave the permits alone.
LEMMA PermitsAgentLoop ==
  ASSUME TypeInv, Permits, AgentLoop, ~Crashed'
  PROVE  Permits'
<1>0. Agent \in Threads /\ pc[Agent] \in {"setup", "receive", "kill", "check", "check2"}
  BY DEF Threads, AgentLoop, AgentSetup, AgentExecute, AgentRefresh, AgentTerminateAll, AgentKill,
     AgentCancel, AgentDone, AgentCheckRunning, AgentCheckQueue, AgentTerminate, Receive
<1>1. UNCHANGED <<cmd, count, wait>>
  BY DEF AgentLoop, AgentSetup, AgentExecute, AgentRefresh, AgentTerminateAll, AgentKill,
     AgentCancel, AgentDone, AgentCheckRunning, AgentCheckQueue, AgentTerminate
<1>2. Live' \subseteq Live
  BY DEF Live, AgentLoop, AgentSetup, AgentExecute, AgentRefresh, AgentTerminateAll, AgentKill,
     AgentCancel, AgentDone, AgentCheckRunning, AgentCheckQueue, AgentTerminate, TypeInv, TypeOK
<1>3. \E s \in {"receive", "acquire", "kill", "check2", "done"} : Goto(Agent, s)
  BY <1>0 DEF AgentLoop, AgentSetup, AgentExecute, AgentRefresh, AgentTerminateAll, AgentKill,
     AgentCancel, AgentDone, AgentCheckRunning, AgentCheckQueue, AgentTerminate, Dead, Crashed
<1> QED
  BY <1>0, <1>1, <1>2, <1>3, PermitsIdle DEF HolderSteps

\* The environment has no access to the semaphore.
LEMMA PermitsEnvironment ==
  ASSUME TypeInv, Permits, Environment
  PROVE  Permits'
<1>1. UNCHANGED <<pc, cmd, count, wait>>
  BY DEF Environment, SendDone, RefreshTimer, OneShot, SendExecute, LimitReached, ProcessExits, PipeIO
<1>2. Live' \subseteq Live
  BY DEF Live, Environment, SendDone, RefreshTimer, OneShot, SendExecute, LimitReached,
     ProcessExits, PipeIO, TypeInv, TypeOK
<1> QED
  BY <1>1, <1>2, PermitsKept

\* A null dereference stops every thread, launches nothing and is final.
LEMMA AllDeadStep ==
  ASSUME TypeInv, AllDead, [Next]_vars
  PROVE  AllDead' /\ (Crashed => Crashed') /\ (Crashed' => Live' \subseteq Live)
<1>1. CASE Environment
  BY <1>1 DEF AllDead, Crashed, Live, Environment, SendDone, RefreshTimer, OneShot, SendExecute,
     LimitReached, ProcessExits, PipeIO, TypeInv, TypeOK
<1>2. ASSUME NEW t \in Threads, pc[t] # "dead",
             \/ pc' = Dead /\ proc' = proc
             \/ \E s : s # "dead" /\ Goto(t, s)
      PROVE  AllDead' /\ ~Crashed /\ (Crashed' => proc' = proc)
  BY <1>2 DEF AllDead, Crashed, Dead, Goto, Threads, TypeInv, TypeOK
<1>3. ASSUME NEW t \in Threads, ExecuteNextCommand(t)
      PROVE  /\ pc[t] # "dead"
             /\ (pc' = Dead /\ proc' = proc) \/ \E s : s # "dead" /\ Goto(t, s)
  BY <1>3 DEF ExecuteNextCommand, TryAcquire, UndoAcquire, PopCommand, NothingQueued, SkipNull,
     Launch, LaunchFails, ReleaseFailed, PushRunning, RegisterWait, Return, Caller, Goto, Release
<1>4. ASSUME NEW c \in Commands,
             CallbackRelease(c) \/ CallbackComplete(c) \/ MoveCompletedCommand(c)
      PROVE  /\ pc[c] # "dead"
             /\ (pc' = Dead /\ proc' = proc) \/ \E s : s # "dead" /\ Goto(c, s)
  BY <1>4 DEF CallbackRelease, CallbackComplete, MoveCompletedCommand, Goto, Release
<1>5. ASSUME AgentLoop
      PROVE  /\ pc[Agent] # "dead"
             /\ (pc' = Dead /\ proc' = proc) \/ \E s : s # "dead" /\ Goto(Agent, s)
  BY <1>5 DEF AgentLoop, AgentSetup, AgentExecute, AgentRefresh, AgentTerminateAll, AgentKill,
     AgentCancel, AgentDone, AgentCheckRunning, AgentCheckQueue, AgentTerminate, Receive, Goto
<1>6. CASE UNCHANGED vars
  BY <1>6 DEF vars, AllDead, Crashed, Live
<1>7. Live' = Live \/ proc' # proc
  BY DEF Live
<1> QED
  BY <1>1, <1>2, <1>3, <1>4, <1>5, <1>6, <1>7, NextByActor DEF Threads

\* The invariant of the permits is inductive.
LEMMA PermitStep == PermitInv /\ [Next]_vars => PermitInv'
<1> SUFFICES ASSUME PermitInv, [Next]_vars PROVE PermitInv'
  OBVIOUS
<1>1. TypeInv /\ TypeInv' /\ OnePlace' /\ AllDead'
  BY TypeStep, OnePlaceStep, AllDeadStep DEF PermitInv
<1>2. ASSUME ~Crashed' PROVE Permits'
  <2>1. Permits
    BY <1>2, AllDeadStep DEF PermitInv
  <2>2. CASE UNCHANGED vars
    BY <2>1, <2>2, PermitsKept DEF vars, Live
  <2> QED
    BY <1>2, <2>1, <2>2, NextByActor, PermitsEnvironment, PermitsAgentLoop, PermitsCallback,
       PermitsExecuteNext DEF PermitInv
<1>3. ASSUME ~Crashed' PROVE JobLimit'
  <2>1. TypeInv' /\ Permits'
    BY <1>1, <1>2, <1>3
  <2> QED
    BY <2>1, PermitsBoundLive, PTL
<1>4. ASSUME Crashed' PROVE JobLimit'
  <2>1. Live' \subseteq Live
    BY <1>4, AllDeadStep DEF PermitInv
  <2>2. Cardinality(Live') <= Cardinality(Live) /\ Cardinality(Live') \in Nat
    BY <2>1, CountedFinite, FS_Subset, FS_CardinalityType
  <2> QED
    BY <2>2, CountedFinite, MaxRunningAssumption DEF PermitInv, JobLimit
<1> QED
  BY <1>1, <1>2, <1>3, <1>4 DEF PermitInv

\* Initially all permits are free.
LEMMA InitPermitInv == Init => PermitInv
<1> SUFFICES ASSUME Init PROVE PermitInv
  OBVIOUS
<1>1. OnePlace
  BY DEF Init, OnePlace, Elems, Distinct, InHand, Hands
<1>2. ~Crashed /\ AllDead
  BY DEF Init, Crashed, AllDead, Threads
<1>3. Undoing = {} /\ Owners = {} /\ HolderCommands = {} /\ Live = {}
  BY DEF Init, Undoing, Owners, HolderCommands, Live, HolderSteps
<1>4. Permits /\ JobLimit
  BY <1>3, FS_EmptySet, MaxRunningAssumption DEF Init, Permits, JobLimit, Free, Covered
<1> QED
  BY <1>1, <1>2, <1>4, InitTypeInv DEF PermitInv

\* No more child processes run than the semaphore of the agent has permits, although a
\* callback returns its permit before its command leaves the running list, and the agent
\* and any number of callbacks run ExecuteNextCommand at once.
THEOREM JobsBounded == Spec => []JobLimit
<1>1. PermitInv => JobLimit
  BY DEF PermitInv
<1> QED
  BY <1>1, InitPermitInv, PermitStep, PTL DEF Spec

\* The counter of the semaphore and the holders of permits always add up to its capacity:
\* no permit is returned twice, and none is lost but those of a null command and of a
\* failed registration.
THEOREM PermitsNeverLost == Spec => []PermitsAccounted
<1>1. PermitInv => PermitsAccounted
  <2> SUFFICES ASSUME PermitInv, ~Crashed PROVE PermitsAccounted
    BY DEF PermitsAccounted
  <2>1. HolderThreads = Undoing \cup Owners /\ Undoing \cap Owners = {}
    BY DEF HolderThreads, Undoing, Owners, HolderSteps
  <2>2. Cardinality(HolderThreads) = Cardinality(Undoing) + Cardinality(Owners)
    <3>1. Cardinality(HolderThreads)
            = Cardinality(Undoing) + Cardinality(Owners) - Cardinality(Undoing \cap Owners)
      BY <2>1, CountedFinite, FS_Union
    <3> QED
      BY <2>1, <3>1, CountedFinite, FS_EmptySet
  <2>3. count \in Int
    BY DEF PermitInv, TypeInv, TypeOK
  <2> QED
    BY <2>2, <2>3, CountedFinite DEF PermitInv, Permits, Free, PermitsAccounted
<1> QED
  BY <1>1, InitPermitInv, PermitStep, PTL DEF Spec

-----------------------------------------------------------------------------
(***************************************************************************)
(* What becomes of the commands: what is archived is whole, and no command *)
(* is forgotten.                                                           *)
(***************************************************************************)

-----------------------------------------------------------------------------
(* A command whose callback has run has a permit no more, and its process is over: it is
   never launched again, since whoever launches it finds it without a wait (OnePlace).  The
   redirection status CommandExecute remembers never is ahead of the pipe. *)
Over(c) == wait[c] = "released" /\ proc[c] = "exited"
EndedIsOver ==
  \A c \in Commands : pc[c] \in {"complete", "move"} \/ status[c] = Complete => Over(c)
NotAhead == \A c \in Commands : redirect[c] <= pipe[c]

WholeInv == TypeInv /\ OnePlace /\ EndedIsOver /\ NotAhead

\* No step of ExecuteNextCommand touches a command that is over: the one in hand has no
\* wait yet.
LEMMA ExecuteKeepsOver ==
  ASSUME WholeInv, NEW t \in Threads, ExecuteNextCommand(t)
  PROVE  EndedIsOver' /\ NotAhead'
<1> USE DEF WholeInv
<1>1. \A u \in InHand : cmd[u] \in Commands => wait[cmd[u]] = "none"
  BY DEF OnePlace, Hands
<1>2. /\ pc \in [Threads -> Steps] /\ proc \in [Commands -> {"none", "live", "exited"}]
      /\ wait \in [Commands -> {"none", "registered", "released", "leaked"}]
      /\ status \in [Commands -> 0 .. 3]
      /\ pipe \in [Commands -> 0 .. 4] /\ redirect \in [Commands -> 0 .. 4]
  BY DEF TypeInv, TypeOK, Initialized, Closed, PipeClosed
<1>3. Commands \subseteq Threads /\ Caller(t) \notin {"complete", "move"}
  BY DEF Threads, Caller
<1>4. \A c \in Commands : pc'[c] \in {"complete", "move"} => pc[c] \in {"complete", "move"}
  <2>1. ASSUME NEW s, s \notin {"complete", "move"}, Goto(t, s) \/ Release(t, s)
        PROVE  \A c \in Commands : pc'[c] \in {"complete", "move"} => pc[c] \in {"complete", "move"}
    BY <1>2, <1>3, <2>1 DEF Goto, Release, Dead
  <2>2. CASE TryAcquire(t) \/ PopCommand(t)
    BY <2>1, <2>2 DEF TryAcquire, PopCommand
  <2>3. CASE UndoAcquire(t) \/ NothingQueued(t) \/ SkipNull(t)
    BY <1>3, <2>1, <2>3 DEF UndoAcquire, NothingQueued, SkipNull, Return
  <2>4. CASE Launch(t) \/ LaunchFails(t) \/ PushRunning(t)
    BY <2>1, <2>4 DEF Launch, LaunchFails, PushRunning
  <2>5. CASE ReleaseFailed(t) \/ RegisterWait(t)
    BY <1>3, <2>1, <2>5 DEF ReleaseFailed, RegisterWait, Return
  <2> QED
    BY <2>2, <2>3, <2>4, <2>5 DEF ExecuteNextCommand
<1>5. CASE Launch(t)
  <2> DEFINE c == cmd[t]
  <2>1. c \in Commands /\ wait[c] = "none"
    BY <1>1, <1>5 DEF Launch, InHand
  <2>2. \A d \in Commands \ {c} : UNCHANGED <<proc[d], wait[d], status[d], pipe[d], redirect[d]>>
    BY <1>2, <1>5 DEF Launch, ChildConnected, SetStatus
  <2>3. redirect'[c] = pipe'[c] /\ pipe'[c] \in 0 .. 4
    BY <1>2, <1>5, <2>1 DEF Launch, ChildConnected, PipeCreated, PipeClosed
  <2>4. status'[c] = Complete => status[c] = Complete
    BY <1>2, <1>5, <2>1 DEF Launch, SetStatus, Started, Complete
  <2> HIDE DEF c
  <2>5. NotAhead'
    BY <2>1, <2>2, <2>3 DEF NotAhead
  <2>6. EndedIsOver'
    BY <1>4, <2>1, <2>2, <2>4 DEF EndedIsOver, Over
  <2> QED
    BY <2>5, <2>6
<1>6. CASE SkipNull(t) \/ RegisterWait(t)
  <2>1. wait[cmd[t]] = "none" /\ cmd[t] \in Commands
    BY <1>1, <1>6 DEF SkipNull, RegisterWait, InHand, TypeInv, TypeOK, Popped
  <2>2. \A d \in Commands : d # cmd[t] => wait'[d] = wait[d]
    BY <1>2, <1>6 DEF SkipNull, RegisterWait
  <2>3. UNCHANGED <<proc, status, pipe, redirect>>
    BY <1>6 DEF SkipNull, RegisterWait, cmdVars
  <2> QED
    BY <1>4, <2>1, <2>2, <2>3 DEF EndedIsOver, NotAhead, Over
<1>7. ASSUME UNCHANGED <<proc, wait, status, pipe, redirect>> PROVE EndedIsOver' /\ NotAhead'
  BY <1>4, <1>7 DEF EndedIsOver, NotAhead, Over
<1> QED
  BY <1>5, <1>6, <1>7 DEF ExecuteNextCommand, TryAcquire, UndoAcquire, PopCommand, NothingQueued,
     LaunchFails, ReleaseFailed, PushRunning, cmdVars

\* CommandAgent::run kills processes and closes what it archives.
LEMMA AgentKeepsOver ==
  ASSUME WholeInv, AgentLoop
  PROVE  EndedIsOver' /\ NotAhead'
<1> USE DEF WholeInv
<1>1. /\ pc \in [Threads -> Steps] /\ proc \in [Commands -> {"none", "live", "exited"}]
      /\ pipe \in [Commands -> 0 .. 4] /\ redirect \in [Commands -> 0 .. 4]
  BY DEF TypeInv, TypeOK, PipeClosed
<1>2. Commands \subseteq Threads \ {Agent}
  BY ThreadsAssumption DEF Threads
<1>3. \A c \in Commands : pc'[c] \in {"complete", "move"} => pc[c] \in {"complete", "move"}
  <2>1. pc' = Dead \/ \E s : Goto(Agent, s)
    BY DEF AgentLoop, AgentSetup, AgentExecute, AgentRefresh, AgentTerminateAll, AgentKill,
       AgentCancel, AgentDone, AgentCheckRunning, AgentCheckQueue, AgentTerminate
  <2> QED
    BY <1>1, <1>2, <2>1 DEF Dead, Goto
<1>4. CASE AgentRefresh
  <2>1. UNCHANGED <<proc, wait>> /\ \A c \in Commands : status'[c] = Complete => status[c] = Complete
    BY <1>4 DEF AgentRefresh, CompleteExecution, Complete, Closed
  <2>2. EndedIsOver'
    BY <1>3, <2>1 DEF EndedIsOver, Over
  <2>3. NotAhead'
    BY <1>1, <1>4 DEF NotAhead, AgentRefresh, CompleteExecution, RedirectStatus, PipeClosed
  <2> QED
    BY <2>2, <2>3
<1>5. CASE AgentKill \/ \E c \in Commands : AgentTerminate(c)
  <2>1. UNCHANGED <<wait, pipe, redirect, status>>
    BY <1>5 DEF AgentKill, AgentTerminate, cmdVars
  <2>2. \A c \in Commands : proc[c] = "exited" => proc'[c] = "exited"
    BY <1>1, <1>5 DEF AgentKill, AgentTerminate
  <2> QED
    BY <1>3, <2>1, <2>2 DEF EndedIsOver, NotAhead, Over
<1>6. ASSUME UNCHANGED <<proc, wait, status, pipe, redirect>> PROVE EndedIsOver' /\ NotAhead'
  BY <1>3, <1>6 DEF EndedIsOver, NotAhead, Over
<1> QED
  BY <1>4, <1>5, <1>6 DEF AgentLoop, AgentSetup, AgentExecute, AgentTerminateAll, AgentCancel,
     AgentDone, AgentCheckRunning, AgentCheckQueue, cmdVars

\* The callback starts when the process is over, and gives its permit back first.
LEMMA CallbackKeepsOver ==
  ASSUME WholeInv, NEW c \in Commands,
         CallbackRelease(c) \/ CallbackComplete(c) \/ MoveCompletedCommand(c)
  PROVE  EndedIsOver' /\ NotAhead'
<1> USE DEF WholeInv
<1>1. /\ pc \in [Threads -> Steps] /\ status \in [Commands -> 0 .. 3]
      /\ wait \in [Commands -> {"none", "registered", "released", "leaked"}]
  BY DEF TypeInv, TypeOK, Initialized, Closed
<1>2. Commands \subseteq Threads
  BY DEF Threads
<1>3. CASE CallbackRelease(c)
  <2>1. Over(c)' /\ \A d \in Commands \ {c} : wait'[d] = wait[d] /\ (pc'[d] = pc[d] \/ pc'[d] = "dead")
    BY <1>1, <1>2, <1>3 DEF CallbackRelease, Over, Release, Dead
  <2>2. UNCHANGED <<proc, status, pipe, redirect>>
    BY <1>3 DEF CallbackRelease, cmdVars
  <2> QED
    BY <2>1, <2>2 DEF EndedIsOver, NotAhead, Over
<1>4. CASE CallbackComplete(c)
  <2>1. Over(c) /\ \A d \in Commands \ {c} : status'[d] = status[d] /\ pc'[d] = pc[d]
    BY <1>1, <1>2, <1>4 DEF CallbackComplete, EndedIsOver, SetStatus, Goto
  <2>2. UNCHANGED <<proc, wait, pipe, redirect>>
    BY <1>4 DEF CallbackComplete
  <2> QED
    BY <2>1, <2>2 DEF EndedIsOver, NotAhead, Over
<1>5. CASE MoveCompletedCommand(c)
  <2>1. \A d \in Commands : pc'[d] \in {"complete", "move"} => pc[d] \in {"complete", "move"}
    BY <1>1, <1>2, <1>5 DEF MoveCompletedCommand, Goto
  <2> QED
    BY <1>5, <2>1 DEF MoveCompletedCommand, EndedIsOver, NotAhead, Over, cmdVars
<1> QED
  BY <1>3, <1>4, <1>5

\* The invariant is inductive.
LEMMA WholeStep == WholeInv /\ [Next]_vars => WholeInv'
<1> SUFFICES ASSUME WholeInv, [Next]_vars PROVE WholeInv'
  OBVIOUS
<1>1. TypeInv' /\ OnePlace'
  BY TypeStep, OnePlaceStep DEF WholeInv
<1>2. CASE Environment
  <2>1. UNCHANGED <<pc, wait, status, redirect>>
    BY <1>2 DEF Environment, SendDone, RefreshTimer, OneShot, SendExecute, LimitReached,
       ProcessExits, PipeIO, cmdVars
  <2>2. \A c \in Commands : /\ proc[c] = "exited" => proc'[c] = "exited"
                            /\ pipe[c] <= pipe'[c]
    <3>1. /\ proc \in [Commands -> {"none", "live", "exited"}]
          /\ pipe \in [Commands -> 0 .. PipeClosed] /\ PipeClosed \in Nat
      BY DEF WholeInv, TypeInv, TypeOK, PipeClosed
    <3>2. ASSUME NEW d \in Commands, ProcessExits(d) \/ PipeIO(d)
          PROVE  \A c \in Commands : /\ proc[c] = "exited" => proc'[c] = "exited"
                                    /\ pipe[c] <= pipe'[c]
      BY <3>1, <3>2 DEF ProcessExits, PipeIO
    <3>3. CASE UNCHANGED <<proc, pipe>>
      BY <3>1, <3>3
    <3> QED
      BY <1>2, <3>2, <3>3 DEF Environment, SendDone, RefreshTimer, OneShot, SendExecute,
         LimitReached
  <2>3. \A c \in Commands : redirect[c] \in Int /\ pipe[c] \in Int /\ pipe'[c] \in Int
    BY <1>1 DEF WholeInv, TypeInv, TypeOK
  <2> QED
    BY <1>1, <2>1, <2>2, <2>3 DEF WholeInv, EndedIsOver, NotAhead, Over
<1>3. CASE UNCHANGED vars
  BY <1>1, <1>3 DEF WholeInv, EndedIsOver, NotAhead, Over, vars, cmdVars
<1> QED
  BY <1>1, <1>2, <1>3, NextByActor, ExecuteKeepsOver, AgentKeepsOver, CallbackKeepsOver DEF WholeInv

\* The agent starts with no command launched, none archived.
LEMMA InitWholeInv == Init => WholeInv
<1> SUFFICES ASSUME Init PROVE WholeInv
  OBVIOUS
<1>1. TypeInv /\ OnePlace
  BY InitPermitInv DEF PermitInv
<1>2. EndedIsOver /\ NotAhead
  BY ThreadsAssumption DEF Init, EndedIsOver, NotAhead, Threads, Initialized, Complete,
     PipeCreated, PipeClosed
<1> QED
  BY <1>1, <1>2 DEF WholeInv

\* What a refresh archives is whole: the process has exited and no read of its redirections
\* is pending, although the status of these is one remembered from an earlier look and the
\* output may be read on after the process has ended.
THEOREM ArchivesWhole == Spec => ArchivedWhole
<1> DEFINE Step == \A c \in Commands :
       archived'[c] > archived[c] => proc[c] = "exited" /\ pipe[c] >= PipeComplete
<1>1. WholeInv /\ [Next]_vars => [Step]_vars
  <2> SUFFICES ASSUME WholeInv, Next, NEW c \in Commands, archived'[c] > archived[c]
               PROVE  proc[c] = "exited" /\ pipe[c] >= PipeComplete
    OBVIOUS
  <2>1. archived[c] \in Nat
    BY DEF WholeInv, TypeInv, TypeOK
  <2>2. archived' # archived
    BY <2>1
  <2>3. AgentRefresh
    BY <2>2 DEF Next, Environment, SendDone, RefreshTimer, OneShot, SendExecute, LimitReached,
       ProcessExits, PipeIO, AgentStep, AgentSetup, AgentExecute, AgentTerminateAll, AgentKill,
       AgentCancel, AgentDone, AgentCheckRunning, AgentCheckQueue, AgentTerminate, CallbackStep,
       CallbackRelease, CallbackComplete, MoveCompletedCommand, ExecuteNextCommand, TryAcquire,
       UndoAcquire, PopCommand, NothingQueued, SkipNull, Launch, LaunchFails, ReleaseFailed,
       PushRunning, RegisterWait, Finished, vars, cmdVars
  <2>4. HasCompleted(c)
    BY <2>1, <2>3 DEF AgentRefresh, CompleteExecution
  <2>5. pipe[c] \in Int /\ redirect[c] \in Int
    BY DEF WholeInv, TypeInv, TypeOK
  <2> QED
    BY <2>4, <2>5 DEF HasCompleted, WholeInv, EndedIsOver, NotAhead, Over, PipeComplete
<1> QED
  BY <1>1, InitWholeInv, WholeStep, PTL DEF Spec, ArchivedWhole

-----------------------------------------------------------------------------
(* Where a command is.  Every step that takes a command out of a place puts it into
   another; the sets make it a matter of who moves which one. *)
Carried == {cmd[t] : t \in {u \in Threads : pc[u] \in {"launch", "push", "dead"}}}
ArchivedOnes == {c \in Commands : archived[c] > 0}
Somewhere == toSubmit \cup running \cup completed \cup discarded \cup ArchivedOnes
               \cup Elems(submitted) \cup Elems(queue) \cup Carried

\* NoCommandForgotten as one inclusion, which a step keeps when no place loses a command.
LEMMA SomewhereMeans == NoCommandForgotten <=> Commands \subseteq Somewhere
BY DEF NoCommandForgotten, Somewhere, Carried, ArchivedOnes, Elems

\* A step of a thread that was not carrying a command, or goes on doing so.
LEMMA CarriedKept ==
  ASSUME TypeInv, NEW t \in Threads, NEW s, Goto(t, s) \/ Release(t, s), UNCHANGED cmd,
         pc[t] \in {"launch", "push", "dead"} => s = "push"
  PROVE  Carried \subseteq Carried'
<1>1. pc \in [Threads -> Steps]
  BY DEF TypeInv, TypeOK
<1>2. ASSUME NEW u \in Threads, pc[u] \in {"launch", "push", "dead"}
      PROVE  pc'[u] \in {"launch", "push", "dead"}
  BY <1>1, <1>2 DEF Goto, Release, Dead
<1> QED
  BY <1>2 DEF Carried

\* A thread that lets go of its command.
LEMMA CarriedGone ==
  ASSUME TypeInv, NEW t \in Threads, NEW s, Goto(t, s) \/ Release(t, s), UNCHANGED cmd
  PROVE  Carried \subseteq Carried' \cup {cmd[t]}
<1>1. pc \in [Threads -> Steps]
  BY DEF TypeInv, TypeOK
<1>2. ASSUME NEW u \in Threads \ {t}, pc[u] \in {"launch", "push", "dead"}
      PROVE  pc'[u] \in {"launch", "push", "dead"}
  BY <1>1, <1>2 DEF Goto, Release, Dead
<1> QED
  BY <1>2 DEF Carried

\* No step of ExecuteNextCommand forgets a command.
LEMMA ExecuteForgetsNone ==
  ASSUME TypeInv, OnePlace, NEW t \in Threads, ExecuteNextCommand(t)
  PROVE  Somewhere \subseteq Somewhere'
<1> USE DEF Somewhere, mailVars, listVars, cmdVars
<1>0. ASSUME UNCHANGED <<archived, submitted>>
      PROVE  UNCHANGED <<ArchivedOnes, Elems(submitted)>>
  BY <1>0 DEF ArchivedOnes, Elems
<1>1. CASE TryAcquire(t) \/ UndoAcquire(t) \/ NothingQueued(t) \/ ReleaseFailed(t)
  <2>1. Carried \subseteq Carried'
    BY <1>1, CarriedKept DEF TryAcquire, UndoAcquire, NothingQueued, ReleaseFailed, Return
  <2> QED
    BY <1>0, <1>1, <2>1 DEF TryAcquire, UndoAcquire, NothingQueued, ReleaseFailed, Elems
<1>2. CASE PopCommand(t)
  <2>1. CASE queue = <<>>
    <3>1. Carried \subseteq Carried'
      BY <1>2, <2>1, CarriedKept DEF PopCommand
    <3> QED
      BY <1>0, <1>2, <2>1, <3>1 DEF PopCommand, Elems
  <2>2. CASE queue # <<>>
    <3>1. pc \in [Threads -> Steps] /\ cmd \in [Threads -> Commands \cup {NoCommand}]
          /\ queue \in Seq(Commands)
      BY DEF TypeInv, TypeOK
    <3>2. Elems(Tail(queue)) = Elems(queue) \ {Head(queue)}
      BY <2>2, <3>1, TailElems DEF OnePlace
    <3>3. Carried \cup {Head(queue)} \subseteq Carried'
      BY <1>2, <2>2, <3>1 DEF PopCommand, Goto, Carried
    <3>4. Elems(queue)' = Elems(queue) \ {Head(queue)}
      BY <1>2, <2>2, <3>2 DEF PopCommand, Elems
    <3> QED
      BY <1>0, <1>2, <3>3, <3>4 DEF PopCommand
  <2> QED
    BY <2>1, <2>2
<1>3. CASE SkipNull(t) \/ LaunchFails(t)
  <2>1. Carried \subseteq Carried' \cup {cmd[t]} /\ cmd[t] \in discarded'
    BY <1>3, CarriedGone DEF SkipNull, LaunchFails, Return
  <2> QED
    BY <1>0, <1>3, <2>1 DEF SkipNull, LaunchFails, Elems
<1>4. CASE Launch(t)
  <2>1. Carried \subseteq Carried'
    BY <1>4, CarriedKept DEF Launch
  <2> QED
    BY <1>0, <1>4, <2>1 DEF Launch, Elems
<1>5. CASE PushRunning(t)
  <2>1. Carried \subseteq Carried' \cup {cmd[t]} /\ cmd[t] \in running'
    BY <1>5, CarriedGone DEF PushRunning
  <2> QED
    BY <1>0, <1>5, <2>1 DEF PushRunning, Elems
<1>6. CASE RegisterWait(t)
  <2>1. Carried \subseteq Carried'
    BY <1>6, CarriedKept DEF RegisterWait, Return
  <2> QED
    BY <1>0, <1>6, <2>1 DEF RegisterWait, Elems
<1> QED
  BY <1>1, <1>2, <1>3, <1>4, <1>5, <1>6 DEF ExecuteNextCommand

\* CommandAgent::run moves commands into the queue, rejects, drains or archives them.
LEMMA AgentForgetsNone ==
  ASSUME TypeInv, OnePlace, AgentLoop
  PROVE  Somewhere \subseteq Somewhere'
<1> USE DEF Somewhere, mailVars, listVars, cmdVars
<1>0. Agent \in Threads /\ submitted \in Seq(Commands) /\ queue \in Seq(Commands)
      /\ pc \in [Threads -> Steps] /\ archived \in [Commands -> Nat]
  BY DEF Threads, TypeInv, TypeOK
<1>1. Carried \subseteq Carried'
  <2>1. /\ UNCHANGED cmd /\ pc[Agent] \notin {"launch", "push", "dead"}
        /\ pc' = Dead \/ \E s : Goto(Agent, s)
    BY DEF AgentLoop, AgentSetup, AgentExecute, AgentRefresh, AgentTerminateAll, AgentKill,
       AgentCancel, AgentDone, AgentCheckRunning, AgentCheckQueue, AgentTerminate, Receive, Goto
  <2>2. CASE pc' = Dead
    BY <2>1, <2>2 DEF Dead, Carried
  <2>3. ASSUME NEW s, Goto(Agent, s) PROVE Carried \subseteq Carried'
    BY <1>0, <2>1, <2>3, CarriedKept
  <2> QED
    BY <2>1, <2>2, <2>3
<1>2. CASE AgentExecute
  <2> DEFINE h == Head(submitted)
  <2>1. submitted # <<>> /\ h \in Commands /\ submitted' = Tail(submitted)
    BY <1>0, <1>2 DEF AgentExecute
  <2>2. Elems(Tail(submitted)) = Elems(submitted) \ {h}
    BY <1>0, <2>1, TailElems DEF OnePlace
  <2>3. Elems(Append(queue, h)) = Elems(queue) \cup {h}
    BY <1>0, <2>1, AppendElems
  <2>4. \/ h \in discarded' /\ discarded \subseteq discarded' /\ queue' = queue
        \/ discarded' = discarded /\ queue' = Append(queue, h)
    BY <1>2 DEF AgentExecute
  <2>5. UNCHANGED <<toSubmit, running, completed, archived>>
    BY <1>2 DEF AgentExecute
  <2> HIDE DEF h
  <2>6. Elems(submitted)' = Elems(submitted) \ {h}
    BY <2>1, <2>2 DEF Elems
  <2>7. Elems(queue)' = Elems(queue) \/ Elems(queue)' = Elems(queue) \cup {h}
    BY <2>3, <2>4 DEF Elems
  <2>8. Elems(queue) \subseteq Elems(queue)' /\ (h \in discarded' \/ h \in Elems(queue)')
    BY <2>3, <2>4, <2>7 DEF Elems
  <2> QED
    BY <1>1, <2>4, <2>5, <2>6, <2>8 DEF ArchivedOnes
<1>3. CASE AgentRefresh
  <2> DEFINE ready == {c \in running \cup completed : HasCompleted(c)}
  <2>1. /\ running' = running \ ready
        /\ archived' = [c \in Commands |-> IF c \in ready THEN archived[c] + 1 ELSE archived[c]]
        /\ UNCHANGED <<toSubmit, submitted, queue, completed, discarded>>
    BY <1>3 DEF AgentRefresh, CompleteExecution
  <2>2. ready \subseteq Commands
    BY DEF TypeInv, TypeOK
  <2> HIDE DEF ready
  <2>3. ArchivedOnes \cup ready \subseteq ArchivedOnes'
    BY <1>0, <2>1, <2>2 DEF ArchivedOnes
  <2>4. UNCHANGED <<Elems(submitted), Elems(queue)>>
    BY <2>1 DEF Elems
  <2> QED
    BY <1>1, <2>1, <2>3, <2>4
<1>4. CASE AgentTerminateAll \/ AgentCancel
  <2>1. Elems(queue) \cup discarded \subseteq discarded'
    BY <1>4 DEF AgentTerminateAll, AgentCancel, Drain, Elems
  <2> QED
    BY <1>1, <1>4, <2>1 DEF AgentTerminateAll, AgentCancel, Elems, ArchivedOnes
<1>5. CASE UNCHANGED <<toSubmit, running, completed, discarded, archived, submitted, queue>>
  BY <1>1, <1>5 DEF Elems, ArchivedOnes
<1> QED
  BY <1>2, <1>3, <1>4, <1>5 DEF AgentLoop, AgentSetup, AgentKill, AgentDone, AgentCheckRunning,
     AgentCheckQueue, AgentTerminate

\* Nor does the environment, nor a callback.
LEMMA OthersForgetNone ==
  ASSUME TypeInv, OnePlace,
         Environment \/ \E c \in Commands : CallbackRelease(c) \/ CallbackComplete(c)
                                            \/ MoveCompletedCommand(c)
  PROVE  Somewhere \subseteq Somewhere'
<1> USE DEF Somewhere, mailVars, listVars, cmdVars
<1>1. ASSUME NEW c \in Commands, SendExecute(c) PROVE Somewhere \subseteq Somewhere'
  <2>1. submitted \in Seq(Commands)
    BY DEF TypeInv, TypeOK
  <2>2. Elems(Append(submitted, c)) = Elems(submitted) \cup {c}
    BY <2>1, AppendElems
  <2>3. Elems(submitted)' = Elems(submitted) \cup {c}
    BY <1>1, <2>2 DEF SendExecute, Elems
  <2>4. UNCHANGED <<Elems(queue), Carried, ArchivedOnes>>
    BY <1>1 DEF SendExecute, Elems, Carried, ArchivedOnes
  <2> QED
    BY <1>1, <2>3, <2>4 DEF SendExecute
<1>2. ASSUME UNCHANGED <<toSubmit, running, completed, discarded, archived, submitted, queue,
                         cmd, pc>>
      PROVE  Somewhere \subseteq Somewhere'
  BY <1>2 DEF Elems, Carried, ArchivedOnes
<1>3. CASE Environment
  BY <1>1, <1>2, <1>3 DEF Environment, SendDone, RefreshTimer, OneShot, LimitReached,
     ProcessExits, PipeIO
<1>4. ASSUME NEW c \in Commands,
             CallbackRelease(c) \/ CallbackComplete(c) \/ MoveCompletedCommand(c)
      PROVE  Somewhere \subseteq Somewhere'
  <2>1. c \in Threads /\ pc[c] \notin {"launch", "push", "dead"}
    BY <1>4 DEF Threads, CallbackRelease, CallbackComplete, MoveCompletedCommand
  <2>2. Carried \subseteq Carried'
    BY <1>4, <2>1, CarriedKept DEF CallbackRelease, CallbackComplete, MoveCompletedCommand
  <2>3. running \cup completed \subseteq running' \cup completed'
    BY <1>4 DEF CallbackRelease, CallbackComplete, MoveCompletedCommand
  <2> QED
    BY <1>4, <2>2, <2>3 DEF CallbackRelease, CallbackComplete, MoveCompletedCommand, Elems,
       ArchivedOnes
<1> QED
  BY <1>3, <1>4

\* No command sent to the agent is forgotten: it is still to be received, queued, in the
\* hands of a thread, in one of the two lists, archived, or was given up.
THEOREM NothingForgotten == Spec => []NoCommandForgotten
<1> DEFINE Inv == WholeInv /\ NoCommandForgotten
<1>1. Init => Inv
  <2>1. Init => NoCommandForgotten
    BY DEF Init, NoCommandForgotten
  <2> QED
    BY <2>1, InitWholeInv
<1>2. Inv /\ [Next]_vars => Inv'
  <2> SUFFICES ASSUME WholeInv, NoCommandForgotten, [Next]_vars PROVE Inv'
    OBVIOUS
  <2>1. WholeInv'
    BY WholeStep
  <2>2. Somewhere \subseteq Somewhere'
    <3>1. CASE UNCHANGED vars
      BY <3>1 DEF vars, mailVars, listVars, cmdVars, Somewhere, Carried, ArchivedOnes, Elems
    <3> QED
      BY <3>1, NextByActor, ExecuteForgetsNone, AgentForgetsNone, OthersForgetNone DEF WholeInv
  <2>3. Commands \subseteq Somewhere'
    BY <2>2, SomewhereMeans
  <2>4. NoCommandForgotten'
    BY <2>3 DEF NoCommandForgotten, Somewhere, Carried, ArchivedOnes, Elems
  <2> QED
    BY <2>1, <2>4
<1> QED
  BY <1>1, <1>2, PTL DEF Spec

-----------------------------------------------------------------------------
(* What may still run when the agent is done.  A callback calls ExecuteNextCommand once, so
   the command it has popped remains its own. *)
Called(c) == \E t \in Commands : cmd[t] = c
NotCalledYet ==
  \A t \in Commands :
    pc[t] \in {"idle", "complete", "move", "acquire", "pop"} => cmd[t] = NoCommand
InSight(c) == c \in running \/ (cmd[Agent] = c /\ pc[Agent] \in {"push", "dead"})
LaunchedBy ==
  \A c \in Live : Called(c) \/ (InSight(c) /\ pc[Agent] \notin {"setup", "check2", "done"})

DoneInv == WholeInv /\ NotCalledYet /\ LaunchedBy

\* A step that launches nothing and takes no live command out of sight.
LEMMA LaunchedByKept ==
  ASSUME LaunchedBy, Live' \subseteq Live,
         \A c \in Live' : Called(c) => Called(c)',
         \A c \in Live' : InSight(c) => InSight(c)',
         pc'[Agent] \in {"setup", "check2", "done"} => pc[Agent] \in {"setup", "check2", "done"}
  PROVE  LaunchedBy'
BY DEF LaunchedBy

\* The steps of ExecuteNextCommand: the agent's launches stay in its sight.
LEMMA ExecuteLaunches ==
  ASSUME DoneInv, NEW t \in Threads, ExecuteNextCommand(t)
  PROVE  NotCalledYet' /\ LaunchedBy'
<1> USE DEF DoneInv, WholeInv, mailVars, listVars, cmdVars
<1>0. /\ Agent \in Threads /\ Agent \notin Commands /\ Commands \subseteq Threads
      /\ NoCommand \notin Commands
      /\ pc \in [Threads -> Steps] /\ cmd \in [Threads -> Commands \cup {NoCommand}]
      /\ proc \in [Commands -> {"none", "live", "exited"}]
  BY ThreadsAssumption DEF Threads, TypeInv, TypeOK
<1>1. ASSUME NEW s, Goto(t, s) \/ Release(t, s), UNCHANGED <<cmd, proc>>,
             s \notin {"idle", "complete", "move", "acquire", "pop"} \/ pc[t] = "acquire",
             pc[t] \notin {"push", "dead"}, UNCHANGED running,
             s \notin {"setup", "check2", "done"}
      PROVE  NotCalledYet' /\ LaunchedBy'
  <2>1. NotCalledYet'
    BY <1>0, <1>1 DEF NotCalledYet, Goto, Release, Dead
  <2>2. pc'[Agent] \in {"setup", "check2", "done"} => pc[Agent] \in {"setup", "check2", "done"}
    BY <1>0, <1>1 DEF Goto, Release, Dead
  <2>3. \A c \in Live' : InSight(c) => InSight(c)'
    BY <1>0, <1>1 DEF InSight, Goto, Release, Dead
  <2> QED
    BY <1>1, <2>1, <2>2, <2>3, LaunchedByKept DEF Live, Called
<1>2. Caller(t) \notin {"idle", "complete", "move", "acquire", "pop", "setup", "check2", "done"}
  BY DEF Caller
<1>3. CASE TryAcquire(t)
  BY <1>1, <1>3 DEF TryAcquire
<1>4. CASE UndoAcquire(t) \/ NothingQueued(t) \/ SkipNull(t) \/ ReleaseFailed(t) \/ RegisterWait(t)
  BY <1>1, <1>2, <1>4 DEF UndoAcquire, NothingQueued, SkipNull, ReleaseFailed, RegisterWait, Return
<1>5. CASE LaunchFails(t)
  BY <1>1, <1>5 DEF LaunchFails
<1>6. CASE PopCommand(t)
  <2>1. CASE queue = <<>>
    BY <1>1, <1>6, <2>1 DEF PopCommand
  <2>2. CASE queue # <<>>
    <3>1. /\ pc[t] = "pop" /\ pc' = [pc EXCEPT ![t] = "launch"] /\ UNCHANGED <<proc, running>>
          /\ cmd' = [cmd EXCEPT ![t] = Head(queue)]
      BY <1>6, <2>2 DEF PopCommand, Goto
    <3>2. NotCalledYet'
      BY <1>0, <3>1 DEF NotCalledYet
    <3>3. \A c \in Commands : Called(c) => Called(c)'
      BY <1>0, <3>1 DEF NotCalledYet, Called
    <3>4. \A c \in Commands : InSight(c) => InSight(c)'
      BY <1>0, <3>1 DEF InSight
    <3> QED
      BY <1>0, <3>1, <3>2, <3>3, <3>4, LaunchedByKept DEF Live
  <2> QED
    BY <2>1, <2>2
<1>7. CASE Launch(t)
  <2>1. /\ pc[t] = "launch" /\ pc' = [pc EXCEPT ![t] = "push"] /\ UNCHANGED <<cmd, running>>
        /\ cmd[t] \in Commands /\ Live' = Live \cup {cmd[t]}
    BY <1>0, <1>7 DEF Launch, Goto, Live
  <2>2. NotCalledYet'
    BY <1>0, <2>1 DEF NotCalledYet
  <2>3. pc'[t] = "push" /\ \A u \in Threads \ {t} : pc'[u] = pc[u]
    BY <1>0, <2>1
  <2>4. \A c \in Live : Called(c) => Called(c)'
    BY <2>1 DEF Called
  <2>5. CASE t = Agent
    <3>1. \A c \in Live' : Called(c)' \/ InSight(c)'
      BY <2>1, <2>3, <2>4, <2>5 DEF LaunchedBy, InSight
    <3> QED
      BY <2>2, <2>3, <2>5, <3>1 DEF LaunchedBy
  <2>6. CASE t \in Commands
    <3>1. Called(cmd[t])'
      BY <2>1, <2>6 DEF Called
    <3>2. pc'[Agent] = pc[Agent] /\ cmd' = cmd /\ running' = running
      BY <1>0, <2>1, <2>3, <2>6
    <3>3. \A c \in Live : InSight(c) => InSight(c)'
      BY <3>2 DEF InSight
    <3> QED
      BY <2>1, <2>2, <2>4, <3>1, <3>2, <3>3 DEF LaunchedBy
  <2> QED
    BY <2>2, <2>5, <2>6 DEF Threads
<1>8. CASE PushRunning(t)
  <2>1. /\ pc[t] = "push" /\ pc' = [pc EXCEPT ![t] = "register"] /\ UNCHANGED <<cmd, proc>>
        /\ running' = running \cup {cmd[t]}
    BY <1>8 DEF PushRunning, Goto
  <2>2. NotCalledYet'
    BY <1>0, <2>1 DEF NotCalledYet
  <2>3. pc'[t] = "register" /\ \A u \in Threads \ {t} : pc'[u] = pc[u]
    BY <1>0, <2>1
  <2>4. \A c \in Commands : InSight(c) => InSight(c)'
    <3>1. CASE t = Agent
      BY <2>1, <3>1 DEF InSight
    <3>2. CASE t # Agent
      BY <1>0, <2>1, <2>3, <3>2 DEF InSight
    <3> QED
      BY <3>1, <3>2
  <2>5. pc'[Agent] \in {"setup", "check2", "done"} => pc[Agent] \in {"setup", "check2", "done"}
    BY <1>0, <2>3
  <2>6. Live' = Live /\ Live \subseteq Commands /\ \A c \in Live : Called(c) => Called(c)'
    BY <2>1 DEF Live, Called
  <2> QED
    BY <2>2, <2>4, <2>5, <2>6, LaunchedByKept
<1> QED
  BY <1>3, <1>4, <1>5, <1>6, <1>7, <1>8 DEF ExecuteNextCommand

\* The other steps: a command leaves the running list when its process is over.
LEMMA OthersLaunchNothing ==
  ASSUME DoneInv,
         \/ Environment \/ AgentLoop
         \/ \E c \in Commands : CallbackRelease(c) \/ CallbackComplete(c) \/ MoveCompletedCommand(c)
  PROVE  NotCalledYet' /\ LaunchedBy'
<1> USE DEF DoneInv, WholeInv, mailVars, listVars, cmdVars
<1>0. /\ Agent \in Threads /\ Agent \notin Commands /\ Commands \subseteq Threads
      /\ pc \in [Threads -> Steps] /\ proc \in [Commands -> {"none", "live", "exited"}]
      /\ Live \subseteq Commands /\ Live' \subseteq Commands
  BY ThreadsAssumption DEF Threads, TypeInv, TypeOK, Live
<1>1. CASE Environment
  <2>1. UNCHANGED <<pc, cmd, running>>
    BY <1>1 DEF Environment, SendDone, RefreshTimer, OneShot, SendExecute, LimitReached,
       ProcessExits, PipeIO
  <2>2. Live' \subseteq Live
    <3>1. ASSUME NEW c \in Commands, ProcessExits(c) PROVE Live' \subseteq Live
      BY <1>0, <3>1 DEF ProcessExits, Live
    <3> QED
      BY <1>1, <3>1 DEF Environment, SendDone, RefreshTimer, OneShot, SendExecute, LimitReached,
         PipeIO, Live
  <2> QED
    BY <2>1, <2>2, LaunchedByKept DEF NotCalledYet, Called, InSight
<1>2. ASSUME NEW c \in Commands,
             CallbackRelease(c) \/ CallbackComplete(c) \/ MoveCompletedCommand(c)
      PROVE  NotCalledYet' /\ LaunchedBy'
  <2>1. UNCHANGED <<cmd, proc>>
    BY <1>2 DEF CallbackRelease, CallbackComplete, MoveCompletedCommand
  <2>2. /\ pc[c] \in {"idle", "complete", "move"}
        /\ pc' = Dead \/ \E s \in {"complete", "move", "acquire"} : Goto(c, s)
    BY <1>2 DEF CallbackRelease, CallbackComplete, MoveCompletedCommand, Release, Goto
  <2>3. NotCalledYet'
    BY <1>0, <2>1, <2>2 DEF NotCalledYet, Goto, Dead
  <2>4. pc'[Agent] = pc[Agent] \/ pc'[Agent] = "dead"
    BY <1>0, <2>2 DEF Goto, Dead
  <2>5. \A d \in Live : d \in running => d \in running'
    <3>1. CASE MoveCompletedCommand(c)
      <4>1. c \notin Live
        BY <3>1 DEF MoveCompletedCommand, EndedIsOver, Over, Live
      <4> QED
        BY <3>1, <4>1 DEF MoveCompletedCommand
    <3> QED
      BY <1>2, <3>1 DEF CallbackRelease, CallbackComplete
  <2> QED
    BY <2>1, <2>3, <2>4, <2>5, LaunchedByKept DEF Live, Called, InSight
<1>3. CASE AgentLoop
  <2>1. UNCHANGED cmd /\ pc[Agent] \notin {"push", "dead"}
    BY <1>3 DEF AgentLoop, AgentSetup, AgentExecute, AgentRefresh, AgentTerminateAll, AgentKill,
       AgentCancel, AgentDone, AgentCheckRunning, AgentCheckQueue, AgentTerminate, Receive
  <2>2. pc' = Dead \/ \E s : Goto(Agent, s)
    BY <1>3 DEF AgentLoop, AgentSetup, AgentExecute, AgentRefresh, AgentTerminateAll, AgentKill,
       AgentCancel, AgentDone, AgentCheckRunning, AgentCheckQueue, AgentTerminate
  <2>3. NotCalledYet'
    BY <1>0, <2>1, <2>2 DEF NotCalledYet, Goto, Dead
  <2>4. Live' \subseteq Live
    <3>1. CASE AgentKill \/ \E c \in Commands : AgentTerminate(c)
      BY <1>0, <3>1 DEF AgentKill, AgentTerminate, Live
    <3> QED
      BY <1>3, <3>1 DEF AgentLoop, AgentSetup, AgentExecute, AgentRefresh, AgentTerminateAll,
         AgentCancel, AgentDone, AgentCheckRunning, AgentCheckQueue, Live
  <2>5. \A c \in Live : c \in running => c \in running'
    <3>1. CASE AgentRefresh
      <4>1. \A c \in Live : ~HasCompleted(c)
        BY DEF HasCompleted, EndedIsOver, Over, Live
      <4> QED
        BY <3>1, <4>1 DEF AgentRefresh
    <3> QED
      BY <1>3, <3>1 DEF AgentLoop, AgentSetup, AgentExecute, AgentTerminateAll, AgentKill,
         AgentCancel, AgentDone, AgentCheckRunning, AgentCheckQueue, AgentTerminate
  <2>6. \A c \in Live : Called(c) => Called(c)'
    BY <2>1 DEF Called
  <2>7. CASE AgentCheckRunning
    <3>1. UNCHANGED <<proc, cmd, running>> /\ pc[Agent] = "check"
      BY <2>7 DEF AgentCheckRunning
    <3>2. pc'[Agent] \in {"check2", "receive"} /\ (pc'[Agent] = "check2" => running = {})
      BY <1>0, <2>7 DEF AgentCheckRunning, Goto
    <3>3. ASSUME pc'[Agent] = "check2" PROVE \A c \in Live' : Called(c)'
      <4>1. running = {} /\ \A c \in Live : ~InSight(c)
        BY <3>1, <3>2, <3>3 DEF InSight
      <4> QED
        BY <2>4, <2>6, <4>1 DEF LaunchedBy
    <3>4. CASE pc'[Agent] = "receive"
      BY <2>1, <2>3, <2>4, <2>5, <2>6, <3>4, LaunchedByKept DEF InSight
    <3> QED
      BY <2>3, <3>2, <3>3, <3>4 DEF LaunchedBy
  <2>8. CASE ~AgentCheckRunning
    <3>1. pc'[Agent] \in {"setup", "check2", "done"} => pc[Agent] \in {"setup", "check2", "done"}
      BY <1>0, <1>3, <2>8 DEF AgentLoop, AgentSetup, AgentExecute, AgentRefresh, AgentTerminateAll,
         AgentKill, AgentCancel, AgentDone, AgentCheckQueue, AgentTerminate, Goto, Dead
    <3> QED
      BY <2>1, <2>3, <2>4, <2>5, <2>6, <3>1, LaunchedByKept DEF InSight
  <2> QED
    BY <2>7, <2>8
<1> QED
  BY <1>1, <1>2, <1>3

\* A child that still runs when the agent is done was launched by a callback: neither the
\* refusal of the setup nor the unlocked exit test lets go of a child the agent launched.
THEOREM OnlyCallbackLaunchesLeft == Spec => []DoneLeavesOnlyCallbackLaunches
<1>1. Init => DoneInv
  <2> SUFFICES ASSUME Init PROVE NotCalledYet /\ LaunchedBy
    BY InitWholeInv DEF DoneInv
  <2> QED
    BY DEF Init, NotCalledYet, LaunchedBy, Live, Threads
<1>2. DoneInv /\ [Next]_vars => DoneInv'
  <2> SUFFICES ASSUME DoneInv, [Next]_vars PROVE DoneInv'
    OBVIOUS
  <2>1. WholeInv'
    BY WholeStep DEF DoneInv
  <2>2. CASE UNCHANGED vars
    BY <2>1, <2>2 DEF DoneInv, NotCalledYet, LaunchedBy, Called, InSight, Live, vars, listVars
  <2> QED
    BY <2>1, <2>2, NextByActor, ExecuteLaunches, OthersLaunchNothing DEF DoneInv
<1>3. DoneInv => DoneLeavesOnlyCallbackLaunches
  BY DEF DoneInv, LaunchedBy, DoneLeavesOnlyCallbackLaunches, Called
<1> QED
  BY <1>1, <1>2, <1>3, PTL DEF Spec
=============================================================================
