---------------------------- MODULE WolfLauncher ----------------------------
(***************************************************************************)
(* One execution of WolfLauncher, from the creation of its agents to the   *)
(* exit of the process (OrcCommand/WolfExecution_Execute.cpp,              *)
(* WolfLauncher_Run.cpp): the main thread creates an archive agent         *)
(* (ArchiveAgent) and a command agent, sends the commands, waits, has the  *)
(* archive completed and uploaded (UploadAgent), while a console event may *)
(* have another thread call the termination handlers (Robustness) and end  *)
(* the process.                                                            *)
(*                                                                         *)
(* Of the command agent only what the others see is kept: it takes its     *)
(* messages by rank, has what a command leaves archived, and is done once  *)
(* Done is read and nothing is left (CommandAgent has the rest).           *)
(***************************************************************************)
EXTENDS ArchiveAgent, UploadAgent

CONSTANTS
  Commands,            \* the commands, in the order they are sent
  Stats,               \* the statistics of the execution, a file
  CommandHandler,      \* CommandTerminationHandler
  WolfHandler,         \* WOLFExecutionTerminate
  Archive,             \* the archive, a file to upload
  TimeOuts,            \* the waits that may be given up, out of AllTimeOuts
  Main, Console        \* the threads

AllTimeOuts == {"engine", "killed", "destroyed", "archived", "handler"}

\* A command leaves one file of its name, whose handler has its name too.
ASSUME LauncherAssumption ==
  /\ Commands \in Seq(Files \ {Stats}) /\ Stats \in Files /\ Dirs = {}
  /\ {CommandHandler, WolfHandler} \cup Files \subseteq Handlers
  /\ CommandHandler # WolfHandler /\ {CommandHandler, WolfHandler} \cap Files = {}
  /\ Archive \in Uploads /\ TimeOuts \subseteq AllTimeOuts
  /\ Threads = {Main, Console} /\ Main # Console

\* ROBUSTNESS_COMMAND, ROBUSTNESS_ARCHIVE and ROBUSTNESS_TEMPFILE: the commands
\* are killed first, and the outputs deleted last.
ASSUME PriorityAssumption ==
  /\ Priority[CommandHandler] > Priority[WolfHandler]
  /\ \A f \in Files : Priority[WolfHandler] > Priority[f]

VARIABLES
  pc,            \* what the main thread does next
  again,         \* CompleteArchive is called once more, after an exception
  cmd,           \* each command, for the command agent
  engine,        \* the command agent: "created", "running", "stopping", "done"
  killAsked,     \* a TerminateAll message waits
  doneAsked,     \* a Done message waits
  waits,         \* the threads that wait inside a termination handler
  exited         \* how the process ended: "no" while it has not

mainVars == <<pc, again>>
engineVars == <<cmd, engine, killAsked, doneAsked>>

\* History: a wait timed out; the command agent was not started or an exception
\* was raised; the console thread found the handler that completes the archive;
\* the outputs that exist or existed.
VARIABLES late, refused, cabbing, produced

history == <<late, refused, cabbing, produced>>
vars == <<agentVars, robustVars, uploadVars, mainVars, engineVars, waits, exited, history>>

Names == {Commands[n] : n \in DOMAIN Commands}
Steps == {"archive", "agent", "init", "start", "enqueue", "done", "engine", "remove", "unload",
          "term", "killed", "stats", "archived", "upload", "next", "close", "uploads", "event",
          "destroy", "destroyed", "guard", "end"}

TypeOK ==
  /\ AgentTypeOK /\ RobustTypeOK /\ UploadTypeOK
  /\ pc \in Steps /\ again \in BOOLEAN
  /\ cmd \in [Names -> {"unsent", "sent", "queued", "running", "exited", "over"}]
  /\ engine \in {"created", "running", "stopping", "done"}
  /\ killAsked \in BOOLEAN /\ doneAsked \in BOOLEAN
  /\ waits \in [Threads -> BOOLEAN]
  /\ exited \in {"no", "main", "console", "undefined"}
  /\ late \in BOOLEAN /\ refused \in BOOLEAN /\ cabbing \in BOOLEAN
  /\ produced \subseteq Files

Init ==
  /\ AgentInit(<<>>) /\ RobustInit /\ UploadInit
  /\ disk = {Stats} /\ local = {Archive}
  /\ pc = "archive" /\ again = FALSE
  /\ cmd = [c \in Names |-> "unsent"] /\ engine = "created"
  /\ killAsked = FALSE /\ doneAsked = FALSE
  /\ waits = [t \in Threads |-> FALSE] /\ exited = "no"
  /\ late = FALSE /\ refused = FALSE /\ cabbing = FALSE /\ produced = {Stats}

-----------------------------------------------------------------------------
\* The archive messages of CompleteArchive, sent in one step: what another
\* thread sends between them could as well come first.
ArchiveRequests == (IF Stats \in disk THEN <<AddFile(Stats)>> ELSE <<>>) \o <<Complete>>

SameAgents == UNCHANGED <<archiving, compressor, pending, room, disk, doomed, answers>>
SameRobust == UNCHANGED <<terminateCalled, signaled, terminating, taken, waits>>

At(step) == pc = step
GoTo(step) == pc' = step

\* CreateArchiveAgent: the output file may not be there.
CreateArchiveAgent ==
  /\ At("archive")
  /\ \/ GoTo("agent") /\ Post(<<OpenArchive>>)
     \/ GoTo("next") /\ UNCHANGED inbox
  /\ SameAgents /\ SameRobust
  /\ UNCHANGED <<handlers, uploadVars, again, engineVars, history>>

\* CreateCommandAgent registers its handler, and the command agent its own.
CreateCommandAgent ==
  /\ \/ At("agent") /\ GoTo("init") /\ AddTerminationHandler(WolfHandler)
     \/ At("init") /\ GoTo("start") /\ AddTerminationHandler(CommandHandler)
  /\ UNCHANGED inbox /\ SameAgents /\ SameRobust
  /\ UNCHANGED <<uploadVars, again, engineVars, history>>

StartCommandAgent ==
  /\ At("start")
  /\ \/ GoTo("enqueue") /\ engine' = "running" /\ UNCHANGED refused
     \/ GoTo("stats") /\ refused' = TRUE /\ UNCHANGED engine
  /\ UNCHANGED <<agentVars, robustVars, waits, uploadVars, again>>
  /\ UNCHANGED <<cmd, killAsked, doneAsked, late, cabbing, produced>>

\* EnqueueCommands, one command after the other.
EnqueueCommand ==
  /\ At("enqueue")
  /\ LET unsent == {n \in DOMAIN Commands : cmd[Commands[n]] = "unsent"}
     IN IF unsent = {} THEN GoTo("done") /\ UNCHANGED cmd
        ELSE LET n == CHOOSE n \in unsent : \A k \in unsent : n <= k
             IN cmd' = [cmd EXCEPT ![Commands[n]] = "sent"] /\ UNCHANGED pc
  /\ UNCHANGED <<agentVars, robustVars, waits, uploadVars, again>>
  /\ UNCHANGED <<engine, killAsked, doneAsked, history>>

\* The catch block completes the archive, and so does the statement after it.
Throw ==
  /\ At("enqueue") /\ GoTo("term") /\ again' = TRUE /\ refused' = TRUE
  /\ UNCHANGED <<agentVars, robustVars, waits, uploadVars, engineVars, late, cabbing, produced>>

AskDone ==
  /\ At("done") /\ GoTo("engine") /\ doneAsked' = TRUE
  /\ UNCHANGED <<agentVars, robustVars, waits, uploadVars, again>>
  /\ UNCHANGED <<cmd, engine, killAsked, history>>

\* TerminateAllAndComplete, also called by the destructor.
AskTerminate ==
  /\ \/ At("term") /\ GoTo("killed")
     \/ At("destroy") /\ GoTo("destroyed")
  /\ killAsked' = TRUE /\ doneAsked' = TRUE
  /\ UNCHANGED <<agentVars, robustVars, waits, uploadVars, again, cmd, engine, history>>

\* The waits for the command agent, and what follows each.
EngineWaits == {<<"engine", "remove">>, <<"killed", "stats">>, <<"destroyed", "guard">>}

\* TerminateAllAndComplete removes the handler of the execution, and leaves
\* the one of the command agent.
CommandAgentEnded ==
  /\ engine = "done"
  /\ \E w \in EngineWaits : At(w[1]) /\ GoTo(w[2])
  /\ IF At("engine") THEN UNCHANGED handlers ELSE RemoveTerminationHandlers({WolfHandler})
  /\ UNCHANGED inbox /\ SameAgents /\ SameRobust
  /\ UNCHANGED <<uploadVars, again, engineVars, history>>

\* After a time-out CompleteExecution is followed by TerminateAllAndComplete.
CommandAgentTimesOut ==
  /\ \/ At("engine") /\ GoTo("term")
     \/ At("killed") /\ GoTo("stats")
     \/ At("destroyed") /\ GoTo("guard")
  /\ engine = "created" \/ (engine # "done" /\ pc \in TimeOuts)
  /\ late' = TRUE
  /\ UNCHANGED <<agentVars, robustVars, waits, uploadVars, again, engineVars>>
  /\ UNCHANGED <<refused, cabbing, produced>>

\* The end of CompleteExecution.
RemoveWolfHandler ==
  /\ At("remove") /\ GoTo("unload") /\ RemoveTerminationHandlers({WolfHandler})
  /\ UNCHANGED inbox /\ SameAgents /\ SameRobust
  /\ UNCHANGED <<uploadVars, again, engineVars, history>>

\* Mutant: the command agent is left as it is.
UnInitializeNothing ==
  /\ At("unload") /\ GoTo("stats")
  /\ UNCHANGED <<agentVars, robustVars, waits, uploadVars, again, engineVars, history>>

\* CommandAgent::UnInitialize.
UnInitializeCommandAgent ==
  /\ At("unload") /\ GoTo("stats") /\ RemoveTerminationHandlers({CommandHandler})
  /\ UNCHANGED inbox /\ SameAgents /\ SameRobust
  /\ UNCHANGED <<uploadVars, again, engineVars, history>>

\* CompleteArchive.
AskArchive ==
  /\ At("stats") /\ GoTo("archived") /\ Post(ArchiveRequests)
  /\ SameAgents
  /\ UNCHANGED <<robustVars, waits, uploadVars, again, engineVars, history>>

ArchiveEnded ==
  /\ At("archived") /\ GoTo("upload") /\ archiving # "running"
  /\ RemoveTerminationHandlers({WolfHandler})
  /\ UNCHANGED inbox /\ SameAgents /\ SameRobust
  /\ UNCHANGED <<uploadVars, again, engineVars, history>>

\* Mutant: the archive is uploaded all the same.
ArchiveTimesOutUploads ==
  /\ At("archived") /\ GoTo("upload") /\ archiving = "running" /\ pc \in TimeOuts /\ late' = TRUE
  /\ UNCHANGED <<agentVars, robustVars, waits, uploadVars, again, engineVars>>
  /\ UNCHANGED <<refused, cabbing, produced>>

ArchiveTimesOut ==
  /\ At("archived") /\ GoTo("next") /\ archiving = "running" /\ pc \in TimeOuts /\ late' = TRUE
  /\ UNCHANGED <<agentVars, robustVars, waits, uploadVars, again, engineVars>>
  /\ UNCHANGED <<refused, cabbing, produced>>

Send(orderList) ==
  /\ orders' = orders \o orderList
  /\ UNCHANGED <<mode, uploading, ready, jobs, local, remote, unread>>

\* The archive is moved to the server.
AskUpload ==
  /\ At("upload") /\ GoTo("next") /\ Send(<<UploadFile(Archive, TRUE)>>)
  /\ UNCHANGED <<agentVars, robustVars, waits, again, engineVars, history>>

NextExecution ==
  /\ At("next")
  /\ GoTo(IF again THEN "stats" ELSE "close") /\ again' = FALSE
  /\ UNCHANGED <<agentVars, robustVars, waits, uploadVars, engineVars, history>>

\* CompleteUpload, which waits without a limit.
CompleteUpload ==
  /\ At("close") /\ GoTo("uploads") /\ Send(<<UploadComplete>>)
  /\ UNCHANGED <<agentVars, robustVars, waits, again, engineVars, history>>

UploadEnded ==
  /\ At("uploads") /\ GoTo("event") /\ uploading = "done"
  /\ UNCHANGED <<agentVars, robustVars, waits, uploadVars, again, engineVars, history>>

\* Robustness::UnInitialize, after which the execution is destroyed.
WaitForHandlers ==
  /\ At("event") /\ UnInitialized /\ GoTo("destroy")
  /\ UNCHANGED <<agentVars, robustVars, waits, uploadVars, again, engineVars, history>>

\* The static guard calls the handlers that are left, and the process ends:
\* the files still open to be deleted on close are deleted.
Open == IF compressor = <<>> THEN {} ELSE Zip.queue \cup (Zip.items \ Zip.indexed)
Leave(how) ==
  /\ exited' = how /\ disk' = disk \ (Open \cap doomed)
  /\ UNCHANGED <<inbox, archiving, compressor, pending, room, doomed, answers>>

Guard ==
  /\ At("guard") /\ TerminateStep(Main)
  /\ pc' = IF terminating'[Main] = "over" THEN "end" ELSE "guard"
  /\ UNCHANGED <<agentVars, waits, uploadVars, again, engineVars, history>>

MainStep ==
  \/ CreateArchiveAgent
  \/ CreateCommandAgent
  \/ StartCommandAgent
  \/ EnqueueCommand
  \/ Throw
  \/ AskDone
  \/ AskTerminate
  \/ CommandAgentEnded
  \/ CommandAgentTimesOut
  \/ RemoveWolfHandler
  \/ UnInitializeCommandAgent
  \/ AskArchive
  \/ ArchiveEnded
  \/ ArchiveTimesOut
  \/ AskUpload
  \/ NextExecution
  \/ CompleteUpload
  \/ UploadEnded
  \/ WaitForHandlers
  \/ Guard

MainExits ==
  /\ At("end") /\ Leave("main")
  /\ UNCHANGED <<robustVars, waits, uploadVars, mainVars, engineVars, history>>

-----------------------------------------------------------------------------
EngineRuns == engine \in {"running", "stopping"}
Step(c, from, to) == EngineRuns /\ cmd[c] = from /\ cmd' = [cmd EXCEPT ![c] = to]

\* The command is read, and its output has a handler that deletes it.
Prepare(c) ==
  /\ Step(c, "sent", "queued") /\ engine = "running" /\ AddTerminationHandler(c)
  /\ UNCHANGED inbox /\ SameAgents /\ SameRobust
  /\ UNCHANGED <<uploadVars, mainVars, engine, killAsked, doneAsked, history>>

Run(c) ==
  /\ Step(c, "queued", "running")
  /\ UNCHANGED <<agentVars, robustVars, waits, uploadVars, mainVars, engine>>
  /\ UNCHANGED <<killAsked, doneAsked, history>>

\* The process ends, of itself or killed, and leaves its file.
Output(files) ==
  /\ disk' = disk \cup files /\ produced' = produced \cup files
  /\ UNCHANGED <<inbox, archiving, compressor, pending, room, doomed, answers>>
  /\ UNCHANGED <<late, refused, cabbing>>

ProcessEnds(c) ==
  /\ Step(c, "running", "exited") /\ Output({c})
  /\ UNCHANGED <<robustVars, waits, uploadVars, mainVars, engine, killAsked, doneAsked>>

\* What it left is sent to the archive, and its handler cancelled.
CompleteCommand(c) ==
  /\ Step(c, "exited", "over")
  /\ Post(IF c \in disk THEN <<AddFile(c)>> ELSE <<>>)
  /\ RemoveTerminationHandlers({c})
  /\ SameAgents /\ SameRobust
  /\ UNCHANGED <<uploadVars, mainVars, engine, killAsked, doneAsked, history>>

\* Messages of a lower rank wait for the commands.
NoneSent == \A c \in Names : cmd[c] # "sent"

\* TerminateAll: the queued commands are dropped, the running ones killed.
KillAll ==
  /\ engine = "running" /\ killAsked /\ NoneSent /\ killAsked' = FALSE
  /\ LET dropped == {c \in Names : cmd[c] = "queued"}
         killed == {c \in Names : cmd[c] = "running"}
     IN /\ cmd' = [c \in Names |-> IF c \in dropped THEN "over"
                                   ELSE IF c \in killed THEN "exited" ELSE cmd[c]]
        /\ Output(killed) /\ RemoveTerminationHandlers(dropped)
  /\ SameRobust /\ UNCHANGED <<uploadVars, mainVars, engine, doneAsked>>

ReadDone ==
  /\ engine = "running" /\ doneAsked /\ ~killAsked /\ NoneSent
  /\ engine' = "stopping" /\ doneAsked' = FALSE
  /\ UNCHANGED <<agentVars, robustVars, waits, uploadVars, mainVars, cmd, killAsked, history>>

\* Mutant: the command agent ends on Done.
EngineEndsAtOnce ==
  /\ engine = "stopping" /\ engine' = "done"
  /\ UNCHANGED <<agentVars, robustVars, waits, uploadVars, mainVars>>
  /\ UNCHANGED <<cmd, killAsked, doneAsked, history>>

EngineEnds ==
  /\ engine = "stopping" /\ engine' = "done"
  /\ \A c \in Names : cmd[c] \in {"unsent", "sent", "over"}
  /\ UNCHANGED <<agentVars, robustVars, waits, uploadVars, mainVars>>
  /\ UNCHANGED <<cmd, killAsked, doneAsked, history>>

EngineStep ==
  \/ \E c \in Names : Prepare(c) \/ Run(c) \/ ProcessEnds(c) \/ CompleteCommand(c)
  \/ KillAll
  \/ ReadDone
  \/ EngineEnds

-----------------------------------------------------------------------------
\* The termination handlers.  The execution and its agents are members of the
\* object the main thread has destroyed before its static guard runs.
Destroyed == pc \in {"guard", "end"}

DanglingHandler(t) ==
  /\ Destroyed /\ \E h \in {CommandHandler, WolfHandler} : Calling(t, h)
  /\ Leave("undefined")
  /\ UNCHANGED <<robustVars, waits, uploadVars, mainVars, engineVars, history>>

\* CommandTerminationHandler kills and ends the commands, and waits ten
\* seconds; the exception of the time-out is caught.
EnterCommandHandler(t) ==
  /\ ~Destroyed /\ Calling(t, CommandHandler) /\ ~waits[t]
  /\ killAsked' = TRUE /\ doneAsked' = TRUE /\ waits' = [waits EXCEPT ![t] = TRUE]
  /\ UNCHANGED <<agentVars, robustVars, uploadVars, mainVars, cmd, engine, history>>

LeaveCommandHandler(t) ==
  /\ Calling(t, CommandHandler) /\ waits[t]
  /\ HandlerReturns(t) /\ waits' = [waits EXCEPT ![t] = FALSE]
  /\ engine \in {"created", "done"} \/ "handler" \in TimeOuts
  /\ late' = (late \/ engine # "done")
  /\ UNCHANGED <<agentVars, uploadVars, mainVars, engineVars, refused, cabbing, produced>>

\* WOLFExecutionTerminate: CompleteArchive, without an upload.
EnterWolfHandler(t) ==
  /\ ~Destroyed /\ Calling(t, WolfHandler) /\ ~waits[t]
  /\ Post(ArchiveRequests) /\ SameAgents /\ waits' = [waits EXCEPT ![t] = TRUE]
  /\ UNCHANGED <<robustVars, uploadVars, mainVars, engineVars, history>>

LeaveWolfHandler(t) ==
  /\ Calling(t, WolfHandler) /\ waits[t]
  /\ HandlerReturns(t) /\ waits' = [waits EXCEPT ![t] = FALSE]
  /\ archiving # "running" \/ "handler" \in TimeOuts
  /\ late' = (late \/ archiving = "running")
  /\ UNCHANGED <<agentVars, uploadVars, mainVars, engineVars, refused, cabbing, produced>>

\* The handler of an output: DeleteFile.
DeleteOutput(t) ==
  /\ \E f \in Files : Calling(t, f) /\ disk' = disk \ {f}
  /\ HandlerReturns(t)
  /\ UNCHANGED <<inbox, archiving, compressor, pending, room, doomed, answers>>
  /\ UNCHANGED <<waits, uploadVars, mainVars, engineVars, history>>

HandlerStep(t) ==
  \/ EnterCommandHandler(t) \/ LeaveCommandHandler(t)
  \/ EnterWolfHandler(t) \/ LeaveWolfHandler(t)
  \/ DeleteOutput(t)

ConsoleStep ==
  /\ TerminateStep(Console)
  /\ cabbing' = \/ cabbing
                \/ /\ terminating[Console] = "swap"
                   /\ \E n \in DOMAIN handlers : handlers[n] = WolfHandler
  /\ UNCHANGED <<agentVars, waits, uploadVars, mainVars, engineVars, late, refused, produced>>

ConsoleExits ==
  /\ terminating[Console] = "over" /\ Leave("console")
  /\ UNCHANGED <<robustVars, waits, uploadVars, mainVars, engineVars, history>>

-----------------------------------------------------------------------------
Archiver ==
  /\ AgentStep
  /\ SameRobust /\ UNCHANGED <<uploadVars, mainVars, engineVars, history>>

Uploader ==
  /\ UploadStep
  /\ UNCHANGED <<agentVars, robustVars, waits, mainVars, engineVars, history>>

Transfer ==
  /\ \E n \in DOMAIN jobs : JobStep(n)
  /\ UNCHANGED <<agentVars, robustVars, waits, mainVars, engineVars, history>>

Next ==
  \/ /\ exited = "no" /\ UNCHANGED exited
     /\ \/ MainStep
        \/ EngineStep
        \/ \E t \in Threads : HandlerStep(t)
        \/ ConsoleStep
        \/ Archiver
        \/ Uploader
        \/ Transfer
  \/ exited = "no" /\ (MainExits \/ ConsoleExits \/ \E t \in Threads : DanglingHandler(t))
  \/ exited # "no" /\ UNCHANGED vars

Spec == Init /\ [][Next]_vars

\* A step of a thread while the process runs.
Alive(A) == exited = "no" /\ UNCHANGED exited /\ A

\* The threads run, child processes end, BITS transfers or fails, and a
\* termination that has begun goes on.  No console event need come.
FairSpec ==
  /\ Spec
  /\ WF_vars(Alive(MainStep)) /\ WF_vars(exited = "no" /\ MainExits)
  /\ WF_vars(Alive(EngineStep)) /\ WF_vars(Alive(Archiver)) /\ WF_vars(Alive(Uploader))
  /\ WF_vars(Alive(Transfer))
  /\ \A t \in Threads : /\ WF_vars(Alive(HandlerStep(t)))
                       /\ WF_vars(exited = "no" /\ DanglingHandler(t))
  /\ WF_vars(Alive(ConsoleStep /\ terminating[Console] # "out"))

-----------------------------------------------------------------------------
Archived == IF compressor = <<>> THEN {} ELSE Zip.output

\* When the process ends and no wait was given up, what the commands left is
\* in the archive or still on disk: the handlers that kill the commands,
\* complete the archive and delete the outputs are called in this order, and
\* those that have been completed and cancelled meanwhile do no harm.
OutputsKept ==
  exited = "main" \/ (exited = "console" /\ cabbing) =>
    late \/ produced \ disk \subseteq Archived

\* Without a time-out or a console event, each output is in the archive; an
\* exception changes nothing to it.
OutputsArchived ==
  exited = "main" /\ terminating[Console] = "out" /\ ~late /\ compressor # <<>> =>
    produced \subseteq Archived

\* The archive is deleted here only once the server has it, and it is sent
\* only when the archive agent is done with it.
UploadedWhole ==
  /\ Archive \notin local => Archive \in remote
  /\ Archive \in remote => archiving = "done"

\* In synchronous mode the process does not leave while a transfer goes on,
\* but for one whose error was taken for its end and which was then resumed,
\* and one whose state the last look at the jobs could not have.
UploadsOver ==
  exited = "main" /\ mode = "synchronous" =>
    \A n \in DOMAIN jobs : jobs[n].state \in InProgress => jobs[n].foreground \/ n \in unread

\* A handler is called by one thread only, though the threads that terminate
\* the process do not exclude each other.
CalledByOne ==
  \A h \in Handlers : Cardinality({t \in Threads : \E n \in DOMAIN taken[t] : taken[t][n] = h}) <= 1

\* No handler of the execution is called after the execution is destroyed,
\* unless a wait was given up or the commands could not be sent: the paths
\* that leave CommandTerminationHandler registered.
NoDanglingHandler == exited = "undefined" => late \/ refused

\* The process waits for a transfer that BITS was never able to start.
Stuck == At("uploads") /\ mode = "synchronous" /\ \E n \in DOMAIN jobs : jobs[n].state = "suspended"

\* The process ends, or waits for ever in CompleteUpload, which has no limit,
\* for a job it could not resume; a wait that is given up, an exception, a
\* console event or any other refusal does not keep it.
ProcessEnded == <>(exited # "no") \/ <>[]Stuck
=============================================================================
