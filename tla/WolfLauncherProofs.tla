-------------------------- MODULE WolfLauncherProofs -------------------------
(***************************************************************************)
(* Proofs about WolfLauncher, for any commands and refusals, and whichever *)
(* waits are given up.                                                     *)
(*                                                                         *)
(* The state falls into the parts of the agents that have it, and a step   *)
(* changes few of them: the lemmas of the first section say, for each      *)
(* part, what a step of the system may do to it.  The invariants then have *)
(* one case for each of these.                                             *)
(***************************************************************************)
EXTENDS WolfLauncher, ArchiveAgentProofs

-----------------------------------------------------------------------------
(***************************************************************************)
(* What a step does to each part of the state.                             *)
(***************************************************************************)
\* The archive agent: a step of its own, messages, or the files on disk.
Posts(messages) == Post(messages) /\ SameAgents
DiskOnly == UNCHANGED <<inbox, archiving, compressor, pending, room, doomed, answers>>

LEMMA AgentMoves ==
  ASSUME [Next]_vars
  PROVE  \/ Archiver
         \/ pc = "archive" /\ pc' = "agent" /\ Posts(<<OpenArchive>>)
         \/ (pc = "stats" \/ \E t \in Threads : Calling(t, WolfHandler)) /\ Posts(ArchiveRequests)
         \/ \E c \in Names : CompleteCommand(c) /\ Posts(IF c \in disk THEN <<AddFile(c)>> ELSE <<>>)
         \/ \E files \in SUBSET Names : disk' = disk \cup files /\ DiskOnly
         \/ \E t \in Threads, f \in Files : Calling(t, f) /\ disk' = disk \ {f} /\ DiskOnly
         \/ exited' # exited /\ disk' \subseteq disk /\ DiskOnly
         \/ UNCHANGED agentVars
<1>1. CASE MainStep
  <2>1. CASE CreateArchiveAgent
    BY <2>1 DEF CreateArchiveAgent, At, GoTo, Posts, SameAgents, agentVars
  <2>2. CASE AskArchive
    BY <2>2 DEF AskArchive, At, Posts
  <2>3. CASE MainStep /\ ~CreateArchiveAgent /\ ~AskArchive
    <3>1. UNCHANGED agentVars
      BY <2>3 DEF MainStep, CreateCommandAgent, StartCommandAgent, EnqueueCommand, Throw, AskDone,
                  AskTerminate, CommandAgentEnded, CommandAgentTimesOut, RemoveWolfHandler,
                  UnInitializeCommandAgent, ArchiveEnded, ArchiveTimesOut, AskUpload, NextExecution,
                  CompleteUpload, UploadEnded, WaitForHandlers, Guard, SameAgents, agentVars
    <3> QED
      BY <3>1
  <2> QED
    BY <1>1, <2>1, <2>2, <2>3
<1>2. CASE EngineStep
  <2>1. CASE \E c \in Names : Prepare(c) \/ Run(c)
    BY <2>1 DEF Prepare, Run, SameAgents, agentVars
  <2>2. CASE \E c \in Names : ProcessEnds(c)
    <3>1. PICK c \in Names : ProcessEnds(c)
      BY <2>2
    <3>2. {c} \in SUBSET Names /\ disk' = disk \cup {c} /\ DiskOnly
      BY <3>1 DEF ProcessEnds, Output, DiskOnly
    <3> QED
      BY <3>2
  <2>3. CASE \E c \in Names : CompleteCommand(c)
    BY <2>3 DEF CompleteCommand, Posts
  <2>4. CASE KillAll
    <3>1. {c \in Names : cmd[c] = "running"} \in SUBSET Names
      OBVIOUS
    <3>2. disk' = disk \cup {c \in Names : cmd[c] = "running"} /\ DiskOnly
      BY <2>4 DEF KillAll, Output, DiskOnly
    <3> QED
      BY <3>1, <3>2
  <2>5. CASE ReadDone \/ EngineEnds
    BY <2>5 DEF ReadDone, EngineEnds
  <2> QED
    BY <1>2, <2>1, <2>2, <2>3, <2>4, <2>5 DEF EngineStep
<1>3. CASE \E t \in Threads : HandlerStep(t)
  <2>1. PICK t \in Threads : HandlerStep(t)
    BY <1>3
  <2>2. CASE EnterWolfHandler(t)
    BY <2>2 DEF EnterWolfHandler, Posts
  <2>3. CASE DeleteOutput(t)
    BY <2>1, <2>3 DEF DeleteOutput, DiskOnly
  <2>4. CASE EnterCommandHandler(t) \/ LeaveCommandHandler(t) \/ LeaveWolfHandler(t)
    BY <2>4 DEF EnterCommandHandler, LeaveCommandHandler, LeaveWolfHandler
  <2> QED
    BY <2>1, <2>2, <2>3, <2>4 DEF HandlerStep
<1>4. CASE ConsoleStep \/ Uploader \/ Transfer \/ UNCHANGED vars
  BY <1>4 DEF ConsoleStep, Uploader, Transfer, vars
<1>5. CASE Archiver
  BY <1>5
<1>6. CASE exited = "no" /\ (MainExits \/ ConsoleExits \/ \E t \in Threads : DanglingHandler(t))
  BY <1>6 DEF MainExits, ConsoleExits, DanglingHandler, Leave, DiskOnly
<1> QED
  BY <1>1, <1>2, <1>3, <1>4, <1>5, <1>6 DEF Next
\* The termination handlers, and the threads that call them.
SameThreads == UNCHANGED <<terminateCalled, signaled, terminating, taken>>
Registers(h) ==
  /\ AddTerminationHandler(h) /\ SameThreads
  /\ \/ h = WolfHandler /\ pc = "agent" /\ pc' = "init"
     \/ h = CommandHandler /\ pc = "init" /\ pc' = "start"
     \/ h \in Names /\ cmd[h] = "sent" /\ cmd' = [cmd EXCEPT ![h] = "queued"]

Removes(gone) ==
  /\ RemoveTerminationHandlers(gone) /\ SameThreads
  /\ \/ gone \subseteq {CommandHandler, WolfHandler} /\ pc' \in {"unload", "stats", "upload", "guard"}
     \/ gone \subseteq Names

\* A handler of the execution returns when what it waits for has ended, or late.
Returns(t) ==
  /\ HandlerReturns(t)
  /\ Calling(t, CommandHandler) => engine = "done" \/ late'
  /\ Calling(t, WolfHandler) => archiving # "running" \/ late'

LEMMA RobustMoves ==
  ASSUME [Next]_vars
  PROVE  \/ AgentStep /\ SameThreads
         \/ \E h : Registers(h)
         \/ \E gone : Removes(gone)
         \/ pc = "guard" /\ TerminateStep(Main)
         \/ TerminateStep(Console)
         \/ \E t \in Threads : Returns(t)
         \/ UNCHANGED robustVars
<1>1. CASE MainStep
  <2>1. CASE CreateCommandAgent
    BY <2>1 DEF CreateCommandAgent, At, GoTo, SameRobust, SameThreads, Registers
  <2>2. CASE RemoveWolfHandler \/ UnInitializeCommandAgent \/ ArchiveEnded
    BY <2>2 DEF RemoveWolfHandler, UnInitializeCommandAgent, ArchiveEnded, GoTo,
                SameRobust, SameThreads, Removes
  <2>5. CASE CommandAgentEnded
    <3>1. PICK w \in EngineWaits : At(w[1]) /\ GoTo(w[2])
      BY <2>5 DEF CommandAgentEnded
    <3>2. w \in {<<"engine", "remove">>, <<"killed", "stats">>, <<"destroyed", "guard">>}
      BY DEF EngineWaits
    <3>3. \/ w[1] = "engine" /\ w[2] = "remove"
          \/ w[1] = "killed" /\ w[2] = "stats"
          \/ w[1] = "destroyed" /\ w[2] = "guard"
      BY <3>2
    <3> QED
      BY <2>5, <3>1, <3>3 DEF CommandAgentEnded, At, GoTo, SameRobust, SameThreads, robustVars, Removes
  <2>3. CASE Guard
    BY <2>3 DEF Guard, At
  <2>4. CASE CreateArchiveAgent \/ StartCommandAgent \/ EnqueueCommand \/ Throw \/ AskDone \/ AskTerminate
             \/ CommandAgentTimesOut \/ AskArchive \/ ArchiveTimesOut \/ AskUpload \/ NextExecution
             \/ CompleteUpload \/ UploadEnded \/ WaitForHandlers
    BY <2>4 DEF CreateArchiveAgent, StartCommandAgent, EnqueueCommand, Throw, AskDone, AskTerminate,
                CommandAgentTimesOut, AskArchive, ArchiveTimesOut, AskUpload, NextExecution,
                CompleteUpload, UploadEnded, WaitForHandlers, SameRobust, robustVars
  <2> QED
    BY <1>1, <2>1, <2>2, <2>3, <2>4, <2>5 DEF MainStep
<1>2. CASE EngineStep
  <2>1. CASE \E c \in Names : Prepare(c)
    BY <2>1 DEF Prepare, Step, SameRobust, SameThreads, Registers
  <2>2. CASE \E c \in Names : CompleteCommand(c)
    <3>1. PICK c \in Names : CompleteCommand(c)
      BY <2>2
    <3>2. Removes({c})
      BY <3>1 DEF CompleteCommand, SameRobust, SameThreads, Removes
    <3> QED
      BY <3>2
  <2>3. CASE KillAll
    <3>1. Removes({c \in Names : cmd[c] = "queued"})
      BY <2>3 DEF KillAll, SameRobust, SameThreads, Removes
    <3> QED
      BY <3>1
  <2>4. CASE (\E c \in Names : Run(c) \/ ProcessEnds(c)) \/ ReadDone \/ EngineEnds
    BY <2>4 DEF Run, ProcessEnds, ReadDone, EngineEnds
  <2> QED
    BY <1>2, <2>1, <2>2, <2>3, <2>4 DEF EngineStep
<1>3. CASE \E t \in Threads : HandlerStep(t)
  <2>0. CommandHandler # WolfHandler /\ {CommandHandler, WolfHandler} \cap Files = {}
    BY LauncherAssumption
  <2>1. PICK t \in Threads : HandlerStep(t)
    BY <1>3
  <2>2. \A g, h : Calling(t, g) /\ Calling(t, h) => g = h
    BY DEF Calling
  <2>3. CASE LeaveCommandHandler(t)
    <3>1. late' = (late \/ engine # "done") /\ HandlerReturns(t) /\ Calling(t, CommandHandler)
      BY <2>3 DEF LeaveCommandHandler
    <3>2. engine = "done" \/ late'
      BY <3>1, Zenon
    <3> QED
      BY <2>0, <2>2, <3>1, <3>2 DEF Returns
  <2>4. CASE LeaveWolfHandler(t)
    <3>1. late' = (late \/ archiving = "running") /\ HandlerReturns(t) /\ Calling(t, WolfHandler)
      BY <2>4 DEF LeaveWolfHandler
    <3>2. archiving # "running" \/ late'
      BY <3>1, Zenon
    <3> QED
      BY <2>0, <2>2, <3>1, <3>2 DEF Returns
  <2>5. CASE DeleteOutput(t)
    BY <2>0, <2>2, <2>5 DEF DeleteOutput, Returns
  <2>6. CASE EnterCommandHandler(t) \/ EnterWolfHandler(t)
    BY <2>6 DEF EnterCommandHandler, EnterWolfHandler
  <2> QED
    BY <2>1, <2>3, <2>4, <2>5, <2>6 DEF HandlerStep
<1>4. CASE ConsoleStep
  BY <1>4 DEF ConsoleStep
<1>5. CASE Archiver
  BY <1>5 DEF Archiver, SameRobust, SameThreads
<1>6. CASE \/ Uploader \/ Transfer \/ UNCHANGED vars
           \/ MainExits \/ ConsoleExits \/ \E t \in Threads : DanglingHandler(t)
  BY <1>6 DEF Uploader, Transfer, MainExits, ConsoleExits, DanglingHandler, vars
<1> QED
  BY <1>1, <1>2, <1>3, <1>4, <1>5, <1>6 DEF Next

LEMMA UploadMoves ==
  ASSUME [Next]_vars
  PROVE  \/ UploadStep
         \/ \E n \in DOMAIN jobs : JobStep(n)
         \/ pc = "upload" /\ Send(<<UploadFile(Archive, TRUE)>>)
         \/ pc = "close" /\ Send(<<UploadComplete>>)
         \/ UNCHANGED uploadVars
<1>1. CASE MainStep
  <2>1. CASE AskUpload \/ CompleteUpload
    BY <2>1 DEF AskUpload, CompleteUpload, At
  <2>2. CASE MainStep /\ ~AskUpload /\ ~CompleteUpload
    BY <2>2 DEF MainStep, CreateArchiveAgent, CreateCommandAgent, StartCommandAgent, EnqueueCommand, Throw,
                AskDone, AskTerminate, CommandAgentEnded, CommandAgentTimesOut, RemoveWolfHandler,
                UnInitializeCommandAgent, AskArchive, ArchiveEnded, ArchiveTimesOut, NextExecution,
                UploadEnded, WaitForHandlers, Guard
  <2> QED
    BY <1>1, <2>1, <2>2
<1>2. CASE EngineStep
  BY <1>2 DEF EngineStep, Prepare, Run, ProcessEnds, CompleteCommand, KillAll, ReadDone, EngineEnds
<1>3. CASE \E t \in Threads : HandlerStep(t)
  BY <1>3 DEF HandlerStep, EnterCommandHandler, LeaveCommandHandler, EnterWolfHandler,
              LeaveWolfHandler, DeleteOutput
<1>4. CASE \/ ConsoleStep \/ Archiver \/ Uploader \/ Transfer \/ UNCHANGED vars
           \/ MainExits \/ ConsoleExits \/ \E t \in Threads : DanglingHandler(t)
  BY <1>4 DEF ConsoleStep, Archiver, Uploader, Transfer, MainExits, ConsoleExits, DanglingHandler, vars
<1> QED
  BY <1>1, <1>2, <1>3, <1>4 DEF Next

\* The path of the main thread.
MainMoves ==
  \/ pc' = pc
  \/ pc = "archive" /\ pc' = "next" /\ UNCHANGED agentVars
  \/ pc = "archive" /\ pc' = "agent" /\ Posts(<<OpenArchive>>)
  \/ pc = "agent" /\ pc' = "init" /\ AddTerminationHandler(WolfHandler) /\ SameThreads
  \/ pc = "init" /\ pc' = "start" /\ AddTerminationHandler(CommandHandler) /\ SameThreads
  \/ pc = "start" /\ pc' = "enqueue"
  \/ pc = "start" /\ pc' = "stats" /\ refused'
  \/ pc = "enqueue" /\ pc' = "done"
  \/ pc = "enqueue" /\ pc' = "term" /\ refused'
  \/ pc = "done" /\ pc' = "engine"
  \/ pc = "engine" /\ pc' = "remove" /\ engine = "done"
  \/ pc = "engine" /\ pc' = "term" /\ late'
  \/ pc = "remove" /\ pc' = "unload" /\ RemoveTerminationHandlers({WolfHandler}) /\ SameThreads
  \/ pc = "unload" /\ pc' = "stats" /\ RemoveTerminationHandlers({CommandHandler}) /\ SameThreads
  \/ pc = "term" /\ pc' = "killed"
  \/ pc = "killed" /\ pc' = "stats" /\ (engine = "done" \/ late')
  \/ pc = "stats" /\ pc' = "archived" /\ Posts(ArchiveRequests)
  \/ pc = "archived" /\ pc' = "upload" /\ archiving # "running" /\ UNCHANGED agentVars
  \/ pc = "archived" /\ pc' = "next" /\ late'
  \/ pc = "upload" /\ pc' = "next"
  \/ pc = "next" /\ pc' = "stats" /\ again
  \/ pc = "next" /\ pc' = "close"
  \/ pc = "close" /\ pc' = "uploads"
  \/ pc = "uploads" /\ pc' = "event" /\ uploading = "done" /\ UNCHANGED uploadVars
  \/ pc = "event" /\ pc' = "destroy" /\ signaled /\ UNCHANGED robustVars
  \/ pc = "destroy" /\ pc' = "destroyed"
  \/ pc = "destroyed" /\ pc' = "guard" /\ (engine = "done" \/ late')
  \/ pc = "guard" /\ pc' = "end"

LEMMA PathOfMain ==
  ASSUME [Next]_vars
  PROVE  MainMoves /\ (late => late') /\ (refused => refused')
<1>1. CASE MainStep
  <2>1. CASE CreateArchiveAgent \/ CreateCommandAgent \/ StartCommandAgent
    BY <2>1 DEF CreateArchiveAgent, CreateCommandAgent, StartCommandAgent, MainMoves, At, GoTo, Posts,
                SameAgents, agentVars, SameRobust, SameThreads, history
  <2>2. CASE EnqueueCommand \/ Throw \/ AskDone \/ AskTerminate
    BY <2>2 DEF EnqueueCommand, Throw, AskDone, AskTerminate, MainMoves, At, GoTo, history
  <2>3. CASE CommandAgentEnded
    <3>1. PICK w \in EngineWaits : At(w[1]) /\ GoTo(w[2]) /\ engine = "done" /\ UNCHANGED history
      BY <2>3 DEF CommandAgentEnded
    <3>2. w \in {<<"engine", "remove">>, <<"killed", "stats">>, <<"destroyed", "guard">>}
      BY DEF EngineWaits
    <3>3. \/ w[1] = "engine" /\ w[2] = "remove"
          \/ w[1] = "killed" /\ w[2] = "stats"
          \/ w[1] = "destroyed" /\ w[2] = "guard"
      BY <3>2
    <3> QED
      BY <3>1, <3>3 DEF MainMoves, At, GoTo, history
  <2>4. CASE CommandAgentTimesOut \/ RemoveWolfHandler \/ UnInitializeCommandAgent
    BY <2>4 DEF CommandAgentTimesOut, RemoveWolfHandler, UnInitializeCommandAgent, SameRobust, SameThreads,
                MainMoves, At, GoTo, history
  <2>5. CASE AskArchive \/ ArchiveEnded \/ ArchiveTimesOut \/ AskUpload
    BY <2>5 DEF AskArchive, ArchiveEnded, ArchiveTimesOut, AskUpload, Posts, SameAgents, agentVars,
                MainMoves, At, GoTo, history
  <2>6. CASE NextExecution \/ CompleteUpload \/ UploadEnded \/ WaitForHandlers \/ Guard
    BY <2>6 DEF NextExecution, CompleteUpload, UploadEnded, WaitForHandlers, UnInitialized, Guard,
                MainMoves, At, GoTo, history
  <2> QED
    BY <1>1, <2>1, <2>2, <2>3, <2>4, <2>5, <2>6 DEF MainStep
<1>2. ASSUME pc' = pc PROVE MainMoves
  BY <1>2 DEF MainMoves
<1>3. CASE EngineStep
  <2>1. UNCHANGED <<pc, late, refused>>
    BY <1>3 DEF EngineStep, Prepare, Run, ProcessEnds, CompleteCommand, KillAll, ReadDone, EngineEnds,
                Output, mainVars, history
  <2> QED
    BY <1>2, <2>1
<1>4. CASE \E t \in Threads : HandlerStep(t)
  <2>1. UNCHANGED <<pc, refused>>
    BY <1>4 DEF HandlerStep, EnterCommandHandler, LeaveCommandHandler, EnterWolfHandler,
                LeaveWolfHandler, DeleteOutput, mainVars, history
  <2>2. PICK t \in Threads : HandlerStep(t)
    BY <1>4
  <2>3. CASE EnterCommandHandler(t) \/ EnterWolfHandler(t) \/ DeleteOutput(t)
    BY <1>2, <2>1, <2>3 DEF EnterCommandHandler, EnterWolfHandler, DeleteOutput, history
  <2>4. CASE LeaveCommandHandler(t)
    <3>1. late' = (late \/ engine # "done")
      BY <2>4 DEF LeaveCommandHandler
    <3> QED
      BY <1>2, <2>1, <3>1, Zenon
  <2>5. CASE LeaveWolfHandler(t)
    <3>1. late' = (late \/ archiving = "running")
      BY <2>5 DEF LeaveWolfHandler
    <3> QED
      BY <1>2, <2>1, <3>1, Zenon
  <2> QED
    BY <2>2, <2>3, <2>4, <2>5 DEF HandlerStep
<1>5. CASE \/ ConsoleStep \/ Archiver \/ Uploader \/ Transfer \/ UNCHANGED vars
           \/ MainExits \/ ConsoleExits \/ \E t \in Threads : DanglingHandler(t)
  <2>1. UNCHANGED <<pc, late, refused>>
    BY <1>5 DEF ConsoleStep, Archiver, Uploader, Transfer, MainExits, ConsoleExits, DanglingHandler,
                mainVars, history, vars
  <2> QED
    BY <1>2, <2>1
<1> QED
  BY <1>1, <1>3, <1>4, <1>5 DEF Next

\* How the process ends.
LEMMA Exits ==
  ASSUME [Next]_vars, exited' # exited
  PROVE  /\ exited = "no"
         /\ \/ exited' = "main" /\ pc = "end"
            \/ exited' = "console" /\ terminating[Console] = "over"
            \/ /\ exited' = "undefined" /\ Destroyed
               /\ \E t \in Threads : \E h \in {CommandHandler, WolfHandler} : Calling(t, h)
         /\ UNCHANGED <<robustVars, waits, uploadVars, mainVars, engineVars, history>>
         /\ UNCHANGED <<inbox, archiving, compressor, pending, room, doomed, answers>>
         /\ disk' = disk \ (Open \cap doomed)
<1>1. exited = "no" /\ (MainExits \/ ConsoleExits \/ \E t \in Threads : DanglingHandler(t))
  BY DEF Next, vars
<1> QED
  BY <1>1 DEF MainExits, ConsoleExits, DanglingHandler, Leave, At
-----------------------------------------------------------------------------
(***************************************************************************)
(* Types.                                                                  *)
(***************************************************************************)
LEMMA MessagesSent ==
  /\ OpenArchive \in Messages /\ Complete \in Messages
  /\ \A f \in Files : AddFile(f) \in Messages
BY DEF Messages

LEMMA CommandsAreFiles == Names \subseteq Files \ {Stats} /\ Stats \in Files /\ Dirs = {}
<1>1. Commands \in Seq(Files \ {Stats}) /\ Stats \in Files /\ Dirs = {}
  BY LauncherAssumption
<1> QED
  BY <1>1 DEF Names

LEMMA RequestsTyped == ArchiveRequests \in Seq(Messages)
<1>1. PICK a : a = AddFile(Stats)
  OBVIOUS
<1>2. PICK c : c = Complete
  OBVIOUS
<1>3. a \in Messages /\ c \in Messages
  BY <1>1, <1>2, MessagesSent, CommandsAreFiles
<1>4. <<a>> \o <<c>> \in Seq(Messages) /\ <<>> \o <<c>> \in Seq(Messages)
  BY <1>3
<1> QED
  BY <1>1, <1>2, <1>4 DEF ArchiveRequests

LEMMA AgentTypesKept ==
  ASSUME AgentTypeOK, Compressing, handlers \in Seq(Handlers), [Next]_vars
  PROVE  AgentTypeOK' /\ Compressing'
<1>1. /\ inbox \in Seq(Messages) /\ disk \subseteq Files \cup Dirs
      /\ archiving \in {"running", "done", "crashed"}
      /\ compressor \in Seq(Compressors) /\ Len(compressor) <= 1
      /\ pending \in Seq(Removals) /\ room \in Nat
      /\ doomed \subseteq Files /\ answers \in [Items -> Nat]
  BY DEF AgentTypeOK
<1>2. ASSUME UNCHANGED <<archiving, compressor>> PROVE Compressing'
  BY <1>2 DEF Compressing, Zip, Indexed, Begun, Content
<1>3. ASSUME NEW m \in Seq(Messages), Posts(m) PROVE AgentTypeOK' /\ Compressing'
  <2>1. inbox' \in Seq(Messages)
    BY <1>1, <1>3 DEF Posts, Post
  <2>2. UNCHANGED <<archiving, compressor, pending, room, disk, doomed, answers>>
    BY <1>3 DEF Posts, SameAgents
  <2> QED
    BY <1>1, <1>2, <2>1, <2>2 DEF AgentTypeOK
<1>4. ASSUME disk' \subseteq Files \cup Dirs, DiskOnly PROVE AgentTypeOK' /\ Compressing'
  BY <1>1, <1>2, <1>4 DEF DiskOnly, AgentTypeOK
<1>5. CASE Archiver
  <2>1. AgentStep
    BY <1>5 DEF Archiver
  <2> QED
    BY <2>1, AgentTyped, AgentCompressing, TypesOfAgent
<1>6. CASE Posts(<<OpenArchive>>)
  <2>1. <<OpenArchive>> \in Seq(Messages)
    BY MessagesSent
  <2> QED
    BY <1>3, <1>6, <2>1
<1>7. CASE Posts(ArchiveRequests)
  BY <1>3, <1>7, RequestsTyped
<1>8. CASE \E c \in Names : Posts(IF c \in disk THEN <<AddFile(c)>> ELSE <<>>)
  <2>1. PICK c \in Names : Posts(IF c \in disk THEN <<AddFile(c)>> ELSE <<>>)
    BY <1>8
  <2>2. AddFile(c) \in Messages
    BY MessagesSent, CommandsAreFiles
  <2>3. (IF c \in disk THEN <<AddFile(c)>> ELSE <<>>) \in Seq(Messages)
    BY <2>2
  <2> QED
    BY <1>3, <2>1, <2>3
<1>9. CASE DiskOnly /\ (disk' \subseteq disk \/ \E files \in SUBSET Names : disk' = disk \cup files)
  <2>1. disk' \subseteq Files \cup Dirs
    BY <1>1, <1>9, CommandsAreFiles
  <2> QED
    BY <1>4, <1>9, <2>1
<1>10. CASE UNCHANGED agentVars
  BY <1>1, <1>2, <1>10 DEF agentVars, AgentTypeOK
<1> QED
  BY <1>5, <1>6, <1>7, <1>8, <1>9, <1>10, AgentMoves

LEMMA RobustTypesKept ==
  ASSUME RobustTypeOK, AgentTypeOK, Compressing, [Next]_vars
  PROVE  RobustTypeOK'
<1>1. /\ handlers \in Seq(Handlers) /\ terminateCalled \in BOOLEAN /\ signaled \in BOOLEAN
      /\ terminating \in [Threads -> TerminateSteps]
      /\ taken \in [Threads -> Seq(Handlers)]
      /\ Threads = {Main, Console} /\ {CommandHandler, WolfHandler} \cup Files \subseteq Handlers
  BY LauncherAssumption DEF RobustTypeOK
<1>2. ASSUME handlers' \in Seq(Handlers), SameThreads PROVE RobustTypeOK'
  BY <1>1, <1>2 DEF SameThreads, RobustTypeOK
<1>3. CASE AgentStep /\ SameThreads
  BY <1>1, <1>2, <1>3, AgentTyped DEF HandlersKept
<1>4. CASE \E h : Registers(h)
  <2>1. PICK h : Registers(h)
    BY <1>4
  <2>2. h \in Handlers
    BY <1>1, <2>1, CommandsAreFiles DEF Registers
  <2> QED
    BY <1>1, <1>2, <2>1, <2>2, WithIn DEF Registers, AddTerminationHandler
<1>5. CASE \E gone : Removes(gone)
  BY <1>1, <1>2, <1>5, WithoutIn DEF Removes, RemoveTerminationHandlers
<1>6. ASSUME NEW t \in Threads, TerminateStep(t) PROVE RobustTypeOK'
  <2>1. \A step \in TerminateSteps : [terminating EXCEPT ![t] = step] \in [Threads -> TerminateSteps]
    BY <1>1
  <2>2. {"reset", "swap", "call", "signal", "flag", "over"} \subseteq TerminateSteps
    BY DEF TerminateSteps
  <2>3. CASE EnterTerminate(t)
    BY <1>1, <2>1, <2>2, <2>3 DEF EnterTerminate, GoOn, RobustTypeOK
  <2>4. CASE ResetTheEvent(t) \/ AllHandlersCalled(t) \/ SetTheEvent(t) \/ SetTerminateCalled(t)
    BY <1>1, <2>1, <2>2, <2>4
       DEF ResetTheEvent, AllHandlersCalled, SetTheEvent, SetTerminateCalled, GoOn, RobustTypeOK
  <2>5. CASE SwapHandlers(t)
    <3>1. taken' \in [Threads -> Seq(Handlers)] /\ handlers' \in Seq(Handlers)
      BY <1>1, <2>5 DEF SwapHandlers
    <3> QED
      BY <1>1, <2>1, <2>2, <2>5, <3>1 DEF SwapHandlers, GoOn, RobustTypeOK
  <2> QED
    BY <1>6, <2>3, <2>4, <2>5 DEF TerminateStep
<1>7. ASSUME NEW t \in Threads, HandlerReturns(t) PROVE RobustTypeOK'
  <2>1. taken[t] \in Seq(Handlers) /\ taken[t] # <<>> /\ taken' = [taken EXCEPT ![t] = Tail(taken[t])]
    BY <1>1, <1>7 DEF HandlerReturns
  <2>2. Tail(taken[t]) \in Seq(Handlers)
    BY <2>1
  <2>3. taken' \in [Threads -> Seq(Handlers)]
    BY <1>1, <2>1, <2>2
  <2> QED
    BY <1>1, <1>7, <2>3 DEF HandlerReturns, RobustTypeOK
<1>8. CASE UNCHANGED robustVars
  BY <1>1, <1>8 DEF robustVars, RobustTypeOK
<1> QED
  BY <1>1, <1>3, <1>4, <1>5, <1>6, <1>7, <1>8, RobustMoves DEF Returns

LEMMA OrdersSent ==
  /\ \A f \in Uploads, b \in BOOLEAN : UploadFile(f, b) \in Orders
  /\ UploadComplete \in Orders /\ RefreshJobStatus \in Orders
BY DEF Orders

\* The order that is served.
LEMMA OrderServed ==
  ASSUME UploadTypeOK, NEW type, Ordered(type)
  PROVE  /\ Head(orders) \in Orders /\ orders' \in Seq(Orders)
         /\ \A n \in DOMAIN orders' : n + 1 \in DOMAIN orders /\ orders'[n] = orders[n + 1]
         /\ type = "UploadFile" => Head(orders).file \in Uploads /\ Head(orders).move \in BOOLEAN
<1>1. orders \in Seq(Orders) /\ orders # <<>> /\ orders' = Tail(orders) /\ Head(orders).type = type
  BY DEF UploadTypeOK, Ordered
<1>2. Head(orders) \in Orders /\ orders' \in Seq(Orders)
  BY <1>1
<1>3. \A n \in DOMAIN orders' : n + 1 \in DOMAIN orders /\ orders'[n] = orders[n + 1]
  BY <1>1
<1>4. type = "UploadFile" => Head(orders).file \in Uploads /\ Head(orders).move \in BOOLEAN
  <2>1. ASSUME NEW o \in Orders, o.type = "UploadFile" PROVE o.file \in Uploads /\ o.move \in BOOLEAN
    BY <2>1 DEF Orders, UploadFile, UploadComplete, RefreshJobStatus, Order
  <2> QED
    BY <1>1, <1>2, <2>1
<1> QED
  BY <1>2, <1>3, <1>4

\* The jobs after a new one, or after a step of one of them.
LEMMA JobAdded ==
  ASSUME jobs \in Seq(Jobs), NEW j \in Jobs, jobs' = Append(jobs, j)
  PROVE  /\ jobs' \in Seq(Jobs) /\ DOMAIN jobs \subseteq DOMAIN jobs'
         /\ \A n \in DOMAIN jobs' : (n \in DOMAIN jobs /\ jobs'[n] = jobs[n]) \/ jobs'[n] = j
BY DEF Jobs

JobGoes(n, state, b) ==
  /\ jobs' = [jobs EXCEPT ![n] = [jobs[n] EXCEPT !.state = state, !.foreground = b]]
  /\ state # "suspended" /\ (state = "queued" => jobs[n].state = "error" /\ b)
  /\ state = "transferred" => jobs[n].state = "queued" /\ jobs[n].file \in remote'

LEMMA JobMoved ==
  ASSUME jobs \in Seq(Jobs), NEW n \in DOMAIN jobs, JobStep(n)
  PROVE  /\ jobs' \in Seq(Jobs) /\ DOMAIN jobs' = DOMAIN jobs
         /\ \A k \in DOMAIN jobs : k # n => jobs'[k] = jobs[k]
         /\ jobs'[n].file = jobs[n].file /\ jobs'[n].move = jobs[n].move
         /\ jobs'[n].state # "suspended"
         /\ jobs'[n].state = "queued" => jobs[n].state = "error" /\ jobs'[n].foreground
         /\ jobs'[n].state = "transferred" => jobs[n].state = "queued" /\ jobs[n].file \in remote'
<1>1. PICK j : j = jobs[n]
  OBVIOUS
<1>2. j \in Jobs /\ n \in 1..Len(jobs)
  BY <1>1
<1>3. \E state \in JobStates : \E b \in BOOLEAN : JobGoes(n, state, b)
  <2>1. ASSUME NEW state \in {"transferred", "error", "acknowledged", "failed"}, Become(n, state),
               state = "transferred" => j.state = "queued" /\ j.file \in remote'
        PROVE  \E s \in JobStates : \E b \in BOOLEAN : JobGoes(n, s, b)
    <3>1. jobs' = [jobs EXCEPT ![n] = [j EXCEPT !.state = state]]
      BY <1>1, <2>1 DEF Become
    <3>2. [j EXCEPT !.state = state] = [j EXCEPT !.state = state, !.foreground = j.foreground]
      BY <1>2 DEF Jobs
    <3>3. jobs' = [jobs EXCEPT ![n] = [j EXCEPT !.state = state, !.foreground = j.foreground]]
      BY <3>1, <3>2
    <3>4. JobGoes(n, state, j.foreground)
      BY <1>1, <2>1, <3>3 DEF JobGoes
    <3>5. j.foreground \in BOOLEAN /\ state \in JobStates
      BY <1>2 DEF Jobs, JobStates
    <3> QED
      BY <3>4, <3>5
  <2>2. CASE JobTransfers(n)
    <3>1. Become(n, "transferred") /\ j.state = "queued" /\ j.file \in remote'
      BY <1>1, <2>2 DEF JobTransfers
    <3> QED
      BY <2>1, <3>1
  <2>3. CASE JobFails(n)
    <3>1. Become(n, "error")
      BY <2>3 DEF JobFails
    <3> QED
      BY <2>1, <3>1
  <2>4. CASE JobTransferred(n)
    <3>1. Become(n, "acknowledged")
      BY <2>4 DEF JobTransferred
    <3> QED
      BY <2>1, <3>1
  <2>5. CASE JobError(n)
    <3>1. CASE Become(n, "failed")
      BY <2>1, <3>1
    <3>2. CASE jobs' = [jobs EXCEPT ![n].state = "queued", ![n].foreground = TRUE]
      <4>1. jobs' = [jobs EXCEPT ![n] = [j EXCEPT !.state = "queued", !.foreground = TRUE]]
        BY <1>1, <1>2, <3>2
      <4>2. j.state = "error"
        BY <1>1, <2>5 DEF JobError
      <4>3. JobGoes(n, "queued", TRUE)
        BY <1>1, <4>1, <4>2 DEF JobGoes
      <4>4. "queued" \in JobStates /\ TRUE \in BOOLEAN
        BY DEF JobStates
      <4> QED
        BY <4>3, <4>4
    <3>3. \/ Become(n, "failed")
          \/ jobs' = [jobs EXCEPT ![n].state = "queued", ![n].foreground = TRUE]
      BY <2>5 DEF JobError
    <3> QED
      BY <3>1, <3>2, <3>3
  <2> QED
    BY <2>2, <2>3, <2>4, <2>5 DEF JobStep
<1>4. PICK state \in JobStates, b \in BOOLEAN : JobGoes(n, state, b)
  BY <1>3
<1>5. /\ jobs' = [jobs EXCEPT ![n] = [j EXCEPT !.state = state, !.foreground = b]]
      /\ state # "suspended" /\ (state = "queued" => j.state = "error" /\ b)
      /\ state = "transferred" => j.state = "queued" /\ j.file \in remote'
  BY <1>4, <1>1 DEF JobGoes
<1>6. PICK k : k = [j EXCEPT !.state = state, !.foreground = b]
  OBVIOUS
<1>7. k \in Jobs /\ k.file = j.file /\ k.move = j.move /\ k.state = state /\ k.foreground = b
  BY <1>2, <1>6 DEF Jobs
<1>8. jobs' = [jobs EXCEPT ![n] = k]
  BY <1>5, <1>6
<1>9. jobs' \in Seq(Jobs) /\ DOMAIN jobs' = DOMAIN jobs /\ jobs'[n] = k
      /\ \A i \in DOMAIN jobs : i # n => jobs'[i] = jobs[i]
  BY <1>2, <1>7, <1>8
<1> QED
  BY <1>1, <1>5, <1>7, <1>9

LEMMA UploadTypesKept ==
  ASSUME UploadTypeOK, [Next]_vars
  PROVE  UploadTypeOK'
<1>1. /\ mode \in Modes /\ orders \in Seq(Orders)
      /\ uploading \in {"running", "done"} /\ ready \in BOOLEAN
      /\ jobs \in Seq(Jobs)
      /\ local \subseteq Uploads /\ remote \subseteq Uploads /\ unread \subseteq DOMAIN jobs
  BY DEF UploadTypeOK
<1>2. CASE AgentUpload
  <2>1. /\ Head(orders).file \in Uploads /\ Head(orders).move \in BOOLEAN /\ orders' \in Seq(Orders)
        /\ UNCHANGED <<mode, uploading, ready, unread>>
    BY <1>2, OrderServed DEF AgentUpload
  <2>2. PICK f, b : f = Head(orders).file /\ b = Head(orders).move
    OBVIOUS
  <2>3. UNCHANGED <<jobs, local, remote>> \/ CopyFile(f, b) \/ CreateJob(f, b)
    BY <1>2, <2>2 DEF AgentUpload
  <2>4. CASE UNCHANGED <<jobs, local, remote>>
    BY <1>1, <2>1, <2>4 DEF UploadTypeOK
  <2>5. CASE CopyFile(f, b)
    <3>1. local' \subseteq Uploads /\ remote' \subseteq Uploads /\ jobs' = jobs
      BY <1>1, <2>1, <2>2, <2>5 DEF CopyFile
    <3> QED
      BY <1>1, <2>1, <3>1 DEF UploadTypeOK
  <2>6. CASE CreateJob(f, b)
    <3>1. \/ jobs' = jobs
          \/ \E state \in {"queued", "suspended"} :
               jobs' = Append(jobs, [file |-> f, move |-> b, state |-> state, foreground |-> FALSE])
      BY <2>6 DEF CreateJob
    <3>2. ASSUME NEW state \in {"queued", "suspended"}
          PROVE  [file |-> f, move |-> b, state |-> state, foreground |-> FALSE] \in Jobs
      BY <2>1, <2>2 DEF Jobs, JobStates
    <3>3. jobs' = jobs \/ \E j \in Jobs : jobs' = Append(jobs, j)
      BY <3>1, <3>2
    <3>4. jobs' \in Seq(Jobs) /\ UNCHANGED <<local, remote>> /\ DOMAIN jobs \subseteq DOMAIN jobs'
      BY <1>1, <2>6, <3>3, JobAdded DEF CreateJob
    <3> QED
      BY <1>1, <2>1, <3>4 DEF UploadTypeOK
  <2> QED
    BY <2>3, <2>4, <2>5, <2>6
<1>3. CASE AgentCompleteUploads \/ AgentRefresh
  <2>1. orders' \in Seq(Orders)
    BY <1>3, OrderServed DEF AgentCompleteUploads, AgentRefresh
  <2>2. CASE AgentCompleteUploads
    BY <1>1, <2>1, <2>2 DEF AgentCompleteUploads, UploadTypeOK
  <2>3. CASE AgentRefresh
    <3>1. unread' \subseteq DOMAIN jobs /\ uploading' \in {"running", "done"}
      BY <2>3 DEF AgentRefresh
    <3> QED
      BY <1>1, <2>1, <2>3, <3>1 DEF AgentRefresh, UploadTypeOK
  <2> QED
    BY <1>3, <2>2, <2>3
<1>4. CASE RefreshDue
  <2>1. orders' \in Seq(Orders)
    BY <1>1, <1>4, OrdersSent DEF RefreshDue
  <2> QED
    BY <1>1, <1>4, <2>1 DEF RefreshDue, UploadTypeOK
<1>5. CASE \E n \in DOMAIN jobs : JobStep(n)
  <2>1. PICK n \in DOMAIN jobs : JobStep(n)
    BY <1>5
  <2>2. jobs' \in Seq(Jobs) /\ DOMAIN jobs' = DOMAIN jobs /\ jobs[n].file \in Uploads
    <3>1. jobs[n] \in Jobs
      BY <1>1
    <3> QED
      BY <1>1, <2>1, <3>1, JobMoved DEF Jobs
  <2>3. local' \subseteq Uploads /\ remote' \subseteq Uploads /\ UNCHANGED <<mode, orders, uploading, ready, unread>>
    BY <1>1, <2>1, <2>2 DEF JobStep, JobTransfers, JobFails, JobTransferred, JobError
  <2> QED
    BY <1>1, <2>2, <2>3 DEF UploadTypeOK
<1>6. ASSUME NEW o \in Orders, Send(<<o>>) PROVE UploadTypeOK'
  <2>1. orders' \in Seq(Orders)
    BY <1>1, <1>6 DEF Send
  <2> QED
    BY <1>1, <1>6, <2>1 DEF Send, UploadTypeOK
<1>7. Archive \in Uploads
  BY LauncherAssumption
<1>8. CASE Send(<<UploadFile(Archive, TRUE)>>) \/ Send(<<UploadComplete>>)
  BY <1>6, <1>7, <1>8, OrdersSent
<1>9. CASE UNCHANGED uploadVars
  BY <1>1, <1>9 DEF uploadVars, UploadTypeOK
<1> QED
  BY <1>2, <1>3, <1>4, <1>5, <1>8, <1>9, UploadMoves DEF UploadStep
\* The types of what is modelled here.
OwnTypes ==
  /\ pc \in Steps /\ again \in BOOLEAN
  /\ cmd \in [Names -> {"unsent", "sent", "queued", "running", "exited", "over"}]
  /\ engine \in {"created", "running", "stopping", "done"}
  /\ killAsked \in BOOLEAN /\ doneAsked \in BOOLEAN
  /\ waits \in [Threads -> BOOLEAN]
  /\ exited \in {"no", "main", "console", "undefined"}
  /\ late \in BOOLEAN /\ refused \in BOOLEAN /\ cabbing \in BOOLEAN
  /\ produced \subseteq Files

LEMMA EngineMoves ==
  ASSUME [Next]_vars
  PROVE  \/ EngineStep
         \/ EnqueueCommand /\ UNCHANGED <<engine, killAsked, doneAsked, waits, history>>
         \/ /\ UNCHANGED <<cmd, produced>>
            /\ engine' = engine \/ (engine' = "running" /\ pc = "start" /\ pc' = "enqueue")
<1>1. CASE MainStep
  <2>1. CASE EnqueueCommand
    BY <2>1 DEF EnqueueCommand
  <2>2. CASE StartCommandAgent
    BY <2>2 DEF StartCommandAgent, At, GoTo
  <2>3. CASE MainStep /\ ~EnqueueCommand /\ ~StartCommandAgent
    BY <2>3 DEF MainStep, CreateArchiveAgent, CreateCommandAgent, Throw, AskDone, AskTerminate,
                CommandAgentEnded, CommandAgentTimesOut, RemoveWolfHandler, UnInitializeCommandAgent,
                AskArchive, ArchiveEnded, ArchiveTimesOut, AskUpload, NextExecution, CompleteUpload,
                UploadEnded, WaitForHandlers, Guard, engineVars, history
  <2> QED
    BY <1>1, <2>1, <2>2, <2>3
<1>2. CASE \E t \in Threads : HandlerStep(t)
  BY <1>2 DEF HandlerStep, EnterCommandHandler, LeaveCommandHandler, EnterWolfHandler,
              LeaveWolfHandler, DeleteOutput, engineVars, history
<1>3. CASE \/ ConsoleStep \/ Archiver \/ Uploader \/ Transfer \/ UNCHANGED vars
           \/ MainExits \/ ConsoleExits \/ \E t \in Threads : DanglingHandler(t)
  BY <1>3 DEF ConsoleStep, Archiver, Uploader, Transfer, MainExits, ConsoleExits, DanglingHandler,
              engineVars, history, vars
<1> QED
  BY <1>1, <1>2, <1>3 DEF Next

LEMMA OwnTypesKept ==
  ASSUME OwnTypes, [Next]_vars
  PROVE  OwnTypes'
<1>1. /\ pc \in Steps /\ again \in BOOLEAN
      /\ cmd \in [Names -> {"unsent", "sent", "queued", "running", "exited", "over"}]
      /\ engine \in {"created", "running", "stopping", "done"}
      /\ killAsked \in BOOLEAN /\ doneAsked \in BOOLEAN
      /\ waits \in [Threads -> BOOLEAN]
      /\ exited \in {"no", "main", "console", "undefined"}
      /\ late \in BOOLEAN /\ refused \in BOOLEAN /\ cabbing \in BOOLEAN
      /\ produced \subseteq Files /\ Names \subseteq Files
  BY CommandsAreFiles DEF OwnTypes
<1>2. pc' \in Steps
  BY <1>1, PathOfMain DEF MainMoves, Steps
<1>3. exited' \in {"no", "main", "console", "undefined"}
  BY <1>1, Exits
<1>4. /\ cmd' \in [Names -> {"unsent", "sent", "queued", "running", "exited", "over"}]
      /\ engine' \in {"created", "running", "stopping", "done"} /\ produced' \subseteq Files
  <2>1. CASE EnqueueCommand /\ UNCHANGED <<engine, produced>>
    BY <1>1, <2>1 DEF EnqueueCommand
  <2>2. CASE \E c \in Names : Prepare(c) \/ Run(c) \/ ProcessEnds(c) \/ CompleteCommand(c)
    BY <1>1, <2>2 DEF Prepare, Run, ProcessEnds, CompleteCommand, Step, Output, history
  <2>3. CASE KillAll
    BY <1>1, <2>3 DEF KillAll, Output
  <2>4. CASE ReadDone \/ EngineEnds
    BY <1>1, <2>4 DEF ReadDone, EngineEnds, history
  <2> QED
    BY <1>1, <2>1, <2>2, <2>3, <2>4, EngineMoves DEF EngineStep, history
<1>5. /\ again' \in BOOLEAN /\ killAsked' \in BOOLEAN /\ doneAsked' \in BOOLEAN
      /\ waits' \in [Threads -> BOOLEAN]
      /\ late' \in BOOLEAN /\ refused' \in BOOLEAN /\ cabbing' \in BOOLEAN
  <2>1. CASE MainStep
    BY <1>1, <2>1 DEF MainStep, CreateArchiveAgent, CreateCommandAgent, StartCommandAgent, EnqueueCommand,
                      Throw, AskDone, AskTerminate, CommandAgentEnded, CommandAgentTimesOut,
                      RemoveWolfHandler, UnInitializeCommandAgent, AskArchive, ArchiveEnded,
                      ArchiveTimesOut, AskUpload, NextExecution, CompleteUpload, UploadEnded,
                      WaitForHandlers, Guard, SameRobust, engineVars, history
  <2>2. CASE EngineStep
    <3>1. UNCHANGED <<again, waits, late, refused, cabbing>>
      BY <2>2 DEF EngineStep, Prepare, Run, ProcessEnds, CompleteCommand, KillAll, ReadDone, EngineEnds,
                  Output, SameRobust, mainVars, history
    <3>2. killAsked' \in {killAsked, FALSE} /\ doneAsked' \in {doneAsked, FALSE}
      BY <2>2 DEF EngineStep, Prepare, Run, ProcessEnds, CompleteCommand, KillAll, ReadDone, EngineEnds
    <3> QED
      BY <1>1, <3>1, <3>2
  <2>3. ASSUME NEW t \in Threads, HandlerStep(t)
        PROVE  /\ again' \in BOOLEAN /\ killAsked' \in BOOLEAN /\ doneAsked' \in BOOLEAN
               /\ waits' \in [Threads -> BOOLEAN]
               /\ late' \in BOOLEAN /\ refused' \in BOOLEAN /\ cabbing' \in BOOLEAN
    <3>1. CASE EnterCommandHandler(t) \/ EnterWolfHandler(t) \/ DeleteOutput(t)
      BY <1>1, <3>1 DEF EnterCommandHandler, EnterWolfHandler, DeleteOutput, mainVars, engineVars, history
    <3>2. CASE LeaveCommandHandler(t)
      BY <1>1, <3>2 DEF LeaveCommandHandler, mainVars, engineVars
    <3>3. CASE LeaveWolfHandler(t)
      BY <1>1, <3>3 DEF LeaveWolfHandler, mainVars, engineVars
    <3> QED
      BY <2>3, <3>1, <3>2, <3>3 DEF HandlerStep
  <2>4. CASE ConsoleStep
    BY <1>1, <2>4 DEF ConsoleStep, mainVars, engineVars
  <2>5. CASE \/ Archiver \/ Uploader \/ Transfer \/ UNCHANGED vars
             \/ MainExits \/ ConsoleExits \/ \E t \in Threads : DanglingHandler(t)
    BY <1>1, <2>5 DEF Archiver, Uploader, Transfer, MainExits, ConsoleExits, DanglingHandler,
                SameRobust, mainVars, engineVars, history, vars
  <2> QED
    BY <2>1, <2>2, <2>3, <2>4, <2>5 DEF Next
<1> QED
  BY <1>1, <1>2, <1>3, <1>4, <1>5 DEF OwnTypes

TypesHold == TypeOK /\ Compressing

LEMMA TypesInit == Init => TypesHold
<1> SUFFICES ASSUME Init PROVE TypesHold
  OBVIOUS
<1>1. CommandHandler \in Handlers /\ Archive \in Uploads /\ Stats \in Files
  BY LauncherAssumption
<1>2. AgentTypeOK /\ Compressing
  BY <1>1 DEF Init, AgentInit, AgentTypeOK, Compressing
<1>3. RobustTypeOK
  <2>1. /\ handlers = <<>> /\ terminateCalled = FALSE /\ signaled = TRUE
        /\ terminating = [t \in Threads |-> "out"] /\ taken = [t \in Threads |-> <<>>]
    BY DEF Init, RobustInit
  <2>2. "out" \in TerminateSteps /\ <<>> \in Seq(Handlers)
    BY DEF TerminateSteps
  <2>3. terminating \in [Threads -> TerminateSteps] /\ taken \in [Threads -> Seq(Handlers)]
    BY <2>1, <2>2
  <2> QED
    BY <2>1, <2>2, <2>3 DEF RobustTypeOK
<1>4. UploadTypeOK
  <2>1. /\ mode \in Modes /\ orders = <<>> /\ uploading = "running" /\ ready = FALSE
        /\ jobs = <<>> /\ remote = {} /\ local = {Archive} /\ unread = {}
    BY DEF Init, UploadInit
  <2>2. orders \in Seq(Orders) /\ jobs \in Seq(Jobs)
    <3>1. <<>> \in Seq(Orders) /\ <<>> \in Seq(Jobs)
      OBVIOUS
    <3> QED
      BY <2>1, <3>1
  <2> QED
    BY <1>1, <2>1, <2>2 DEF UploadTypeOK
<1>5. OwnTypes
  BY <1>1 DEF Init, OwnTypes, Steps
<1> QED
  BY <1>2, <1>3, <1>4, <1>5 DEF TypesHold, TypeOK, OwnTypes

LEMMA TypesStep == TypesHold /\ [Next]_vars => TypesHold'
<1> SUFFICES ASSUME TypesHold, [Next]_vars PROVE TypesHold'
  OBVIOUS
<1>1. /\ AgentTypeOK /\ RobustTypeOK /\ UploadTypeOK /\ OwnTypes /\ Compressing
      /\ handlers \in Seq(Handlers)
  BY DEF TypesHold, TypeOK, OwnTypes, RobustTypeOK
<1>2. AgentTypeOK' /\ Compressing' /\ RobustTypeOK' /\ UploadTypeOK' /\ OwnTypes'
  BY <1>1, AgentTypesKept, RobustTypesKept, UploadTypesKept, OwnTypesKept
<1> QED
  BY <1>2 DEF TypesHold, TypeOK, OwnTypes

LEMMA TypesInvariant == Spec => []TypesHold
BY TypesInit, TypesStep, PTL DEF Spec

\* Every variable keeps to its values, in every agent.
THEOREM TypesCorrect == Spec => []TypeOK
<1>1. TypesHold => TypeOK
  BY DEF TypesHold
<1> QED
  BY <1>1, TypesInvariant, PTL
-----------------------------------------------------------------------------
(***************************************************************************)
(* The upload agent leaves no transfer behind.                             *)
(***************************************************************************)
Uploaded == {"event", "destroy", "destroyed", "guard", "end"}

\* Once the agent is done no job is made, and one is queued again only to go on in the
\* foreground; those in progress then are those it did not see.
UploadsInv ==
  /\ pc \in Uploaded => uploading = "done"
  /\ uploading = "done" /\ mode = "synchronous" =>
       \A n \in DOMAIN jobs :
         jobs[n].state \in InProgress => jobs[n].foreground \/ n \in unread
  /\ exited = "main" => pc = "end"

LEMMA UploadsStep ==
  ASSUME TypesHold, UploadsInv, [Next]_vars
  PROVE  UploadsInv'
<1>1. /\ mode \in Modes /\ uploading \in {"running", "done"} /\ jobs \in Seq(Jobs)
  BY DEF TypesHold, TypeOK, UploadTypeOK
<1>2. exited' = "main" => pc' = "end"
  <2>1. CASE exited' = exited
    BY <2>1, PathOfMain DEF UploadsInv, MainMoves
  <2>2. CASE exited' # exited
    BY <2>2, Exits DEF mainVars
  <2> QED
    BY <2>1, <2>2
<1>3. /\ uploading = "done" => uploading' = "done"
      /\ uploading' = "done" /\ mode' = "synchronous" =>
           \A n \in DOMAIN jobs' :
             jobs'[n].state \in InProgress => jobs'[n].foreground \/ n \in unread'
  <2>1. CASE \E n \in DOMAIN jobs : JobStep(n)
    <3>1. PICK n \in DOMAIN jobs : JobStep(n)
      BY <2>1
    <3>2. /\ DOMAIN jobs' = DOMAIN jobs /\ \A k \in DOMAIN jobs : k # n => jobs'[k] = jobs[k]
          /\ jobs'[n].state \in InProgress => jobs'[n].foreground
      BY <1>1, <3>1, JobMoved DEF InProgress
    <3>3. UNCHANGED <<mode, uploading, unread>>
      BY <3>1 DEF JobStep, JobTransfers, JobFails, JobTransferred, JobError
    <3> QED
      BY <3>2, <3>3 DEF UploadsInv
  <2>2. CASE AgentRefresh
    BY <2>2 DEF AgentRefresh, Ordered, IsComplete, UploadsInv
  <2>3. CASE AgentUpload \/ AgentCompleteUploads \/ RefreshDue
    BY <1>1, <2>3 DEF AgentUpload, AgentCompleteUploads, RefreshDue, Ordered, UploadsInv
  <2>4. CASE UNCHANGED <<mode, uploading, jobs, unread>>
    BY <2>4 DEF UploadsInv
  <2>5. CASE Send(<<UploadFile(Archive, TRUE)>>) \/ Send(<<UploadComplete>>) \/ UNCHANGED uploadVars
    BY <2>4, <2>5 DEF Send, uploadVars
  <2> QED
    BY <2>1, <2>2, <2>3, <2>5, UploadMoves DEF UploadStep
<1>4. pc' \in Uploaded => pc \in Uploaded \/ uploading = "done"
  BY PathOfMain DEF MainMoves, Uploaded
<1> QED
  BY <1>2, <1>3, <1>4 DEF UploadsInv

\* In synchronous mode the process does not leave while a transfer goes on, but for one that is
\* tried again in the foreground and one whose state the last look at the jobs could not have.
THEOREM NoTransferLeft == Spec => []UploadsOver
<1>1. Init => UploadsInv
  BY DEF Init, UploadInit, UploadsInv, Uploaded
<1>2. TypesHold /\ UploadsInv /\ [Next]_vars => UploadsInv'
  BY UploadsStep
<1>3. UploadsInv => UploadsOver
  BY DEF UploadsInv, UploadsOver, Uploaded
<1> QED
  BY <1>1, <1>2, <1>3, TypesInvariant, PTL DEF Spec

-----------------------------------------------------------------------------
(***************************************************************************)
(* A termination handler is in one place.                                  *)
(***************************************************************************)
\* What is registered has been: each handler is registered by one step that is taken once.
Known(h) ==
  /\ h = WolfHandler => pc \notin {"archive", "agent"}
  /\ h = CommandHandler => pc \notin {"archive", "agent", "init"}
  /\ h \in Names => cmd[h] \notin {"unsent", "sent"}

CallInv ==
  /\ \A h : In(h, handlers) => Known(h) /\ \A t \in Threads : ~In(h, taken[t])
  /\ \A h : \A t \in Threads : In(h, taken[t]) => Known(h)
  /\ \A h : ~(In(h, taken[Main]) /\ In(h, taken[Console]))

LEMMA CommandsGoOn ==
  ASSUME OwnTypes, [Next]_vars, NEW c \in Names, cmd[c] \notin {"unsent", "sent"}
  PROVE  cmd'[c] \notin {"unsent", "sent"}
<1>1. cmd \in [Names -> {"unsent", "sent", "queued", "running", "exited", "over"}]
  BY DEF OwnTypes
<1>2. CASE EnqueueCommand
  <2>1. cmd' = cmd \/ \E n \in DOMAIN Commands : /\ cmd[Commands[n]] = "unsent"
                                                /\ cmd' = [cmd EXCEPT ![Commands[n]] = "sent"]
    <3> DEFINE unsent == {n \in DOMAIN Commands : cmd[Commands[n]] = "unsent"}
               next == CHOOSE n \in unsent : \A k \in unsent : n <= k
    <3>1. CASE unsent = {}
      BY <1>2, <3>1 DEF EnqueueCommand
    <3>2. CASE unsent # {}
      <4>1. cmd' = [cmd EXCEPT ![Commands[next]] = "sent"]
        BY <1>2, <3>2 DEF EnqueueCommand
      <4>2. next \in unsent
        <5>1. unsent \in SUBSET Nat
          BY LauncherAssumption
        <5> HIDE DEF unsent
        <5>2. \E n \in unsent : \A k \in unsent : n <= k
          BY <3>2, <5>1, Smallest
        <5> QED
          BY <5>2
      <4> QED
        BY <4>1, <4>2
    <3> QED
      BY <3>1, <3>2
  <2> QED
    BY <1>1, <2>1
<1>3. CASE EngineStep
  <2>1. CASE \E d \in Names : Prepare(d) \/ Run(d) \/ ProcessEnds(d) \/ CompleteCommand(d)
    BY <1>1, <2>1 DEF Prepare, Run, ProcessEnds, CompleteCommand, Step
  <2>2. CASE KillAll
    BY <1>1, <2>2 DEF KillAll
  <2>3. CASE ReadDone \/ EngineEnds
    BY <1>1, <2>3 DEF ReadDone, EngineEnds
  <2> QED
    BY <1>3, <2>1, <2>2, <2>3 DEF EngineStep
<1> QED
  BY <1>2, <1>3, EngineMoves
LEMMA KnownKept ==
  ASSUME OwnTypes, [Next]_vars, NEW h, Known(h)
  PROVE  Known(h)'
<1>1. h = WolfHandler => pc' \notin {"archive", "agent"}
  BY PathOfMain DEF Known, MainMoves
<1>2. h = CommandHandler => pc' \notin {"archive", "agent", "init"}
  BY PathOfMain DEF Known, MainMoves
<1>3. h \in Names => cmd'[h] \notin {"unsent", "sent"}
  BY CommandsGoOn DEF Known
<1> QED
  BY <1>1, <1>2, <1>3 DEF Known

LEMMA TailIn ==
  ASSUME NEW U, NEW list \in Seq(U), list # <<>>
  PROVE  Tail(list) \in Seq(U) /\ \A x : In(x, Tail(list)) => In(x, list)
<1>1. Tail(list) \in Seq(U) /\ \A n \in DOMAIN Tail(list) : n + 1 \in DOMAIN list /\ Tail(list)[n] = list[n + 1]
  OBVIOUS
<1> QED
  BY <1>1 DEF In

LEMMA Registered ==
  ASSUME TypesHold, NEW h, Registers(h)
  PROVE  /\ h \in Handlers /\ ~Known(h) /\ Known(h)'
         /\ \A x : In(x, handlers') => In(x, handlers) \/ x = h
<1>1. /\ {CommandHandler, WolfHandler} \cup Files \subseteq Handlers
      /\ CommandHandler # WolfHandler /\ {CommandHandler, WolfHandler} \cap Files = {}
      /\ Names \subseteq Files
  BY LauncherAssumption, CommandsAreFiles
<1>2. cmd \in [Names -> {"unsent", "sent", "queued", "running", "exited", "over"}]
      /\ handlers \in Seq(Handlers)
  BY DEF TypesHold, TypeOK, RobustTypeOK
<1>3. h \in Handlers
  BY <1>1 DEF Registers
<1>4. \A x : In(x, handlers') => In(x, handlers) \/ x = h
  BY <1>2, <1>3, WithIn DEF Registers, AddTerminationHandler
<1>5. CASE h = WolfHandler /\ pc = "agent" /\ pc' = "init"
  BY <1>1, <1>3, <1>4, <1>5 DEF Known
<1>6. CASE h = CommandHandler /\ pc = "init" /\ pc' = "start"
  BY <1>1, <1>3, <1>4, <1>6 DEF Known
<1>7. CASE h \in Names /\ cmd[h] = "sent" /\ cmd' = [cmd EXCEPT ![h] = "queued"]
  <2>1. cmd'[h] = "queued" /\ h # WolfHandler /\ h # CommandHandler
    BY <1>1, <1>2, <1>7
  <2> QED
    BY <1>3, <1>4, <1>7, <2>1 DEF Known
<1> QED
  BY <1>5, <1>6, <1>7 DEF Registers

\* Nothing is registered twice, and the lists only lose elements but when they are swapped.
LEMMA ListsMove ==
  ASSUME TypesHold, [Next]_vars
  PROVE  \/ (\A x : In(x, handlers') => In(x, handlers)) /\ SameThreads
         \/ \E h : Registers(h)
         \/ \E t \in Threads : SwapHandlers(t)
         \/ /\ UNCHANGED handlers
            /\ \A t \in Threads : \A x : In(x, taken'[t]) => In(x, taken[t])
<1>1. /\ handlers \in Seq(Handlers) /\ AgentTypeOK /\ Compressing
      /\ taken \in [Threads -> Seq(Handlers)] /\ Threads = {Main, Console}
  BY LauncherAssumption DEF TypesHold, TypeOK, RobustTypeOK
<1>2. CASE AgentStep /\ SameThreads
  <2>1. \A x : In(x, handlers') => In(x, handlers)
    BY <1>1, <1>2, AgentTyped, CommandsAreFiles DEF HandlersKept
  <2> QED
    BY <1>2, <2>1
<1>3. CASE \E gone : Removes(gone)
  BY <1>1, <1>3, WithoutIn DEF Removes, RemoveTerminationHandlers
<1>4. ASSUME NEW t \in Threads, TerminateStep(t)
      PROVE SwapHandlers(t) \/ UNCHANGED <<handlers, taken>>
  BY <1>4 DEF TerminateStep, EnterTerminate, ResetTheEvent, AllHandlersCalled, SetTheEvent, SetTerminateCalled
<1>5. CASE \E t \in Threads : HandlerReturns(t)
  <2>1. PICK t \in Threads : HandlerReturns(t)
    BY <1>5
  <2>2. UNCHANGED handlers /\ taken' = [taken EXCEPT ![t] = Tail(taken[t])] /\ taken[t] # <<>>
    BY <2>1 DEF HandlerReturns
  <2>3. \A x : In(x, Tail(taken[t])) => In(x, taken[t])
    BY <1>1, <2>2, TailIn
  <2> QED
    BY <1>1, <2>2, <2>3
<1>6. CASE UNCHANGED robustVars
  BY <1>6 DEF robustVars
<1> QED
  BY <1>1, <1>2, <1>3, <1>4, <1>5, <1>6, RobustMoves DEF Returns

LEMMA CallStep ==
  ASSUME TypesHold, CallInv, [Next]_vars
  PROVE  CallInv'
<1>1. /\ taken \in [Threads -> Seq(Handlers)] /\ OwnTypes
      /\ Threads = {Main, Console} /\ Main # Console
  BY LauncherAssumption DEF TypesHold, TypeOK, RobustTypeOK, OwnTypes
<1>2. \A h : Known(h) => Known(h)'
  BY <1>1, KnownKept
<1>3. CASE (\A x : In(x, handlers') => In(x, handlers)) /\ SameThreads
  BY <1>2, <1>3 DEF CallInv, SameThreads
<1>4. CASE \E h : Registers(h)
  <2>1. PICK h : Registers(h)
    BY <1>4
  <2>2. ~Known(h) /\ Known(h)' /\ \A x : In(x, handlers') => In(x, handlers) \/ x = h
    BY <2>1, Registered
  <2>3. taken' = taken
    BY <2>1 DEF Registers, SameThreads
  <2> QED
    BY <1>2, <2>2, <2>3 DEF CallInv
<1>5. CASE \E t \in Threads : SwapHandlers(t)
  <2>1. PICK t \in Threads : SwapHandlers(t)
    BY <1>5
  <2>2. taken' = [taken EXCEPT ![t] = handlers] /\ handlers' = <<>>
    BY <2>1 DEF SwapHandlers
  <2>3. taken'[t] = handlers /\ (\A u \in Threads : u # t => taken'[u] = taken[u])
        /\ \A x : ~In(x, handlers')
    BY <1>1, <2>2 DEF In
  <2> QED
    BY <1>1, <1>2, <2>3 DEF CallInv
<1>6. CASE /\ UNCHANGED handlers
           /\ \A t \in Threads : \A x : In(x, taken'[t]) => In(x, taken[t])
  BY <1>1, <1>2, <1>6 DEF CallInv
<1> QED
  BY <1>3, <1>4, <1>5, <1>6, ListsMove

LEMMA CallInit == Init => CallInv
<1> SUFFICES ASSUME Init PROVE CallInv
  OBVIOUS
<1>1. handlers = <<>> /\ taken = [t \in Threads |-> <<>>] /\ Threads = {Main, Console}
  BY LauncherAssumption DEF Init, RobustInit
<1>2. \A h : ~In(h, handlers) /\ \A t \in Threads : ~In(h, taken[t])
  BY <1>1 DEF In
<1> QED
  BY <1>1, <1>2 DEF CallInv

LEMMA CallInvariant == Spec => []CallInv
BY CallInit, CallStep, TypesInvariant, PTL DEF Spec

\* Whatever the console event and the end of the main thread do at the same time, a termination
\* handler is with one thread at most.
THEOREM CalledOnce == Spec => []CalledByOne
<1>1. CallInv => CalledByOne
  <2> SUFFICES ASSUME CallInv, NEW h \in Handlers
               PROVE  Cardinality({t \in Threads : In(h, taken[t])}) <= 1
    BY DEF CalledByOne, In
  <2>1. ~(In(h, taken[Main]) /\ In(h, taken[Console])) /\ Threads = {Main, Console}
    BY LauncherAssumption DEF CallInv
  <2> DEFINE C == {t \in Threads : In(h, taken[t])}
  <2>2. C = {} \/ C = {Main} \/ C = {Console}
    BY <2>1
  <2> HIDE DEF C
  <2>3. Cardinality({}) = 0 /\ Cardinality({Main}) = 1 /\ Cardinality({Console}) = 1
    BY FS_EmptySet, FS_Singleton
  <2>4. Cardinality(C) <= 1
    BY <2>2, <2>3
  <2> QED
    BY <2>4 DEF C
<1> QED
  BY <1>1, CallInvariant, PTL

-----------------------------------------------------------------------------
(***************************************************************************)
(* What is called after the execution is destroyed.                        *)
(***************************************************************************)
\* Before the static guard only the console thread terminates, and the event tells when it is at it.
ThreadsInv ==
  /\ \A t \in Threads : taken[t] # <<>> => terminating[t] = "call"
  /\ ~Destroyed => /\ terminating[Main] = "out"
                   /\ terminating[Console] \in {"swap", "call", "signal"} => ~signaled
                   /\ terminateCalled => terminating[Console] = "over"
  /\ terminating[Console] = "over" => terminateCalled

LEMMA ThreadsStep ==
  ASSUME TypesHold, ThreadsInv, [Next]_vars
  PROVE  ThreadsInv'
<1>1. /\ terminating \in [Threads -> TerminateSteps] /\ taken \in [Threads -> Seq(Handlers)]
      /\ Threads = {Main, Console} /\ Main # Console
  BY LauncherAssumption DEF TypesHold, TypeOK, RobustTypeOK
<1>2. Destroyed => Destroyed'
  BY PathOfMain DEF MainMoves, Destroyed
<1>3. CASE SameThreads
  BY <1>2, <1>3 DEF SameThreads, ThreadsInv
<1>4. ASSUME NEW t \in Threads, TerminateStep(t)
      PROVE  \/ /\ terminating[t] = "out" /\ terminating' = [terminating EXCEPT ![t] = IF terminateCalled THEN "over" ELSE "reset"]
                /\ UNCHANGED <<taken, signaled, terminateCalled>>
             \/ /\ terminating[t] = "reset" /\ terminating' = [terminating EXCEPT ![t] = "swap"]
                /\ ~signaled' /\ UNCHANGED <<taken, terminateCalled>>
             \/ /\ terminating[t] = "swap" /\ terminating' = [terminating EXCEPT ![t] = "call"]
                /\ taken' = [taken EXCEPT ![t] = handlers] /\ UNCHANGED <<signaled, terminateCalled>>
             \/ /\ terminating[t] = "call" /\ terminating' = [terminating EXCEPT ![t] = "signal"]
                /\ taken[t] = <<>> /\ UNCHANGED <<taken, signaled, terminateCalled>>
             \/ /\ terminating[t] = "signal" /\ terminating' = [terminating EXCEPT ![t] = "flag"]
                /\ UNCHANGED <<taken, terminateCalled>>
             \/ /\ terminating[t] = "flag" /\ terminating' = [terminating EXCEPT ![t] = "over"]
                /\ terminateCalled' /\ UNCHANGED <<taken, signaled>>
  BY <1>4 DEF TerminateStep, EnterTerminate, ResetTheEvent, SwapHandlers, AllHandlersCalled, SetTheEvent,
              SetTerminateCalled, GoOn
<1>5. CASE pc = "guard" /\ TerminateStep(Main)
  <2>1. Destroyed'
    BY <1>2, <1>5 DEF Destroyed
  <2>2. terminating'[Console] = terminating[Console] /\ (terminateCalled => terminateCalled')
    BY <1>1, <1>4, <1>5
  <2>3. \A t \in Threads : taken'[t] # <<>> => terminating'[t] = "call"
    BY <1>1, <1>4, <1>5 DEF ThreadsInv
  <2> QED
    BY <2>1, <2>2, <2>3 DEF ThreadsInv
<1>6. CASE TerminateStep(Console)
  <2>1. \A t \in Threads : taken'[t] # <<>> => terminating'[t] = "call"
    BY <1>1, <1>4, <1>6 DEF ThreadsInv
  <2>2. terminating'[Console] = "over" => terminateCalled'
    BY <1>1, <1>4, <1>6 DEF ThreadsInv
  <2>3. ASSUME ~Destroyed PROVE /\ terminating'[Main] = "out"
                                /\ terminating'[Console] \in {"swap", "call", "signal"} => ~signaled'
                                /\ terminateCalled' => terminating'[Console] = "over"
    BY <1>1, <1>4, <1>6, <2>3 DEF ThreadsInv
  <2> QED
    BY <1>2, <2>1, <2>2, <2>3 DEF ThreadsInv
<1>7. CASE \E t \in Threads : HandlerReturns(t)
  <2>1. PICK t \in Threads : HandlerReturns(t)
    BY <1>7
  <2>2. /\ terminating[t] = "call" /\ taken' = [taken EXCEPT ![t] = Tail(taken[t])]
        /\ UNCHANGED <<terminateCalled, signaled, terminating>>
    BY <2>1 DEF HandlerReturns
  <2>3. \A u \in Threads : taken'[u] # <<>> => terminating[u] = "call"
    BY <1>1, <2>2 DEF ThreadsInv
  <2> QED
    BY <1>2, <2>2, <2>3 DEF ThreadsInv
<1>8. CASE UNCHANGED robustVars
  BY <1>3, <1>8 DEF robustVars, SameThreads
<1> QED
  BY <1>3, <1>5, <1>6, <1>7, <1>8, RobustMoves DEF Registers, Removes, Returns

LEMMA ThreadsInvariant == Spec => []ThreadsInv
<1>1. Init => ThreadsInv
  <2> SUFFICES ASSUME Init PROVE ThreadsInv
    OBVIOUS
  <2>1. /\ terminateCalled = FALSE /\ pc = "archive" /\ Threads = {Main, Console}
        /\ terminating = [t \in Threads |-> "out"] /\ taken = [t \in Threads |-> <<>>]
    BY LauncherAssumption DEF Init, RobustInit
  <2> QED
    BY <2>1 DEF ThreadsInv
<1>2. TypesHold /\ ThreadsInv /\ [Next]_vars => ThreadsInv'
  BY ThreadsStep
<1> QED
  BY <1>1, <1>2, TypesInvariant, PTL DEF Spec

Leaving == {"destroy", "destroyed", "guard", "end"}
After(h) == {"stats", "archived", "upload", "next", "close", "uploads", "event"} \cup Leaving
             \cup (IF h = WolfHandler THEN {"unload"} ELSE {})

\* A console event ended before the main thread began: nothing is called any more.
OverForAll == terminating[Console] = "over" /\ terminating[Main] \in {"out", "over"}

\* The handlers of the execution are removed on the way to its end, and the last of the calls is
\* waited for.
Clean ==
  /\ pc \notin {"term", "killed"}
  /\ \A h \in {CommandHandler, WolfHandler} :
       /\ pc \in After(h) => ~In(h, handlers) \/ OverForAll
       /\ pc \in Leaving => \A t \in Threads : ~In(h, taken[t])

DangleInv ==
  /\ exited = "undefined" => late \/ refused
  /\ late \/ refused \/ Clean

LEMMA OverStays ==
  ASSUME TypesHold, ThreadsInv, [Next]_vars, OverForAll
  PROVE  OverForAll'
<1>1. /\ terminating \in [Threads -> TerminateSteps]
      /\ Threads = {Main, Console} /\ Main # Console /\ terminateCalled
  BY LauncherAssumption DEF TypesHold, TypeOK, RobustTypeOK, OverForAll, ThreadsInv
<1>2. CASE UNCHANGED terminating
  BY <1>2 DEF OverForAll
<1>3. CASE TerminateStep(Main)
  BY <1>1, <1>3 DEF OverForAll, TerminateStep, EnterTerminate, ResetTheEvent, SwapHandlers, AllHandlersCalled,
                    SetTheEvent, SetTerminateCalled, GoOn
<1>4. CASE TerminateStep(Console)
  BY <1>1, <1>4 DEF OverForAll, TerminateStep, EnterTerminate, ResetTheEvent, SwapHandlers, AllHandlersCalled,
                    SetTheEvent, SetTerminateCalled
<1> QED
  BY <1>2, <1>3, <1>4, RobustMoves DEF SameThreads, Registers, Removes, Returns, HandlerReturns, robustVars

LEMMA CleanStep ==
  ASSUME TypesHold, CallInv, ThreadsInv, [Next]_vars, Clean, ~late', ~refused'
  PROVE  Clean'
<1>1. /\ handlers \in Seq(Handlers) /\ taken \in [Threads -> Seq(Handlers)]
      /\ Threads = {Main, Console} /\ Main # Console
      /\ CommandHandler # WolfHandler /\ {CommandHandler, WolfHandler} \cap Names = {}
  BY LauncherAssumption, CommandsAreFiles DEF TypesHold, TypeOK, RobustTypeOK
<1>2. pc' \notin {"term", "killed"}
  BY PathOfMain DEF MainMoves, Clean
<1>3. ASSUME NEW h \in {CommandHandler, WolfHandler}, pc' \in After(h)
      PROVE  ~In(h, handlers') \/ OverForAll'
  <2>1. \/ pc \in After(h) \/ pc = "archive"
        \/ pc \in {"remove", "unload"} /\ RemoveTerminationHandlers({h}) /\ SameThreads
    <3>1. CASE h = WolfHandler
      <4>1. After(h) = {"unload", "stats", "archived", "upload", "next", "close", "uploads", "event"} \cup Leaving
        BY <3>1 DEF After
      <4> QED
        BY <1>3, <3>1, <4>1, PathOfMain DEF MainMoves, Clean, Leaving
    <3>2. CASE h = CommandHandler
      <4>1. After(h) = {"stats", "archived", "upload", "next", "close", "uploads", "event"} \cup Leaving
        BY <1>1, <3>2 DEF After
      <4> QED
        BY <1>3, <3>2, <4>1, PathOfMain DEF MainMoves, Clean, Leaving
    <3> QED
      BY <3>1, <3>2
  <2>2. pc \in After(h) \cup {"archive"} => (In(h, handlers') => In(h, handlers))
    <3>1. pc \in After(h) \cup {"archive"} => ~Registers(h)
      BY <1>1 DEF Registers, After, Leaving
    <3>2. \A x : Registers(x) => (\A y : In(y, handlers') => In(y, handlers) \/ y = x)
      BY Registered
    <3>3. \A t \in Threads : SwapHandlers(t) => ~In(h, handlers')
      BY DEF SwapHandlers, In
    <3> QED
      BY <3>1, <3>2, <3>3, ListsMove
  <2>3. CASE pc \in After(h)
    BY <2>2, <2>3, OverStays DEF Clean
  <2>4. CASE pc = "archive"
    <3>1. ~Known(h)
      BY <2>4 DEF Known
    <3> QED
      BY <2>2, <2>4, <3>1 DEF CallInv
  <2>5. CASE pc \in {"remove", "unload"} /\ RemoveTerminationHandlers({h}) /\ SameThreads
    <3>1. CASE terminateCalled
      BY <2>5, <3>1 DEF ThreadsInv, Destroyed, OverForAll, SameThreads
    <3>2. CASE ~terminateCalled
      BY <1>1, <2>5, <3>2, WithoutIn DEF RemoveTerminationHandlers
    <3> QED
      BY <3>1, <3>2
  <2> QED
    BY <2>1, <2>3, <2>4, <2>5
<1>4. ASSUME NEW h \in {CommandHandler, WolfHandler}, pc' \in Leaving, NEW t \in Threads
      PROVE  ~In(h, taken'[t])
  <2>1. pc \in Leaving \/ (pc = "event" /\ signaled /\ UNCHANGED robustVars)
    BY <1>4, PathOfMain DEF MainMoves, Leaving
  <2>2. CASE pc = "event" /\ signaled /\ UNCHANGED robustVars
    <3>1. taken[t] = <<>>
      BY <1>1, <2>2 DEF ThreadsInv, Destroyed
    <3> QED
      BY <2>2, <3>1 DEF In, robustVars
  <2>3. CASE pc \in Leaving
    <3>1. ~In(h, taken[t]) /\ pc \in After(h)
      BY <2>3 DEF Clean, After
    <3>2. \A u \in Threads : SwapHandlers(u) => ~In(h, taken'[t])
      <4> SUFFICES ASSUME NEW u \in Threads, SwapHandlers(u) PROVE ~In(h, taken'[t])
        OBVIOUS
      <4>1. ~OverForAll
        BY <1>1 DEF OverForAll, SwapHandlers
      <4>2. ~In(h, handlers) /\ taken' = [taken EXCEPT ![u] = handlers]
        BY <3>1, <4>1 DEF Clean, SwapHandlers
      <4> QED
        BY <1>1, <3>1, <4>2
    <3> QED
      BY <3>1, <3>2, ListsMove DEF SameThreads, Registers
  <2> QED
    BY <2>1, <2>2, <2>3
<1> QED
  BY <1>2, <1>3, <1>4 DEF Clean

LEMMA DangleStep ==
  ASSUME TypesHold, CallInv, ThreadsInv, DangleInv, [Next]_vars
  PROVE  DangleInv'
<1>1. (late => late') /\ (refused => refused')
  BY PathOfMain
<1>2. late' \/ refused' \/ Clean'
  BY <1>1, CleanStep DEF DangleInv
<1>3. exited' = "undefined" => late' \/ refused'
  <2>1. CASE exited' = exited
    BY <1>1, <2>1 DEF DangleInv
  <2>2. CASE exited' # exited /\ exited' = "undefined"
    <3>1. Destroyed /\ \E t \in Threads : \E h \in {CommandHandler, WolfHandler} : Calling(t, h)
      BY <2>2, Exits
    <3>2. PICK t \in Threads, h \in {CommandHandler, WolfHandler} : Calling(t, h)
      BY <3>1
    <3>3. taken[t] \in Seq(Handlers)
      BY DEF TypesHold, TypeOK, RobustTypeOK
    <3>4. In(h, taken[t])
      BY <3>2, <3>3 DEF Calling, In
    <3> QED
      BY <1>1, <3>1, <3>4 DEF Destroyed, DangleInv, Clean, Leaving
  <2> QED
    BY <2>1, <2>2
<1> QED
  BY <1>2, <1>3 DEF DangleInv

\* No handler of the execution is called after the execution is destroyed, unless a wait was given
\* up or the commands could not be sent.
THEOREM NothingDangles == Spec => []NoDanglingHandler
<1>1. Init => DangleInv
  <2> SUFFICES ASSUME Init PROVE DangleInv
    OBVIOUS
  <2>1. handlers = <<>> /\ exited = "no" /\ pc = "archive" /\ taken = [t \in Threads |-> <<>>]
    BY DEF Init, RobustInit
  <2>2. pc \notin Leaving /\ \A h : pc \notin After(h)
    BY <2>1 DEF After, Leaving
  <2>3. Clean
    BY <2>1, <2>2 DEF Clean
  <2> QED
    BY <2>1, <2>3 DEF DangleInv
<1>2. TypesHold /\ CallInv /\ ThreadsInv /\ DangleInv /\ [Next]_vars => DangleInv'
  BY DangleStep
<1>3. DangleInv => NoDanglingHandler
  BY DEF DangleInv, NoDanglingHandler
<1> QED
  BY <1>1, <1>2, <1>3, TypesInvariant, CallInvariant, ThreadsInvariant, PTL DEF Spec

-----------------------------------------------------------------------------
(***************************************************************************)
(* The archive is uploaded whole.                                          *)
(***************************************************************************)
\* No archive agent was made: nobody sends it anything.
Unopened ==
  /\ inbox = <<>> /\ engine = "created" /\ ~again
  /\ pc \in {"archive", "next", "close", "uploads", "event"} \cup Leaving
  /\ ~In(WolfHandler, handlers) /\ \A t \in Threads : ~In(WolfHandler, taken[t])

FirstOpens == inbox # <<>> /\ Head(inbox).type = "OpenArchive"

\* Nothing is written yet.
Fresh(z) ==
  /\ z.items = {} /\ z.indexed = {} /\ z.temp = NoTemp /\ z.output = {} /\ ~z.closed
  /\ z.ready

\* The archive is opened before anything else is asked for, and written only when it is completed,
\* so that the agent does not crash.
OpenInv ==
  /\ archiving \in {"running", "done"}
  /\ compressor = <<>> => Unopened \/ FirstOpens
  /\ \A m : In(m, inbox) => m.type # "FlushQueue"
  /\ archiving = "running" /\ compressor # <<>> => Fresh(Zip)

LEMMA AgainMoves ==
  ASSUME [Next]_vars
  PROVE  again' = again \/ again' = FALSE \/ pc = "enqueue"
<1>1. CASE MainStep
  BY <1>1 DEF MainStep, CreateArchiveAgent, CreateCommandAgent, StartCommandAgent, EnqueueCommand, Throw, At,
              AskDone, AskTerminate, CommandAgentEnded, CommandAgentTimesOut, RemoveWolfHandler,
              UnInitializeCommandAgent, AskArchive, ArchiveEnded, ArchiveTimesOut, AskUpload, NextExecution,
              CompleteUpload, UploadEnded, WaitForHandlers, Guard
<1>2. CASE EngineStep
  BY <1>2 DEF EngineStep, Prepare, Run, ProcessEnds, CompleteCommand, KillAll, ReadDone, EngineEnds, mainVars
<1>3. CASE \E t \in Threads : HandlerStep(t)
  BY <1>3 DEF HandlerStep, EnterCommandHandler, LeaveCommandHandler, EnterWolfHandler,
              LeaveWolfHandler, DeleteOutput, mainVars
<1>4. CASE \/ ConsoleStep \/ Archiver \/ Uploader \/ Transfer \/ UNCHANGED vars
           \/ MainExits \/ ConsoleExits \/ \E t \in Threads : DanglingHandler(t)
  BY <1>4 DEF ConsoleStep, Archiver, Uploader, Transfer, MainExits, ConsoleExits, DanglingHandler,
              mainVars, vars
<1> QED
  BY <1>1, <1>2, <1>3, <1>4 DEF Next

LEMMA StaysUnopened ==
  ASSUME TypesHold, [Next]_vars, Unopened, inbox' = inbox
  PROVE  Unopened'
<1>1. engine' = "created"
  BY EngineMoves DEF Unopened, EngineStep, Prepare, Run, ProcessEnds, CompleteCommand, KillAll, ReadDone,
                     EngineEnds, Step, EngineRuns, Leaving
<1>2. ~again'
  BY AgainMoves DEF Unopened, Leaving
<1>3. pc' \in {"archive", "next", "close", "uploads", "event"} \cup Leaving
  <2>1. ~Posts(<<OpenArchive>>)
    BY DEF Unopened, Posts, Post
  <2> QED
    BY <2>1, PathOfMain DEF MainMoves, Unopened, Leaving
<1>4. ~In(WolfHandler, handlers') /\ \A t \in Threads : ~In(WolfHandler, taken'[t])
  <2>1. ~In(WolfHandler, handlers) /\ \A t \in Threads : ~In(WolfHandler, taken[t])
    BY DEF Unopened
  <2>2. ASSUME NEW h, Registers(h) PROVE ~In(WolfHandler, handlers') /\ taken' = taken
    <3>1. h # WolfHandler
      <4>1. WolfHandler # CommandHandler /\ WolfHandler \notin Names
        BY LauncherAssumption, CommandsAreFiles
      <4> QED
        BY <2>2, <4>1 DEF Registers, Unopened, Leaving
    <3> QED
      BY <2>1, <2>2, <3>1, Registered DEF Registers, SameThreads
  <2>3. ASSUME NEW u \in Threads, SwapHandlers(u)
        PROVE  ~In(WolfHandler, handlers') /\ \A t \in Threads : ~In(WolfHandler, taken'[t])
    <3>1. handlers' = <<>> /\ taken' = [taken EXCEPT ![u] = handlers]
      BY <2>3 DEF SwapHandlers
    <3>2. taken \in [Threads -> Seq(Handlers)]
      BY DEF TypesHold, TypeOK, RobustTypeOK
    <3>3. \A t \in Threads : taken'[t] = taken[t] \/ taken'[t] = handlers
      BY <3>1, <3>2
    <3> QED
      BY <2>1, <3>1, <3>3 DEF In
  <2> QED
    BY <2>1, <2>2, <2>3, ListsMove DEF SameThreads
<1> QED
  BY <1>1, <1>2, <1>3, <1>4 DEF Unopened

\* A step of the archive agent.
LEMMA AgentOpens ==
  ASSUME "open" \notin Faults, TypesHold, OpenInv, AgentStep
  PROVE  /\ archiving' \in {"running", "done"} /\ compressor' # <<>>
         /\ archiving' = "running" => Fresh(Zip')
         /\ inbox # <<>> /\ inbox' = Tail(inbox)
<1>1. /\ AgentTypes /\ Compressing /\ inbox \in Seq(Messages)
      /\ inbox # <<>> => In(Head(inbox), inbox)
  <2>1. AgentTypes /\ Compressing /\ inbox \in Seq(Messages)
    BY TypesOfAgent DEF TypesHold, TypeOK, AgentTypeOK
  <2> QED
    BY <2>1 DEF In
<1>2. inbox # <<>> => Head(inbox).type # "FlushQueue"
  BY <1>1 DEF OpenInv
<1>3. inbox # <<>> /\ archiving = "running"
  BY DEF AgentStep, AgentOpen, AgentOpenFails, AgentAdd, AgentAddDirectory, AgentFlush, AgentComplete,
         Serving, Crash
<1>4. compressor # <<>> \/ Head(inbox).type = "OpenArchive"
  BY <1>3 DEF OpenInv, FirstOpens, Unopened
<1>5. CASE AgentOpen
  BY <1>3, <1>5 DEF AgentOpen, Served, OpenInv, Zip, NewCompressor, Fresh
<1>6. CASE AgentAdd
  <2>1. /\ Served /\ compressor # <<>> /\ archiving' = archiving
    BY <1>6 DEF AgentAdd
  <2>2. \E z \in Compressors, yes, no \in SUBSET Items : AddsTo(z, yes, no)
    BY <1>1, <1>6, AddEffect
  <2> QED
    BY <1>3, <2>1, <2>2 DEF AddsTo, OpenInv, Zip, Served, Fresh
<1>7. CASE AgentAddDirectory
  <2>1. /\ Served /\ archiving' = archiving /\ Head(inbox).type = "AddDirectory"
    BY <1>7 DEF AgentAddDirectory, Serving
  <2>2. Skips \/ \E z \in Compressors, yes, no \in SUBSET Items : AddsTo(z, yes, no)
    BY <1>1, <1>7, AddDirectoryEffect
  <2> QED
    BY <1>3, <1>4, <2>1, <2>2 DEF AddsTo, Skips, OpenInv, Zip, Served, Fresh
<1>8. CASE AgentComplete
  <2>1. compressor # <<>> /\ Flushed(Completions(Zip), "done")
    BY <1>8 DEF AgentComplete
  <2>2. PICK r \in Completions(Zip) :
          \/ r.hr = "crash"
          \/ Served /\ archiving' = "done" /\ compressor' = <<r.zip>>
    BY <2>1 DEF Flushed
  <2>3. r.hr # "crash"
    <3>1. PICK z : z = Zip
      OBVIOUS
    <3>2. z.items = {}
      BY <1>3, <2>1, <3>1 DEF OpenInv, Fresh
    <3>3. \A x, hr : Result(x, hr).hr = hr
      BY DEF Result
    <3>4. z \in Compressors
      BY <1>1, <2>1, <3>1, ZipTyped
    <3>5. ASSUME NEW f \in Flushes(z, TRUE) PROVE f.hr \in {"ok", "fail", "false"}
      <4>1. \/ f = Result(z, "ok")
            \/ f = Result(z, "fail")
            \/ \E new \in SUBSET (Taken(z) \ z.indexed) : f = Result(Updated(z, TRUE, new), "ok")
            \/ \E new \in SUBSET (Taken(z) \ z.indexed), hr \in {"fail", "false"} :
                 f = Result(UpdateFailed(z, TRUE, new), hr)
        BY <3>2, <3>4, <3>5, FlushCases
      <4> QED
        BY <4>1, <3>3
    <3>6. PICK f \in Flushes(z, TRUE) :
             \/ f.hr \in {"fail", "crash"} /\ r = f
             \/ /\ f.hr \notin {"fail", "crash"} /\ f.zip.temp = NoTemp
                /\ r = Result([f.zip EXCEPT !.closed = TRUE], "ok")
             \/ /\ f.hr \notin {"fail", "crash"} /\ f.zip.temp # NoTemp
                /\ r = Result([f.zip EXCEPT !.output = f.zip.temp[1], !.closed = TRUE], "ok")
             \/ f.hr \notin {"fail", "crash"} /\ f.zip.temp # NoTemp /\ r = Result(f.zip, "fail")
      <4>1. r \in Completions(z)
        BY <3>1
      <4> QED
        BY <4>1, CompletionCases, Zenon
    <3>7. f.hr # "crash"
      BY <3>5
    <3> QED
      BY <3>3, <3>6, <3>7
  <2>4. archiving' = "done" /\ compressor' # <<>> /\ inbox' = Tail(inbox)
    BY <2>2, <2>3 DEF Served
  <2> QED
    BY <1>3, <2>4
<1>9. CASE AgentOpenFails \/ AgentFlush \/ Crash
  BY <1>2, <1>3, <1>4, <1>9 DEF AgentOpenFails, AgentFlush, Crash, Serving, Request
<1> QED
  BY <1>5, <1>6, <1>7, <1>8, <1>9 DEF AgentStep

LEMMA RequestsKnown ==
  \A m : In(m, ArchiveRequests) => m.type # "FlushQueue"
<1>1. PICK a, c : a = AddFile(Stats) /\ c = Complete
  OBVIOUS
<1>2. a.type # "FlushQueue" /\ c.type # "FlushQueue"
  BY <1>1 DEF AddFile, Complete, Message
<1>3. ArchiveRequests = <<a>> \o <<c>> \/ ArchiveRequests = <<>> \o <<c>>
  BY <1>1 DEF ArchiveRequests
<1>4. \A m : In(m, <<a>> \o <<c>>) \/ In(m, <<>> \o <<c>>) => m = a \/ m = c
  BY DEF In
<1> QED
  BY <1>2, <1>3, <1>4

\* Messages go to the end of the buffer.
LEMMA PostsKeep ==
  ASSUME TypesHold, OpenInv, NEW list \in Seq(Messages), Posts(list),
         \A m : In(m, list) => m.type # "FlushQueue",
         compressor = <<>> => FirstOpens \/ (inbox = <<>> /\ list # <<>> /\ Head(list).type = "OpenArchive")
  PROVE  OpenInv'
<1>1. /\ inbox \in Seq(Messages) /\ inbox' = inbox \o list /\ UNCHANGED <<archiving, compressor>>
  BY DEF TypesHold, TypeOK, AgentTypeOK, Posts, Post, SameAgents
<1>2. \A m : In(m, inbox') => m.type # "FlushQueue"
  BY <1>1, ConcatIn DEF OpenInv
<1>3. compressor' = <<>> => FirstOpens'
  <2> SUFFICES ASSUME compressor = <<>> PROVE FirstOpens'
    BY <1>1
  <2>1. CASE FirstOpens
    <3>1. inbox # <<>> => inbox \o list # <<>> /\ Head(inbox \o list) = Head(inbox)
      BY <1>1
    <3> QED
      BY <1>1, <2>1, <3>1 DEF FirstOpens
  <2>2. CASE inbox = <<>> /\ list # <<>> /\ Head(list).type = "OpenArchive"
    BY <1>1, <2>2 DEF FirstOpens
  <2> QED
    BY <2>1, <2>2
<1> QED
  BY <1>1, <1>2, <1>3 DEF OpenInv, Zip

LEMMA OpenStep ==
  ASSUME "open" \notin Faults, TypesHold, OpenInv, [Next]_vars
  PROVE  OpenInv'
<1>1. /\ inbox \in Seq(Messages) /\ taken \in [Threads -> Seq(Handlers)]
  BY DEF TypesHold, TypeOK, AgentTypeOK, RobustTypeOK
<1>2. CASE Archiver
  <2>1. /\ archiving' \in {"running", "done"} /\ compressor' # <<>>
        /\ archiving' = "running" => Fresh(Zip')
        /\ inbox # <<>> /\ inbox' = Tail(inbox)
    BY <1>2, AgentOpens DEF Archiver
  <2>2. \A m : In(m, inbox') => m.type # "FlushQueue"
    BY <1>1, <2>1, TailIn DEF OpenInv
  <2> QED
    BY <2>1, <2>2 DEF OpenInv
<1>3. CASE pc = "archive" /\ Posts(<<OpenArchive>>)
  <2>1. PICK m : m = OpenArchive
    OBVIOUS
  <2>2. m.type = "OpenArchive" /\ m \in Messages
    BY <2>1, MessagesSent DEF OpenArchive, Message
  <2>3. <<m>> \in Seq(Messages) /\ <<m>> # <<>> /\ Head(<<m>>) = m /\ \A x : In(x, <<m>>) => x = m
    BY <2>2 DEF In
  <2> QED
    BY <1>3, <2>1, <2>2, <2>3, PostsKeep DEF OpenInv, Unopened
<1>4. CASE (pc = "stats" \/ \E t \in Threads : Calling(t, WolfHandler)) /\ Posts(ArchiveRequests)
  <2>1. \A t \in Threads : Calling(t, WolfHandler) => In(WolfHandler, taken[t])
    BY <1>1 DEF Calling, In
  <2>2. ~Unopened
    BY <1>4, <2>1 DEF Unopened, Leaving
  <2> QED
    BY <1>4, <2>2, RequestsTyped, RequestsKnown, PostsKeep DEF OpenInv
<1>5. CASE \E c \in Names : CompleteCommand(c) /\ Posts(IF c \in disk THEN <<AddFile(c)>> ELSE <<>>)
  <2>1. PICK c \in Names : CompleteCommand(c) /\ Posts(IF c \in disk THEN <<AddFile(c)>> ELSE <<>>)
    BY <1>5
  <2>2. ~Unopened
    BY <2>1 DEF Unopened, CompleteCommand, Step, EngineRuns
  <2>3. PICK m : m = AddFile(c)
    OBVIOUS
  <2>4. m.type # "FlushQueue" /\ m \in Messages
    BY <2>3, MessagesSent, CommandsAreFiles DEF AddFile, Message
  <2>5. PICK list : list = IF c \in disk THEN <<m>> ELSE <<>>
    OBVIOUS
  <2>6. list \in Seq(Messages) /\ \A x : In(x, list) => x = m
    BY <2>4, <2>5 DEF In
  <2> QED
    BY <2>1, <2>2, <2>3, <2>4, <2>5, <2>6, PostsKeep DEF OpenInv
<1>6. CASE UNCHANGED <<inbox, archiving, compressor>>
  <2>1. Unopened => Unopened'
    BY <1>6, StaysUnopened
  <2> QED
    BY <1>6, <2>1 DEF OpenInv, FirstOpens, Zip
<1> QED
  BY <1>2, <1>3, <1>4, <1>5, <1>6, AgentMoves DEF DiskOnly, agentVars

\* Something of the archive has gone to the upload agent.
Sent ==
  \/ pc = "upload" \/ jobs # <<>> \/ remote # {}
  \/ \E o : In(o, orders) /\ o.type = "UploadFile"

\* A file leaves this machine when the server has it.
Transferred ==
  /\ \A n \in DOMAIN jobs : jobs[n].state = "transferred" => jobs[n].file \in remote
  /\ Archive \notin local => Archive \in remote

LEMMA SentMoves ==
  ASSUME TypesHold, [Next]_vars, Sent'
  PROVE  Sent \/ (archiving # "running" /\ archiving' = archiving)
<1>1. UploadTypeOK /\ orders \in Seq(Orders) /\ jobs \in Seq(Jobs)
  BY DEF TypesHold, TypeOK, UploadTypeOK
<1>2. pc' = "upload" => pc = "upload" \/ (archiving # "running" /\ archiving' = archiving)
  BY PathOfMain DEF MainMoves, agentVars
<1>3. CASE UploadStep
  <2>1. CASE AgentUpload
    <3>1. orders # <<>> /\ Head(orders).type = "UploadFile"
      BY <2>1 DEF AgentUpload, Ordered
    <3>2. In(Head(orders), orders)
      BY <1>1, <3>1 DEF In
    <3> QED
      BY <3>1, <3>2 DEF Sent
  <2>2. CASE AgentCompleteUploads \/ AgentRefresh
    <3>1. orders # <<>> /\ orders' = Tail(orders) /\ UNCHANGED <<jobs, remote>>
      BY <2>2 DEF AgentCompleteUploads, AgentRefresh, Ordered
    <3>2. \A o : In(o, orders') => In(o, orders)
      BY <1>1, <3>1, TailIn
    <3> QED
      BY <1>2, <3>1, <3>2 DEF Sent
  <2>3. CASE RefreshDue
    <3>1. PICK r : r = RefreshJobStatus
      OBVIOUS
    <3>2. r.type # "UploadFile" /\ orders' = Append(orders, r) /\ UNCHANGED <<jobs, remote>>
      BY <2>3, <3>1 DEF RefreshDue, RefreshJobStatus, Order
    <3>3. \A o : In(o, orders') => In(o, orders) \/ o = r
      BY <1>1, <3>2 DEF In
    <3> QED
      BY <1>2, <3>2, <3>3 DEF Sent
  <2> QED
    BY <1>3, <2>1, <2>2, <2>3 DEF UploadStep
<1>4. CASE \E n \in DOMAIN jobs : JobStep(n)
  BY <1>1, <1>4 DEF Sent
<1>5. CASE pc = "upload"
  BY <1>5 DEF Sent
<1>6. CASE Send(<<UploadComplete>>)
  <2>1. PICK r : r = UploadComplete
    OBVIOUS
  <2>2. r.type # "UploadFile" /\ orders' = orders \o <<r>> /\ UNCHANGED <<jobs, remote>> /\ r \in Orders
    BY <1>6, <2>1, OrdersSent DEF Send, UploadComplete, Order
  <2>3. \A o : In(o, orders') => In(o, orders) \/ o = r
    BY <1>1, <2>2 DEF In
  <2> QED
    BY <1>2, <2>2, <2>3 DEF Sent
<1>7. CASE UNCHANGED uploadVars
  BY <1>2, <1>7 DEF Sent, uploadVars
<1> QED
  BY <1>3, <1>4, <1>5, <1>6, <1>7, UploadMoves

LEMMA TransferredStep ==
  ASSUME TypesHold, Transferred, [Next]_vars
  PROVE  Transferred'
<1>1. UploadTypeOK /\ jobs \in Seq(Jobs)
  BY DEF TypesHold, TypeOK, UploadTypeOK
<1>2. CASE AgentUpload
  <2>1. PICK f, b : f = Head(orders).file /\ b = Head(orders).move
    OBVIOUS
  <2>2. UNCHANGED <<jobs, local, remote>> \/ CopyFile(f, b) \/ CreateJob(f, b)
    BY <1>2, <2>1 DEF AgentUpload
  <2>3. f \in Uploads /\ b \in BOOLEAN
    BY <1>1, <1>2, <2>1, OrderServed DEF AgentUpload
  <2>4. CASE CreateJob(f, b)
    <3>1. PICK state \in {"queued", "suspended"} :
            \/ jobs' = jobs
            \/ jobs' = Append(jobs, [file |-> f, move |-> b, state |-> state, foreground |-> FALSE])
      BY <2>4 DEF CreateJob
    <3>5. PICK j : j = [file |-> f, move |-> b, state |-> state, foreground |-> FALSE]
      OBVIOUS
    <3>2. j \in Jobs /\ j.state # "transferred"
      BY <2>3, <3>5 DEF Jobs, JobStates
    <3>3. (jobs' = jobs \/ jobs' = Append(jobs, j)) /\ UNCHANGED <<local, remote>>
      BY <2>4, <3>1, <3>5 DEF CreateJob
    <3>4. \A n \in DOMAIN jobs' : (n \in DOMAIN jobs /\ jobs'[n] = jobs[n]) \/ jobs'[n] = j
      BY <1>1, <3>2, <3>3, JobAdded
    <3> QED
      BY <3>2, <3>3, <3>4 DEF Transferred
  <2> QED
    BY <2>2, <2>4 DEF CopyFile, Transferred
<1>3. CASE \E n \in DOMAIN jobs : JobStep(n)
  <2>1. PICK n \in DOMAIN jobs : JobStep(n)
    BY <1>3
  <2>2. /\ DOMAIN jobs' = DOMAIN jobs /\ jobs'[n].file = jobs[n].file
        /\ \A k \in DOMAIN jobs : k # n => jobs'[k] = jobs[k]
        /\ jobs'[n].state = "transferred" => jobs[n].file \in remote'
    BY <1>1, <2>1, JobMoved
  <2>3. remote \subseteq remote'
    BY <2>1 DEF JobStep, JobTransfers, JobFails, JobTransferred, JobError
  <2>4. \/ local' = local
        \/ jobs[n].state = "transferred" /\ local' = local \ {jobs[n].file} /\ remote' = remote
    BY <2>1 DEF JobStep, JobTransfers, JobFails, JobTransferred, JobError
  <2> QED
    BY <2>2, <2>3, <2>4 DEF Transferred
<1>4. CASE UNCHANGED <<jobs, local, remote>>
  BY <1>4 DEF Transferred
<1> QED
  BY <1>2, <1>3, <1>4, UploadMoves
     DEF UploadStep, AgentCompleteUploads, AgentRefresh, RefreshDue, Send, uploadVars

LEMMA DoneStays ==
  ASSUME TypesHold, [Next]_vars, archiving = "done"
  PROVE  archiving' = "done"
<1>1. ~AgentStep
  BY DEF AgentStep, AgentOpen, AgentOpenFails, AgentAdd, AgentAddDirectory, AgentFlush, AgentComplete,
         Serving, Crash
<1> QED
  BY <1>1, AgentMoves DEF Archiver, Posts, SameAgents, DiskOnly, agentVars

WholeInv ==
  /\ OpenInv /\ Transferred
  /\ Sent => archiving = "done"

LEMMA WholeStep ==
  ASSUME "open" \notin Faults, TypesHold, WholeInv, [Next]_vars
  PROVE  WholeInv'
<1>1. OpenInv' /\ Transferred'
  BY OpenStep, TransferredStep DEF WholeInv
<1>2. Sent' => archiving' = "done"
  <2> SUFFICES ASSUME Sent' PROVE archiving' = "done"
    OBVIOUS
  <2>1. CASE Sent
    BY <2>1, DoneStays DEF WholeInv
  <2>2. CASE archiving # "running" /\ archiving' = archiving
    BY <2>2 DEF WholeInv, OpenInv
  <2> QED
    BY <2>1, <2>2, SentMoves
<1> QED
  BY <1>1, <1>2 DEF WholeInv

\* The archive is sent only when its agent is done with it, and deleted here only once the server
\* has it.  When the archive cannot be opened the agent crashes and there is nothing to send.
THEOREM WholeUploads ==
  ASSUME "open" \notin Faults
  PROVE  Spec => []UploadedWhole
<1>1. Init => WholeInv
  <2> SUFFICES ASSUME Init PROVE WholeInv
    OBVIOUS
  <2>1. /\ handlers = <<>> /\ taken = [t \in Threads |-> <<>>] /\ inbox = <<>> /\ engine = "created"
        /\ again = FALSE /\ pc = "archive" /\ archiving = "running" /\ compressor = <<>>
        /\ orders = <<>> /\ jobs = <<>> /\ remote = {} /\ local = {Archive}
    BY DEF Init, RobustInit, AgentInit, UploadInit
  <2>2. OpenInv
    BY <2>1 DEF OpenInv, Unopened, In
  <2>3. Transferred /\ ~Sent
    BY <2>1 DEF Transferred, Sent, In
  <2> QED
    BY <2>2, <2>3 DEF WholeInv
<1>2. TypesHold /\ WholeInv /\ [Next]_vars => WholeInv'
  BY WholeStep
<1>3. WholeInv => UploadedWhole
  BY DEF WholeInv, Sent, Transferred, UploadedWhole
<1> QED
  BY <1>1, <1>2, <1>3, TypesInvariant, PTL DEF Spec

-----------------------------------------------------------------------------
(***************************************************************************)
(* What becomes of the outputs.                                            *)
(***************************************************************************)
\* Nothing the compressor is given is refused: every output could be archived.
NoRefusal == Faults \cap {"open", "add", "flush", "item", "update"} = {}

\* A compressor that has written nothing writes all of its queue when it completes.
LEMMA CompleteAll ==
  ASSUME NoRefusal, NEW z \in Compressors, Fresh(z), NEW r \in Completions(z)
  PROVE  /\ r.hr = "ok" /\ r.zip.output = z.queue
         /\ r.zip.items = z.queue /\ r.zip.indexed = z.queue /\ r.zip.queue = {}
<1>1. /\ z.items = {} /\ z.indexed = {} /\ z.temp = NoTemp /\ z.output = {}
      /\ z.queue \in SUBSET Items /\ z.ready
  BY DEF Fresh, Compressors
<1>2. PICK f \in Flushes(z, TRUE) :
           \/ f.hr \in {"fail", "crash"} /\ r = f
           \/ /\ f.hr \notin {"fail", "crash"} /\ f.zip.temp = NoTemp
              /\ r = Result([f.zip EXCEPT !.closed = TRUE], "ok")
           \/ /\ f.hr \notin {"fail", "crash"} /\ f.zip.temp # NoTemp
              /\ r = Result([f.zip EXCEPT !.output = f.zip.temp[1], !.closed = TRUE], "ok")
           \/ f.hr \notin {"fail", "crash"} /\ f.zip.temp # NoTemp /\ r = Result(f.zip, "fail")
  BY CompletionCases, Zenon
<1>3. \/ z.queue = {} /\ f = Result(z, "ok")
      \/ f = Result(Updated(z, TRUE, z.queue), "ok")
  <2>1. f \in IF z.queue = {} THEN {Result(z, "ok")} ELSE Updates(z, TRUE)
    BY <1>1 DEF Flushes, NoRefusal
  <2>2. Unwritten(z) = z.queue /\ z.indexed \subseteq Base(z)
    BY <1>1 DEF Unwritten
  <2>3. Updates(z, TRUE) = {Result(Updated(z, TRUE, z.queue), "ok")}
    <3>1. "update" \notin Faults /\ Archivable(z.queue) = {z.queue}
      BY DEF Archivable, NoRefusal
    <3>2. Updates(z, TRUE) = {Result(Updated(z, TRUE, new), "ok") : new \in Archivable(Unwritten(z))}
      BY <2>2, <3>1 DEF Updates
    <3> QED
      BY <2>2, <3>1, <3>2
  <2> QED
    BY <2>1, <2>3
<1>4. PICK u : u = f.zip
  OBVIOUS
<1>5. /\ f.hr = "ok" /\ u \in Compressors /\ u.temp = NoTemp /\ u.output = z.queue
      /\ u.items = z.queue /\ u.indexed = z.queue /\ u.queue = {}
  <2>1. CASE z.queue = {} /\ f = Result(z, "ok")
    BY <1>1, <1>4, <2>1 DEF Result
  <2>2. CASE f = Result(Updated(z, TRUE, z.queue), "ok")
    <3>1. PICK w : w = Updated(z, TRUE, z.queue)
      OBVIOUS
    <3>2. f.hr = "ok" /\ u = w
      BY <1>4, <2>2, <3>1 DEF Result
    <3>3. /\ w \in Compressors
          /\ w.items = z.indexed \cup z.queue /\ w.indexed = z.indexed \cup z.queue
          /\ w.queue = Taken(z) \ (z.indexed \cup z.queue)
          /\ w.temp = NoTemp /\ w.output = z.indexed \cup z.queue
      BY <1>1, <3>1, UpdatedZip, ZenonT(60)
    <3> QED
      BY <1>1, <3>2, <3>3 DEF Taken
  <2> QED
    BY <1>3, <2>1, <2>2
<1>6. r = Result([u EXCEPT !.closed = TRUE], "ok")
  BY <1>2, <1>4, <1>5
<1> QED
  BY <1>5, <1>6 DEF Result, Compressors

\* A step of the archive agent, when nothing is refused.
AgentOpened ==
  /\ Head(inbox).type = "OpenArchive" /\ archiving' = "running" /\ disk' = disk
  /\ compressor # <<>> => compressor' = compressor

AgentQueued ==
  /\ Head(inbox).type \in {"AddFile", "AddStream"} /\ compressor # <<>>
  /\ archiving' = "running" /\ disk' = disk
  /\ Zip.queue \subseteq Zip'.queue
  /\ Head(inbox).of \in disk => Head(inbox).of \in Zip'.queue

AgentWrote ==
  /\ Head(inbox).type = "Complete" /\ compressor # <<>> /\ archiving' = "done"
  /\ Zip'.output = Zip.queue /\ Zip'.items = Zip'.indexed /\ Zip'.queue = {}
  /\ Files \cap (disk \ Zip.queue) \subseteq disk'

LEMMA AgentFiles ==
  ASSUME NoRefusal, TypesHold, OpenInv, AgentStep
  PROVE  /\ inbox # <<>> /\ inbox' = Tail(inbox) /\ archiving = "running" /\ compressor' # <<>>
         /\ AgentOpened \/ AgentQueued \/ AgentWrote
<1>1. /\ archiving' \in {"running", "done"} /\ compressor' # <<>>
      /\ inbox # <<>> /\ inbox' = Tail(inbox)
  BY AgentOpens DEF NoRefusal
<1>2. /\ AgentTypes /\ inbox \in Seq(Messages) /\ Dirs = {} /\ disk \subseteq Files
  BY TypesOfAgent, CommandsAreFiles DEF TypesHold, TypeOK, AgentTypeOK
<1>3. archiving = "running" /\ Asked
  BY DEF AgentStep, AgentOpen, AgentOpenFails, AgentAdd, AgentAddDirectory, AgentFlush, AgentComplete,
         Serving, Crash, Asked
<1>4. compressor # <<>> => Zip \in Compressors /\ Fresh(Zip)
  BY <1>2, <1>3, ZipTyped DEF OpenInv
<1>5. CASE AgentOpen
  BY <1>1, <1>3, <1>5 DEF AgentOpen, Serving, AgentOpened
<1>6. CASE AgentAdd
  <2>1. /\ compressor # <<>> /\ UNCHANGED <<archiving, disk>>
        /\ Head(inbox).type \in {"AddFile", "AddStream"}
    BY <1>6 DEF AgentAdd, Serving
  <2>2. PICK r \in IF Request.of \in Files \ disk THEN {Result(Zip, "fail")}
                                                  ELSE Additions(Zip, Request.of) :
          compressor' = <<r.zip>>
    BY <1>6 DEF AgentAdd
  <2>3. Zip' = r.zip
    BY <2>2 DEF Zip
  <2>4. CASE Request.of \in Files \ disk
    <3>1. r.zip = Zip
      BY <2>2, <2>4 DEF Result
    <3> QED
      BY <1>1, <1>2, <1>3, <2>1, <2>3, <2>4, <3>1 DEF AgentQueued, Request
  <2>5. CASE Request.of \notin Files \ disk
    <3>1. r = Result([Zip EXCEPT !.queue = @ \cup {Request.of}], "ok")
      BY <2>2, <2>5 DEF Additions, NoRefusal
    <3>2. r.zip.queue = Zip.queue \cup {Request.of}
      BY <1>4, <2>1, <3>1 DEF Result, Compressors
    <3> QED
      BY <1>1, <1>2, <1>3, <2>1, <2>3, <3>2 DEF AgentQueued, Request
  <2> QED
    BY <1>1, <1>3, <2>4, <2>5
<1>7. CASE AgentAddDirectory
  <2>1. Request.type = "AddDirectory"
    BY <1>7 DEF AgentAddDirectory, Serving, Request
  <2> QED
    BY <1>2, <1>3, <2>1, Requested
<1>8. CASE AgentComplete
  <2>1. compressor # <<>> /\ Head(inbox).type = "Complete" /\ Flushed(Completions(Zip), "done")
    BY <1>8 DEF AgentComplete, Serving
  <2>2. PICK r \in Completions(Zip) :
          \/ r.hr = "crash"
          \/ /\ archiving' = "done" /\ compressor' = <<r.zip>>
             /\ CompleteOnFlush(disk \ (Closed(Zip, r.zip) \cap doomed))
    BY <2>1 DEF Flushed
  <2>3. PICK z : z = Zip
    OBVIOUS
  <2>4. /\ r.hr = "ok" /\ r.zip.output = z.queue
        /\ r.zip.items = z.queue /\ r.zip.indexed = z.queue /\ r.zip.queue = {} /\ z.indexed = {}
    <3>1. z \in Compressors /\ Fresh(z) /\ r \in Completions(z)
      BY <1>4, <2>1, <2>3
    <3> QED
      BY <3>1, CompleteAll DEF Fresh
  <2>5. Closed(z, r.zip) = z.queue
    BY <2>4 DEF Closed
  <2>6. Files \cap (disk \ z.queue) \subseteq disk'
    BY <2>2, <2>3, <2>4, <2>5, FlushDisk
  <2> QED
    BY <1>1, <1>3, <2>1, <2>2, <2>3, <2>4, <2>6 DEF AgentWrote, Zip
<1>9. CASE AgentOpenFails \/ AgentFlush \/ Crash
  <2>1. ~AgentOpenFails /\ ~Crash
    BY <1>1, <1>3 DEF AgentOpenFails, Crash, NoRefusal
  <2>2. Head(inbox).type # "FlushQueue"
    <3>1. In(Head(inbox), inbox)
      BY <1>1, <1>2 DEF In
    <3> QED
      BY <3>1 DEF OpenInv
  <2> QED
    BY <1>9, <2>1, <2>2 DEF AgentFlush, Serving
<1> QED
  BY <1>1, <1>3, <1>5, <1>6, <1>7, <1>8, <1>9 DEF AgentStep

\* The archive agent that has stopped does nothing more.
LEMMA StopStays ==
  ASSUME TypesHold, [Next]_vars, archiving # "running"
  PROVE  UNCHANGED <<archiving, compressor>>
<1>1. ~AgentStep
  BY DEF AgentStep, AgentOpen, AgentOpenFails, AgentAdd, AgentAddDirectory, AgentFlush, AgentComplete,
         Serving, Crash
<1> QED
  BY <1>1, AgentMoves DEF Archiver, Posts, SameAgents, DiskOnly, agentVars

\* The head of a list of handlers, and the rest.
LEMMA HeadFirst ==
  ASSUME NEW list \in Seq(Handlers), Sorted(list), list # <<>>
  PROVE  /\ Sorted(Tail(list)) /\ In(Head(list), list)
         /\ \A x : In(x, list) => x = Head(list) \/ In(x, Tail(list))
         /\ \A x : In(x, list) => x = Head(list) \/ Priority[Head(list)] >= Priority[x]
<1>1. PICK n \in Nat : n = Len(list) /\ n >= 1 /\ DOMAIN list = 1..n
  OBVIOUS
<1>2. PICK rest : rest = Tail(list)
  OBVIOUS
<1>3. /\ DOMAIN rest = 1..n - 1 /\ \A i \in 1..n - 1 : i + 1 \in 1..n /\ rest[i] = list[i + 1]
      /\ Head(list) = list[1]
  BY <1>1, <1>2
<1>4. Sorted(rest)
  <2> SUFFICES ASSUME NEW i \in DOMAIN rest, NEW j \in DOMAIN rest, i < j
               PROVE  Priority[rest[i]] >= Priority[rest[j]]
    BY DEF Sorted
  <2>1. PICK k, l : k = i + 1 /\ l = j + 1
    OBVIOUS
  <2>2. k \in DOMAIN list /\ l \in DOMAIN list /\ k < l /\ rest[i] = list[k] /\ rest[j] = list[l]
    BY <1>1, <1>3, <2>1
  <2> QED
    BY <2>2 DEF Sorted
<1>5. ASSUME NEW i \in 1..n, i # 1 PROVE In(list[i], rest) /\ Priority[list[1]] >= Priority[list[i]]
  <2>1. PICK k : k = i - 1
    OBVIOUS
  <2>2. k \in DOMAIN rest /\ rest[k] = list[i]
    BY <1>1, <1>3, <1>5, <2>1
  <2>3. 1 \in DOMAIN list /\ i \in DOMAIN list /\ 1 < i
    BY <1>1, <1>5
  <2> QED
    BY <2>2, <2>3 DEF In, Sorted
<1> QED
  BY <1>1, <1>2, <1>3, <1>4, <1>5, SMTT(60) DEF In

\* What a thread has taken is the list it has swapped, or what is left of it.
LEMMA TakenMoves ==
  ASSUME TypesHold, [Next]_vars, NEW t \in Threads
  PROVE  \/ taken'[t] = taken[t]
         \/ /\ terminating[t] = "swap" /\ terminating'[t] = "call" /\ (t = Main => pc = "guard")
            /\ taken'[t] = handlers /\ handlers' = <<>> /\ \A u \in Threads : u # t => taken'[u] = taken[u]
         \/ /\ taken[t] # <<>> /\ taken'[t] = Tail(taken[t])
            /\ Head(taken[t]) = CommandHandler => engine = "done" \/ late'
            /\ Head(taken[t]) = WolfHandler => archiving # "running" \/ late'
<1>1. /\ taken \in [Threads -> Seq(Handlers)] /\ terminating \in [Threads -> TerminateSteps]
      /\ Threads = {Main, Console} /\ Main # Console
  BY LauncherAssumption DEF TypesHold, TypeOK, RobustTypeOK
<1>2. ASSUME NEW u \in Threads, TerminateStep(u), u = Main => pc = "guard"
      PROVE  \/ taken'[t] = taken[t]
             \/ /\ terminating[t] = "swap" /\ terminating'[t] = "call" /\ (t = Main => pc = "guard")
                /\ taken'[t] = handlers /\ handlers' = <<>>
                /\ \A v \in Threads : v # t => taken'[v] = taken[v]
  <2>1. CASE SwapHandlers(u)
    BY <1>1, <1>2, <2>1 DEF SwapHandlers, GoOn
  <2>2. CASE UNCHANGED taken
    BY <2>2
  <2> QED
    BY <1>2, <2>1, <2>2 DEF TerminateStep, EnterTerminate, ResetTheEvent, AllHandlersCalled, SetTheEvent,
                            SetTerminateCalled
<1>3. ASSUME NEW u \in Threads, Returns(u)
      PROVE  \/ taken'[t] = taken[t]
             \/ /\ taken[t] # <<>> /\ taken'[t] = Tail(taken[t])
                /\ Head(taken[t]) = CommandHandler => engine = "done" \/ late'
                /\ Head(taken[t]) = WolfHandler => archiving # "running" \/ late'
  <2>1. /\ terminating[u] = "call" /\ taken[u] # <<>> /\ taken' = [taken EXCEPT ![u] = Tail(taken[u])]
    BY <1>3 DEF Returns, HandlerReturns
  <2>2. CASE t # u
    BY <1>1, <2>1, <2>2
  <2>3. CASE t = u
    <3>1. taken'[t] = Tail(taken[t])
      BY <1>1, <2>1, <2>3
    <3>2. Head(taken[t]) = CommandHandler => engine = "done" \/ late'
      BY <1>3, <2>1, <2>3 DEF Returns, Calling
    <3>3. Head(taken[t]) = WolfHandler => archiving # "running" \/ late'
      BY <1>3, <2>1, <2>3 DEF Returns, Calling
    <3> QED
      BY <2>1, <2>3, <3>1, <3>2, <3>3
  <2> QED
    BY <2>2, <2>3
<1>4. CASE UNCHANGED taken
  BY <1>4
<1> QED
  BY <1>1, <1>2, <1>3, <1>4, RobustMoves DEF SameThreads, Registers, Removes, robustVars

\* The console thread has not taken the handlers yet.
Begins == {"out", "reset", "swap"}

LEMMA BeginsBack ==
  ASSUME TypesHold, [Next]_vars, terminating'[Console] \in Begins
  PROVE  terminating[Console] \in Begins /\ taken'[Console] = taken[Console]
<1>1. /\ terminating \in [Threads -> TerminateSteps] /\ Threads = {Main, Console} /\ Main # Console
      /\ taken \in [Threads -> Seq(Handlers)]
  BY LauncherAssumption DEF TypesHold, TypeOK, RobustTypeOK
<1>2. CASE UNCHANGED <<terminating, taken>>
  BY <1>2
<1>3. CASE TerminateStep(Main)
  BY <1>1, <1>3 DEF TerminateStep, EnterTerminate, ResetTheEvent, SwapHandlers, AllHandlersCalled,
                    SetTheEvent, SetTerminateCalled, GoOn
<1>4. CASE TerminateStep(Console)
  BY <1>1, <1>4 DEF TerminateStep, EnterTerminate, ResetTheEvent, SwapHandlers, AllHandlersCalled,
                    SetTheEvent, SetTerminateCalled, GoOn, Begins
<1>5. CASE \E t \in Threads : Returns(t)
  <2>1. PICK t \in Threads : HandlerReturns(t)
    BY <1>5 DEF Returns
  <2>2. /\ terminating' = terminating /\ taken' = [taken EXCEPT ![t] = Tail(taken[t])]
        /\ terminating[t] = "call"
    BY <2>1 DEF HandlerReturns
  <2>3. t # Console
    BY <2>2 DEF Begins
  <2> QED
    BY <1>1, <2>2, <2>3
<1> QED
  BY <1>2, <1>3, <1>4, <1>5, RobustMoves DEF SameThreads, Registers, Removes, robustVars

\* The lists of handlers are in the order of the priorities, and the statistics have no handler.
ListsInv ==
  /\ Sorted(handlers)
  /\ \A h : In(h, handlers) => h \in Names \cup {CommandHandler, WolfHandler}
  /\ \A t \in Threads : /\ Sorted(taken[t])
                        /\ \A h : In(h, taken[t]) => h \in Names \cup {CommandHandler, WolfHandler}

LEMMA ListsStep ==
  ASSUME TypesHold, ListsInv, [Next]_vars
  PROVE  ListsInv'
<1>1. /\ handlers \in Seq(Handlers) /\ AgentTypeOK /\ Compressing
      /\ taken \in [Threads -> Seq(Handlers)]
  BY DEF TypesHold, TypeOK, RobustTypeOK
<1>2. Sorted(handlers') /\ \A h : In(h, handlers') => h \in Names \cup {CommandHandler, WolfHandler}
  <2>1. CASE AgentStep
    <3>1. HandlersKept
      BY <1>1, <2>1, AgentTyped
    <3>2. \A x : In(x, handlers') => In(x, handlers)
      BY <3>1, CommandsAreFiles DEF HandlersKept
    <3> QED
      BY <1>1, <2>1, <3>2, AgentSorted DEF ListsInv
  <2>2. CASE \E h : Registers(h)
    <3>1. PICK h : Registers(h)
      BY <2>2
    <3>2. /\ h \in Handlers /\ h \in Names \cup {CommandHandler, WolfHandler}
          /\ handlers' = handlers \/ handlers' = With(handlers, h)
          /\ \A x : In(x, handlers') => In(x, handlers) \/ x = h
      BY <3>1, Registered DEF Registers, AddTerminationHandler
    <3>3. Sorted(handlers')
      BY <1>1, <3>2, WithSorted DEF ListsInv
    <3> QED
      BY <3>2, <3>3 DEF ListsInv
  <2>3. CASE \E gone : Removes(gone)
    <3>1. PICK gone : handlers' = handlers \/ handlers' = Without(handlers, gone)
      BY <2>3 DEF Removes, RemoveTerminationHandlers
    <3>2. Sorted(handlers')
      BY <1>1, <3>1, OnlySorted DEF ListsInv, Without
    <3>3. \A x : In(x, handlers') => In(x, handlers)
      BY <1>1, <3>1, WithoutIn
    <3> QED
      BY <3>2, <3>3 DEF ListsInv
  <2>4. CASE \E t \in Threads : SwapHandlers(t)
    <3>1. handlers' = <<>>
      BY <2>4 DEF SwapHandlers
    <3> QED
      BY <3>1 DEF Sorted, In
  <2>5. CASE UNCHANGED handlers
    BY <2>5 DEF ListsInv
  <2> QED
    BY <2>1, <2>2, <2>3, <2>4, <2>5, RobustMoves, LauncherAssumption
       DEF TerminateStep, EnterTerminate, ResetTheEvent, AllHandlersCalled, SetTheEvent,
           SetTerminateCalled, Returns, HandlerReturns, robustVars
<1>3. ASSUME NEW t \in Threads
      PROVE  /\ Sorted(taken'[t])
             /\ \A h : In(h, taken'[t]) => h \in Names \cup {CommandHandler, WolfHandler}
  <2>1. taken[t] # <<>> => Sorted(Tail(taken[t])) /\ \A x : In(x, Tail(taken[t])) => In(x, taken[t])
    BY <1>1, HeadFirst, TailIn DEF ListsInv
  <2> QED
    BY <2>1, TakenMoves DEF ListsInv
<1> QED
  BY <1>2, <1>3 DEF ListsInv

\* The command agent is done when its commands are, and a command that is over has no handler.
EngineInv ==
  /\ engine = "done" => \A c \in Names : cmd[c] \in {"unsent", "sent", "over"}
  /\ engine = "created" => \A c \in Names : cmd[c] \in {"unsent", "sent"}

LEMMA EngineInvStep ==
  ASSUME TypesHold, EngineInv, [Next]_vars
  PROVE  EngineInv'
<1>1. cmd \in [Names -> {"unsent", "sent", "queued", "running", "exited", "over"}]
  BY DEF TypesHold, TypeOK
<1>2. CASE EnqueueCommand /\ engine' = engine
  <2>1. \A c \in Names : cmd'[c] = cmd[c] \/ cmd'[c] = "sent"
    BY <1>1, <1>2 DEF EnqueueCommand
  <2> QED
    BY <1>2, <2>1 DEF EngineInv
<1>3. CASE \E c \in Names : Prepare(c) \/ Run(c) \/ ProcessEnds(c) \/ CompleteCommand(c)
  BY <1>3 DEF Prepare, Run, ProcessEnds, CompleteCommand, Step, EngineRuns, EngineInv
<1>4. CASE KillAll \/ ReadDone \/ EngineEnds
  BY <1>4 DEF KillAll, ReadDone, EngineEnds, EngineInv
<1>5. CASE UNCHANGED cmd /\ (engine' = engine \/ engine' = "running")
  BY <1>5 DEF EngineInv
<1> QED
  BY <1>2, <1>3, <1>4, <1>5, EngineMoves DEF EngineStep

\* The command agent is started once, and once done it does nothing more.
LEMMA EngineStays ==
  ASSUME TypesHold, [Next]_vars
  PROVE  /\ engine = "done" => engine' = "done" \/ pc = "start"
         /\ engine = "created" => engine' = "created" \/ (pc = "start" /\ pc' = "enqueue")
<1>1. engine \in {"created", "done"} => ~EngineStep
  BY DEF EngineStep, Prepare, Run, ProcessEnds, CompleteCommand, Step, EngineRuns, KillAll, ReadDone,
         EngineEnds
<1> QED
  BY <1>1, EngineMoves DEF EngineInv

\* What the commands leave, and how they are over.
Outlived(c) ==
  \E gone \in SUBSET Names : c \in gone /\ RemoveTerminationHandlers(gone) /\ SameThreads /\ EngineRuns

LEMMA CommandMoves ==
  ASSUME TypesHold, [Next]_vars
  PROVE  /\ \A c \in produced' : c \in produced \/ (c \in Names /\ cmd'[c] = "exited" /\ c \in disk')
         /\ \A c \in Names : cmd[c] = "exited" => cmd'[c] = "exited" \/ CompleteCommand(c)
         /\ \A c \in Names : cmd'[c] = "over" => cmd[c] = "over" \/ Outlived(c)
<1>1. cmd \in [Names -> {"unsent", "sent", "queued", "running", "exited", "over"}]
  BY DEF TypesHold, TypeOK
<1>2. CASE EnqueueCommand /\ UNCHANGED produced
  <2>1. PICK unsent : unsent = {n \in DOMAIN Commands : cmd[Commands[n]] = "unsent"}
    OBVIOUS
  <2>2. CASE unsent = {}
    BY <1>2, <2>1, <2>2 DEF EnqueueCommand
  <2>3. CASE unsent # {}
    <3>1. PICK n : n = CHOOSE m \in unsent : \A k \in unsent : m <= k
      OBVIOUS
    <3>2. cmd' = [cmd EXCEPT ![Commands[n]] = "sent"]
      BY <1>2, <2>1, <2>3, <3>1 DEF EnqueueCommand
    <3>3. n \in unsent
      <4>1. unsent \in SUBSET Nat
        BY <2>1, LauncherAssumption
      <4>2. \E m \in unsent : \A k \in unsent : m <= k
        BY <2>3, <4>1, Smallest
      <4> QED
        BY <3>1, <4>2
    <3>4. \A c \in Names : cmd'[c] = cmd[c] \/ (cmd[c] = "unsent" /\ cmd'[c] = "sent")
      BY <1>1, <2>1, <3>2, <3>3
    <3> QED
      BY <1>2, <3>4
  <2> QED
    BY <2>2, <2>3
<1>3. CASE \E d \in Names : Prepare(d) \/ Run(d) \/ ProcessEnds(d)
  BY <1>1, <1>3 DEF Prepare, Run, ProcessEnds, Step, Output, history
<1>4. ASSUME NEW d \in Names, CompleteCommand(d)
      PROVE  /\ \A c \in produced' : c \in produced \/ (c \in Names /\ cmd'[c] = "exited" /\ c \in disk')
             /\ \A c \in Names : cmd[c] = "exited" => cmd'[c] = "exited" \/ CompleteCommand(c)
             /\ \A c \in Names : cmd'[c] = "over" => cmd[c] = "over" \/ Outlived(c)
  <2>1. cmd' = [cmd EXCEPT ![d] = "over"] /\ UNCHANGED produced
    BY <1>4 DEF CompleteCommand, Step, history
  <2>2. Outlived(d)
    <3>1. {d} \in SUBSET Names /\ d \in {d}
      OBVIOUS
    <3> QED
      BY <1>4, <3>1 DEF CompleteCommand, Step, SameRobust, SameThreads, Outlived
  <2> QED
    BY <1>1, <1>4, <2>1, <2>2
<1>5. CASE KillAll
  <2>1. PICK dropped, killed : /\ dropped = {c \in Names : cmd[c] = "queued"}
                               /\ killed = {c \in Names : cmd[c] = "running"}
    OBVIOUS
  <2>2. /\ cmd' = [c \in Names |-> IF c \in dropped THEN "over"
                                   ELSE IF c \in killed THEN "exited" ELSE cmd[c]]
        /\ disk' = disk \cup killed /\ produced' = produced \cup killed
        /\ RemoveTerminationHandlers(dropped) /\ SameThreads /\ EngineRuns
    BY <1>5, <2>1 DEF KillAll, Output, SameRobust, SameThreads, EngineRuns
  <2>3. \A c \in dropped : Outlived(c)
    <3>1. dropped \in SUBSET Names
      BY <2>1
    <3> QED
      BY <2>2, <3>1 DEF Outlived
  <2> QED
    BY <2>1, <2>2, <2>3
<1>6. CASE UNCHANGED <<cmd, produced>>
  BY <1>6
<1> QED
  BY <1>2, <1>3, <1>4, <1>5, <1>6, EngineMoves DEF EngineStep, ReadDone, EngineEnds, history

\* Where the main thread is, the command agent is in one of these states, and the handlers of the
\* execution are registered from its start on.
FromStart == {"start", "enqueue", "done", "engine", "term", "killed"}
EngineOver == {"stats", "archived", "upload", "next", "close", "uploads", "event", "destroy", "destroyed"}

PathInv ==
  /\ pc \in {"remove", "unload", "guard", "end"} => engine = "done"
  /\ pc \in EngineOver => engine \in {"created", "done"}
  /\ pc \in {"archive", "agent", "init", "start"} => engine = "created"
  /\ terminating[Console] \in Begins =>
       /\ pc = "init" => In(WolfHandler, handlers)
       /\ pc \in FromStart => In(WolfHandler, handlers) /\ In(CommandHandler, handlers)

\* The handlers of the execution stay until it is over, or the console thread takes them.
LEMMA HandlersHeld ==
  ASSUME TypesHold, [Next]_vars, terminating'[Console] \in Begins, pc' \in FromStart \cup {"init"},
         NEW h \in {CommandHandler, WolfHandler}, In(h, handlers)
  PROVE  In(h, handlers')
<1>1. /\ handlers \in Seq(Handlers) /\ AgentTypeOK /\ Compressing /\ h \notin Names /\ Dirs = {}
      /\ terminating \in [Threads -> TerminateSteps] /\ Console \in Threads
  BY LauncherAssumption, CommandsAreFiles DEF TypesHold, TypeOK, RobustTypeOK
<1>2. CASE AgentStep
  BY <1>1, <1>2, AgentTyped DEF HandlersKept
<1>3. CASE \E g : Registers(g)
  <2>1. PICK g : Registers(g)
    BY <1>3
  <2>2. g \in Handlers /\ (handlers' = handlers \/ handlers' = With(handlers, g))
    BY <2>1, Registered DEF Registers, AddTerminationHandler
  <2> QED
    BY <1>1, <2>2, WithIn
<1>4. CASE \E gone : Removes(gone)
  <2>1. PICK gone : Removes(gone)
    BY <1>4
  <2>2. h \notin gone
    BY <1>1, <2>1 DEF Removes, FromStart
  <2>3. handlers' = handlers \/ handlers' = Without(handlers, gone)
    BY <2>1 DEF Removes, RemoveTerminationHandlers
  <2> QED
    BY <1>1, <2>2, <2>3, WithoutIn
<1>5. pc # "guard"
  BY PathOfMain DEF MainMoves, FromStart
<1>6. CASE TerminateStep(Console)
  <2>1. ~SwapHandlers(Console)
    BY <1>1 DEF SwapHandlers, GoOn, Begins
  <2> QED
    BY <1>6, <2>1 DEF TerminateStep, EnterTerminate, ResetTheEvent, AllHandlersCalled, SetTheEvent,
                      SetTerminateCalled
<1>7. CASE UNCHANGED handlers
  BY <1>7
<1> QED
  BY <1>2, <1>3, <1>4, <1>5, <1>6, <1>7, RobustMoves DEF Returns, HandlerReturns, robustVars

LEMMA PathStep ==
  ASSUME TypesHold, ThreadsInv, PathInv, [Next]_vars, ~late'
  PROVE  PathInv'
<1>1. /\ handlers \in Seq(Handlers) /\ {CommandHandler, WolfHandler} \subseteq Handlers
      /\ engine \in {"created", "running", "stopping", "done"}
  BY LauncherAssumption DEF TypesHold, TypeOK, RobustTypeOK
<1>2. pc' \in {"remove", "unload", "guard", "end"} => engine' = "done"
  <2>1. pc' \in {"remove", "unload", "guard", "end"} => engine = "done" /\ pc # "start"
    BY PathOfMain DEF MainMoves, PathInv
  <2> QED
    BY <2>1, EngineStays
<1>3. pc' \in EngineOver => engine' \in {"created", "done"}
  <2>1. pc' \in EngineOver => engine \in {"created", "done"}
    BY PathOfMain DEF MainMoves, PathInv, EngineOver
  <2>2. pc' \in EngineOver => pc' # "enqueue" /\ (engine = "done" => pc # "start")
    BY DEF EngineOver, PathInv
  <2> QED
    BY <2>1, <2>2, EngineStays
<1>4. pc' \in {"archive", "agent", "init", "start"} => engine' = "created"
  <2>1. pc' \in {"archive", "agent", "init", "start"} => engine = "created" /\ pc' # "enqueue"
    BY PathOfMain DEF MainMoves, PathInv
  <2> QED
    BY <2>1, EngineStays
<1>5. ASSUME terminating'[Console] \in Begins
      PROVE  /\ pc' = "init" => In(WolfHandler, handlers')
             /\ pc' \in FromStart => In(WolfHandler, handlers') /\ In(CommandHandler, handlers')
  <2>1. terminating[Console] \in Begins
    BY <1>5, BeginsBack
  <2>2. ASSUME NEW h \in {CommandHandler, WolfHandler}, pc \in {"agent", "init"},
               AddTerminationHandler(h), SameThreads
        PROVE  In(h, handlers')
    <3>1. ~terminateCalled
      BY <2>1, <2>2 DEF ThreadsInv, Destroyed, Begins
    <3> QED
      BY <1>1, <2>2, <3>1, WithIn DEF AddTerminationHandler
  <2>3. pc' = "init" => \/ pc = "init"
                        \/ pc = "agent" /\ AddTerminationHandler(WolfHandler) /\ SameThreads
    BY PathOfMain DEF MainMoves
  <2>4. pc' \in FromStart => \/ pc \in FromStart
                             \/ pc = "init" /\ AddTerminationHandler(CommandHandler) /\ SameThreads
    BY PathOfMain DEF MainMoves, FromStart
  <2> QED
    BY <1>5, <2>1, <2>2, <2>3, <2>4, HandlersHeld DEF PathInv
<1> QED
  BY <1>2, <1>3, <1>4, <1>5 DEF PathInv

\* A command that is over has no handler.
OverInv == \A c \in Names : cmd[c] = "over" => ~In(c, handlers) \/ OverForAll

LEMMA OverStep ==
  ASSUME TypesHold, CallInv, ThreadsInv, PathInv, OverInv, [Next]_vars, ~late'
  PROVE  OverInv'
<1> SUFFICES ASSUME NEW c \in Names, cmd'[c] = "over" PROVE ~In(c, handlers') \/ OverForAll'
  BY DEF OverInv
<1>1. handlers \in Seq(Handlers) /\ c # CommandHandler /\ c # WolfHandler
  BY LauncherAssumption, CommandsAreFiles DEF TypesHold, TypeOK, RobustTypeOK
<1>2. CASE cmd[c] = "over" /\ ~OverForAll
  <2>1. ~In(c, handlers)
    BY <1>2 DEF OverInv
  <2>2. ~Registers(c)
    BY <1>1, <1>2 DEF Registers
  <2>3. \A h : Registers(h) => ~In(c, handlers')
    BY <2>1, <2>2, Registered
  <2>4. \A t \in Threads : SwapHandlers(t) => ~In(c, handlers')
    BY DEF SwapHandlers, In
  <2> QED
    BY <2>1, <2>3, <2>4, ListsMove
<1>3. CASE OverForAll
  BY <1>3, OverStays
<1>4. CASE Outlived(c)
  <2>1. PICK gone \in SUBSET Names : c \in gone /\ RemoveTerminationHandlers(gone) /\ SameThreads /\ EngineRuns
    BY <1>4 DEF Outlived
  <2>2. CASE terminateCalled
    <3>1. ~Destroyed
      BY <2>1 DEF Destroyed, PathInv, EngineRuns
    <3> QED
      BY <1>3, <2>2, <3>1 DEF ThreadsInv, OverForAll
  <2>3. CASE ~terminateCalled
    BY <1>1, <2>1, <2>3, WithoutIn DEF RemoveTerminationHandlers
  <2> QED
    BY <2>2, <2>3
<1> QED
  BY <1>2, <1>3, <1>4, CommandMoves

\* An output is deleted after the commands are killed and the archive is completed, and not by the
\* main thread.
TakenInv ==
  \A c \in Names :
    /\ ~In(c, taken[Main])
    /\ In(c, taken[Console]) => /\ In(CommandHandler, taken[Console]) \/ engine = "done"
                                /\ In(WolfHandler, taken[Console]) \/ archiving # "running"

LEMMA TakenStep ==
  ASSUME TypesHold, CallInv, ListsInv, EngineInv, PathInv, OverInv, TakenInv, [Next]_vars, ~late'
  PROVE  TakenInv'
<1> SUFFICES ASSUME NEW c \in Names
             PROVE  /\ ~In(c, taken'[Main])
                    /\ In(c, taken'[Console]) =>
                         /\ In(CommandHandler, taken'[Console]) \/ engine' = "done"
                         /\ In(WolfHandler, taken'[Console]) \/ archiving' # "running"
  BY DEF TakenInv
<1>1. /\ taken \in [Threads -> Seq(Handlers)] /\ Main \in Threads /\ Console \in Threads
      /\ cmd \in [Names -> {"unsent", "sent", "queued", "running", "exited", "over"}] /\ pc \in Steps
      /\ engine \in {"created", "running", "stopping", "done"}
      /\ c # CommandHandler /\ c # WolfHandler
  BY LauncherAssumption, CommandsAreFiles DEF TypesHold, TypeOK, RobustTypeOK
<1>2. engine = "done" => engine' = "done" /\ (~OverForAll => ~In(c, handlers))
  <2>1. ASSUME engine = "done", ~OverForAll, In(c, handlers) PROVE FALSE
    <3>1. cmd[c] \in {"unsent", "sent", "over"} /\ Known(c)
      BY <2>1 DEF EngineInv, CallInv
    <3> QED
      BY <2>1, <3>1 DEF Known, OverInv
  <2> QED
    BY <2>1, EngineStays DEF PathInv
<1>3. archiving # "running" => archiving' # "running"
  BY StopStays
<1>4. ~In(c, taken'[Main])
  <2>1. CASE taken'[Main] = taken[Main]
    BY <2>1 DEF TakenInv
  <2>2. CASE terminating[Main] = "swap" /\ pc = "guard" /\ taken'[Main] = handlers
    BY <1>2, <2>2 DEF PathInv, OverForAll
  <2>3. CASE taken[Main] # <<>> /\ taken'[Main] = Tail(taken[Main])
    BY <1>1, <2>3, TailIn DEF TakenInv
  <2> QED
    BY <1>1, <2>1, <2>2, <2>3, TakenMoves
<1>5. ASSUME In(c, taken'[Console])
      PROVE  /\ In(CommandHandler, taken'[Console]) \/ engine' = "done"
             /\ In(WolfHandler, taken'[Console]) \/ archiving' # "running"
  <2>1. CASE taken'[Console] = taken[Console]
    BY <1>2, <1>3, <1>5, <2>1 DEF TakenInv
  <2>2. CASE terminating[Console] = "swap" /\ taken'[Console] = handlers
    <3>1. In(c, handlers) /\ Known(c)
      BY <1>5, <2>2 DEF CallInv
    <3>2. engine # "done" /\ engine # "created"
      BY <1>1, <1>2, <2>2, <3>1 DEF OverForAll, Known, EngineInv
    <3>3. pc \in FromStart
      BY <1>1, <3>2 DEF PathInv, Steps, FromStart, EngineOver
    <3> QED
      BY <2>2, <3>3 DEF PathInv, Begins
  <2>3. CASE /\ taken[Console] # <<>> /\ taken'[Console] = Tail(taken[Console])
             /\ Head(taken[Console]) = CommandHandler => engine = "done"
             /\ Head(taken[Console]) = WolfHandler => archiving # "running"
    <3>1. /\ In(c, taken[Console])
          /\ \A x : In(x, taken[Console]) => x = Head(taken[Console]) \/ In(x, taken'[Console])
      BY <1>1, <1>5, <2>3, TailIn, HeadFirst DEF ListsInv
    <3> QED
      BY <1>2, <1>3, <2>3, <3>1 DEF TakenInv
  <2> QED
    BY <1>1, <2>1, <2>2, <2>3, TakenMoves
<1> QED
  BY <1>4, <1>5

\* The archive is completed, or will be by what waits for the agent.
Closing == archiving # "running" \/ \E n \in DOMAIN inbox : inbox[n].type = "Complete"

\* No command has anything to archive any more, or what is archived no longer matters.
Halted == engine = "done" \/ (engine = "created" /\ pc \notin {"archive", "agent", "init", "start"})
NoneTaken == terminating[Console] \notin Begins /\ \A c \in Names : ~In(c, taken[Console])

CloseInv == Closing => Halted \/ NoneTaken

LEMMA RequestsComplete ==
  ASSUME NEW list \in Seq(Messages), \A m : In(m, list) => m.type # "Complete", Posts(list)
  PROVE  inbox \in Seq(Messages) /\ Closing' => Closing
<1> SUFFICES ASSUME inbox \in Seq(Messages), Closing' PROVE Closing
  OBVIOUS
<1>1. inbox' = inbox \o list /\ archiving' = archiving
  BY DEF Posts, Post, SameAgents
<1>2. \A m : In(m, inbox') => In(m, inbox) \/ In(m, list)
  BY <1>1, ConcatIn
<1> QED
  BY <1>1, <1>2 DEF Closing, In

\* Who completes the archive.
LEMMA ClosingMoves ==
  ASSUME NoRefusal, TypesHold, OpenInv, [Next]_vars, Closing'
  PROVE  Closing \/ pc = "stats" \/ \E t \in Threads : Calling(t, WolfHandler)
<1>1. inbox \in Seq(Messages)
  BY DEF TypesHold, TypeOK, AgentTypeOK
<1>2. CASE Archiver
  <2>1. /\ inbox # <<>> /\ inbox' = Tail(inbox) /\ (AgentOpened \/ AgentQueued \/ AgentWrote)
        /\ In(Head(inbox), inbox)
    <3>1. inbox # <<>> => In(Head(inbox), inbox)
      BY <1>1 DEF In
    <3> QED
      BY <1>2, <3>1, AgentFiles DEF Archiver
  <2>2. CASE AgentOpened \/ AgentQueued
    <3>1. archiving' = "running"
      BY <2>2 DEF AgentOpened, AgentQueued
    <3>2. PICK m : In(m, inbox') /\ m.type = "Complete"
      BY <3>1 DEF Closing, In
    <3>3. In(m, inbox)
      BY <1>1, <2>1, <3>2, TailIn
    <3> QED
      BY <3>2, <3>3 DEF Closing, In
  <2>3. CASE AgentWrote
    BY <2>1, <2>3 DEF AgentWrote, Closing, In
  <2> QED
    BY <2>1, <2>2, <2>3
<1>3. CASE Posts(<<OpenArchive>>)
  <2>1. PICK m : m = OpenArchive
    OBVIOUS
  <2>2. m.type # "Complete" /\ m \in Messages
    BY <2>1, MessagesSent DEF OpenArchive, Message
  <2>3. <<m>> \in Seq(Messages) /\ \A x : In(x, <<m>>) => x.type # "Complete"
    BY <2>2 DEF In
  <2> QED
    BY <1>1, <1>3, <2>1, <2>3, RequestsComplete
<1>4. CASE \E c \in Names : CompleteCommand(c) /\ Posts(IF c \in disk THEN <<AddFile(c)>> ELSE <<>>)
  <2>1. PICK c \in Names : Posts(IF c \in disk THEN <<AddFile(c)>> ELSE <<>>)
    BY <1>4
  <2>2. PICK m : m = AddFile(c)
    OBVIOUS
  <2>3. m.type # "Complete" /\ m \in Messages
    BY <2>2, MessagesSent, CommandsAreFiles DEF AddFile, Message
  <2>4. PICK list : list = IF c \in disk THEN <<m>> ELSE <<>>
    OBVIOUS
  <2>5. list \in Seq(Messages) /\ \A x : In(x, list) => x.type # "Complete"
    BY <2>3, <2>4 DEF In
  <2> QED
    BY <1>1, <2>1, <2>2, <2>4, <2>5, RequestsComplete
<1>5. CASE UNCHANGED <<inbox, archiving>>
  BY <1>5 DEF Closing
<1> QED
  BY <1>2, <1>3, <1>4, <1>5, AgentMoves DEF DiskOnly, agentVars

LEMMA CloseStep ==
  ASSUME NoRefusal, TypesHold, ThreadsInv, ListsInv, OpenInv, PathInv, TakenInv, CloseInv,
         [Next]_vars, ~late'
  PROVE  CloseInv'
<1>1. /\ taken \in [Threads -> Seq(Handlers)] /\ Threads = {Main, Console}
      /\ CommandHandler \in Handlers /\ WolfHandler \in Handlers
      /\ Priority \in [Handlers -> Nat] /\ Priority[CommandHandler] > Priority[WolfHandler]
      /\ CommandHandler # WolfHandler
  BY LauncherAssumption, PriorityAssumption, RobustnessAssumption DEF TypesHold, TypeOK, RobustTypeOK
<1>2. Halted => Halted'
  <2>1. CASE engine = "done"
    BY <2>1, EngineStays DEF PathInv, Halted
  <2>2. CASE engine = "created" /\ pc \notin {"archive", "agent", "init", "start"}
    BY <2>2, EngineStays, PathOfMain DEF MainMoves, Halted
  <2> QED
    BY <2>1, <2>2 DEF Halted
<1>3. NoneTaken => NoneTaken'
  <2> SUFFICES ASSUME NoneTaken PROVE NoneTaken'
    OBVIOUS
  <2>1. terminating'[Console] \notin Begins
    BY BeginsBack DEF NoneTaken
  <2>2. \A c \in Names : ~In(c, taken'[Console])
    <3>1. terminating[Console] # "swap"
      BY DEF NoneTaken, Begins
    <3>2. taken'[Console] = taken[Console] \/ (taken[Console] # <<>> /\ taken'[Console] = Tail(taken[Console]))
      BY <1>1, <3>1, TakenMoves
    <3> QED
      BY <1>1, <3>2, TailIn DEF NoneTaken
  <2> QED
    BY <2>1, <2>2 DEF NoneTaken
<1>4. pc = "stats" => Halted
  BY DEF PathInv, EngineOver, Halted
<1>5. ASSUME NEW t \in Threads, Calling(t, WolfHandler) PROVE Halted \/ NoneTaken
  <2>1. terminating[t] = "call" /\ taken[t] # <<>> /\ WolfHandler = Head(taken[t])
    BY <1>5 DEF Calling
  <2>2. CASE t = Main
    BY <2>1, <2>2 DEF ThreadsInv, Destroyed, PathInv, Halted
  <2>3. CASE t = Console
    <3>1. terminating[Console] \notin Begins
      BY <2>1, <2>3 DEF Begins
    <3>2. ~In(CommandHandler, taken[Console])
      BY <1>1, <2>1, <2>3, HeadFirst DEF ListsInv
    <3> QED
      BY <3>1, <3>2 DEF TakenInv, Halted, NoneTaken
  <2> QED
    BY <1>1, <2>2, <2>3
<1> QED
  BY <1>2, <1>3, <1>4, <1>5, ClosingMoves DEF CloseInv

\* Where the main thread leaves, the archive is completed or there was none to open.
EndInv ==
  pc \in {"archive", "upload", "next", "close", "uploads", "event"} \cup Leaving =>
    archiving # "running" \/ (Unopened /\ compressor = <<>>)

LEMMA UnopenedQuiet ==
  ASSUME NoRefusal, TypesHold, OpenInv, Unopened, [Next]_vars
  PROVE  pc' = "agent" \/ UNCHANGED <<inbox, compressor>>
<1>1. taken \in [Threads -> Seq(Handlers)] /\ inbox = <<>>
  BY DEF TypesHold, TypeOK, RobustTypeOK, Unopened
<1>2. ~Archiver
  BY <1>1, AgentFiles DEF Archiver
<1>3. \A t \in Threads : ~Calling(t, WolfHandler)
  <2>1. \A t \in Threads : Calling(t, WolfHandler) => In(WolfHandler, taken[t])
    BY <1>1 DEF Calling, In
  <2> QED
    BY <2>1 DEF Unopened
<1>4. \A c \in Names : ~CompleteCommand(c)
  BY DEF Unopened, CompleteCommand, Step, EngineRuns
<1>5. pc # "stats"
  BY DEF Unopened, Leaving
<1> QED
  BY <1>2, <1>3, <1>4, <1>5, AgentMoves DEF DiskOnly, agentVars

LEMMA EndStep ==
  ASSUME NoRefusal, TypesHold, OpenInv, EndInv, [Next]_vars, ~late'
  PROVE  EndInv'
<1> SUFFICES ASSUME pc' \in {"archive", "upload", "next", "close", "uploads", "event"} \cup Leaving
             PROVE  archiving' # "running" \/ (Unopened' /\ compressor' = <<>>)
  BY DEF EndInv
<1>1. archiving # "running" => archiving' # "running"
  BY StopStays
<1>2. archiving # "running" \/ (Unopened /\ compressor = <<>>)
  BY PathOfMain DEF MainMoves, EndInv, Leaving
<1>3. CASE Unopened /\ compressor = <<>>
  <2>1. UNCHANGED <<inbox, compressor>>
    BY <1>3, UnopenedQuiet DEF Leaving
  <2> QED
    BY <1>3, <2>1, StaysUnopened
<1> QED
  BY <1>1, <1>2, <1>3

\* The console thread that has taken the handler of the execution has it to call, or has the archive
\* completed.
CabInv ==
  cabbing => terminating[Console] \notin Begins /\ (In(WolfHandler, taken[Console]) \/ archiving # "running")

LEMMA CabMoves ==
  ASSUME [Next]_vars
  PROVE  \/ cabbing' => cabbing
         \/ SwapHandlers(Console) /\ In(WolfHandler, handlers)
<1>1. CASE MainStep
  BY <1>1 DEF MainStep, CreateArchiveAgent, CreateCommandAgent, StartCommandAgent, EnqueueCommand, Throw,
              AskDone, AskTerminate, CommandAgentEnded, CommandAgentTimesOut, RemoveWolfHandler,
              UnInitializeCommandAgent, AskArchive, ArchiveEnded, ArchiveTimesOut, AskUpload, NextExecution,
              CompleteUpload, UploadEnded, WaitForHandlers, Guard, history
<1>2. CASE EngineStep
  BY <1>2 DEF EngineStep, Prepare, Run, ProcessEnds, CompleteCommand, KillAll, ReadDone, EngineEnds,
              Output, history
<1>3. CASE \E t \in Threads : HandlerStep(t)
  BY <1>3 DEF HandlerStep, EnterCommandHandler, LeaveCommandHandler, EnterWolfHandler,
              LeaveWolfHandler, DeleteOutput, history
<1>4. CASE ConsoleStep
  <2>1. /\ TerminateStep(Console)
        /\ cabbing' = \/ cabbing
                      \/ /\ terminating[Console] = "swap"
                         /\ \E n \in DOMAIN handlers : handlers[n] = WolfHandler
    BY <1>4 DEF ConsoleStep
  <2>2. terminating[Console] = "swap" => SwapHandlers(Console)
    BY <2>1 DEF TerminateStep, EnterTerminate, ResetTheEvent, AllHandlersCalled, SetTheEvent,
                SetTerminateCalled
  <2>3. (cabbing' => cabbing) \/ (terminating[Console] = "swap" /\ In(WolfHandler, handlers))
    BY <2>1, Zenon DEF In
  <2> QED
    BY <2>2, <2>3
<1>5. CASE \/ Archiver \/ Uploader \/ Transfer \/ UNCHANGED vars
           \/ MainExits \/ ConsoleExits \/ \E t \in Threads : DanglingHandler(t)
  BY <1>5 DEF Archiver, Uploader, Transfer, MainExits, ConsoleExits, DanglingHandler, history, vars
<1> QED
  BY <1>1, <1>2, <1>3, <1>4, <1>5 DEF Next

LEMMA CabStep ==
  ASSUME TypesHold, ListsInv, CabInv, [Next]_vars, ~late'
  PROVE  CabInv'
<1>1. /\ taken \in [Threads -> Seq(Handlers)] /\ terminating \in [Threads -> TerminateSteps]
      /\ Console \in Threads /\ CommandHandler # WolfHandler
  BY LauncherAssumption DEF TypesHold, TypeOK, RobustTypeOK
<1>2. CASE cabbing
  <2>1. terminating[Console] \notin Begins /\ terminating'[Console] \notin Begins
    BY <1>2, BeginsBack DEF CabInv
  <2>2. archiving # "running" => archiving' # "running"
    BY StopStays
  <2>3. CASE taken'[Console] = taken[Console]
    BY <1>2, <2>1, <2>2, <2>3 DEF CabInv
  <2>4. CASE /\ taken[Console] # <<>> /\ taken'[Console] = Tail(taken[Console])
             /\ Head(taken[Console]) = WolfHandler => archiving # "running"
    <3>1. \A x : In(x, taken[Console]) => x = Head(taken[Console]) \/ In(x, taken'[Console])
      BY <1>1, <2>4, HeadFirst DEF ListsInv
    <3> QED
      BY <1>2, <2>1, <2>2, <2>4, <3>1 DEF CabInv
  <2> QED
    BY <1>1, <2>1, <2>3, <2>4, TakenMoves DEF Begins
<1>3. CASE SwapHandlers(Console) /\ In(WolfHandler, handlers)
  <2>1. taken'[Console] = handlers /\ terminating'[Console] = "call"
    BY <1>1, <1>3 DEF SwapHandlers, GoOn
  <2> QED
    BY <1>3, <2>1 DEF CabInv, Begins
<1>4. CASE ~cabbing'
  BY <1>4 DEF CabInv
<1> QED
  BY <1>2, <1>3, <1>4, CabMoves

\* A completed archive has been given all that was queued.
QueueInv ==
  archiving = "done" /\ compressor # <<>> => Zip.queue = {} /\ Zip.items = Zip.indexed

LEMMA QueueStep ==
  ASSUME NoRefusal, TypesHold, OpenInv, QueueInv, [Next]_vars
  PROVE  QueueInv'
<1>1. CASE Archiver
  <2>1. AgentOpened \/ AgentQueued \/ AgentWrote
    BY <1>1, AgentFiles DEF Archiver
  <2> QED
    BY <2>1 DEF AgentOpened, AgentQueued, AgentWrote, QueueInv
<1>2. CASE UNCHANGED <<archiving, compressor>>
  BY <1>2 DEF QueueInv, Zip
<1> QED
  BY <1>1, <1>2, AgentMoves DEF Posts, SameAgents, DiskOnly, agentVars

\* A message that is served before the archive is completed.
Before(m, list) ==
  \E n \in DOMAIN list : list[n] = m /\ \A k \in 1..n : list[k].type # "Complete"

LEMMA BeforeTail ==
  ASSUME NEW list \in Seq(Messages), NEW m, Before(m, list)
  PROVE  /\ list # <<>> /\ Head(list).type # "Complete"
         /\ Head(list) = m \/ Before(m, Tail(list))
<1>1. PICK l \in Nat : l = Len(list) /\ DOMAIN list = 1..l
  OBVIOUS
<1>2. PICK n \in 1..l : list[n] = m /\ \A k \in 1..n : list[k].type # "Complete"
  BY <1>1 DEF Before
<1>3. list # <<>> /\ Head(list) = list[1] /\ list[1].type # "Complete"
  BY <1>1, <1>2
<1>4. CASE n = 1
  BY <1>2, <1>3, <1>4
<1>5. CASE n # 1
  <2>1. PICK rest, p : rest = Tail(list) /\ p = n - 1
    OBVIOUS
  <2>2. /\ DOMAIN rest = 1..l - 1 /\ \A k \in 1..l - 1 : rest[k] = list[k + 1]
        /\ p \in 1..l - 1 /\ p + 1 = n
    BY <1>1, <1>2, <1>3, <1>5, <2>1
  <2>3. rest[p] = m /\ \A k \in 1..p : rest[k].type # "Complete"
    <3>1. \A k \in 1..p : k + 1 \in 1..n /\ k \in 1..l - 1
      BY <1>1, <2>2
    <3> QED
      BY <1>2, <2>2, <3>1
  <2> QED
    BY <1>3, <2>1, <2>2, <2>3 DEF Before
<1> QED
  BY <1>4, <1>5

LEMMA BeforeConcat ==
  ASSUME NEW a \in Seq(Messages), NEW b \in Seq(Messages), NEW m
  PROVE  /\ Before(m, a) => Before(m, a \o b)
         /\ Before(m, b) /\ (\A x : In(x, a) => x.type # "Complete") => Before(m, a \o b)
<1>1. PICK i \in Nat, j \in Nat : i = Len(a) /\ j = Len(b) /\ DOMAIN a = 1..i /\ DOMAIN b = 1..j
  OBVIOUS
<1>2. PICK c : c = a \o b
  OBVIOUS
<1>3. /\ DOMAIN c = 1..i + j
      /\ \A k \in 1..i : c[k] = a[k]
      /\ \A k \in 1..j : c[k + i] = b[k]
      /\ \A k \in i + 1..i + j : k - i \in 1..j /\ c[k] = b[k - i]
  BY <1>1, <1>2
<1>4. ASSUME Before(m, a) PROVE Before(m, c)
  <2>1. PICK n \in 1..i : a[n] = m /\ \A k \in 1..n : a[k].type # "Complete"
    BY <1>1, <1>4 DEF Before
  <2>2. \A k \in 1..n : k \in 1..i
    BY <1>1
  <2>3. n \in DOMAIN c /\ c[n] = m
    BY <1>1, <1>3, <2>1
  <2>4. \A k \in 1..n : c[k] = a[k]
    BY <1>3, <2>2
  <2> QED
    BY <2>1, <2>3, <2>4 DEF Before
<1>5. ASSUME Before(m, b), \A x : In(x, a) => x.type # "Complete" PROVE Before(m, c)
  <2>1. PICK n \in 1..j : b[n] = m /\ \A k \in 1..n : b[k].type # "Complete"
    BY <1>1, <1>5 DEF Before
  <2>2. PICK p : p = n + i
    OBVIOUS
  <2>3. p \in DOMAIN c /\ c[p] = m
    <3>1. c[n + i] = b[n] /\ p \in 1..i + j
      BY <1>1, <1>3, <2>1, <2>2
    <3> QED
      BY <1>3, <2>1, <2>2, <3>1
  <2>4. ASSUME NEW k \in 1..p PROVE c[k].type # "Complete"
    <3>1. CASE k \in 1..i
      BY <1>1, <1>3, <1>5, <3>1 DEF In
    <3>2. CASE k \notin 1..i
      <4>1. PICK q : q = k - i
        OBVIOUS
      <4>2. q \in 1..n /\ c[k] = b[q]
        BY <1>1, <1>3, <2>1, <2>2, <3>2, <4>1
      <4> QED
        BY <2>1, <4>2
    <3> QED
      BY <3>1, <3>2
  <2> QED
    BY <2>3, <2>4 DEF Before
<1> QED
  BY <1>2, <1>4, <1>5

\* Statistics on disk are archived before the archive is completed, and a file alone.
LEMMA BeforeNew ==
  /\ Stats \in disk => Before(AddFile(Stats), ArchiveRequests)
  /\ \A f : Before(AddFile(f), <<AddFile(f)>>)
<1>1. PICK a, c : a = AddFile(Stats) /\ c = Complete
  OBVIOUS
<1>2. a.type # "Complete"
  BY <1>1 DEF AddFile, Message
<1>3. Before(a, <<a>> \o <<c>>)
  <2>1. PICK l : l = <<a>> \o <<c>>
    OBVIOUS
  <2>2. 1 \in DOMAIN l /\ l[1] = a /\ \A k \in 1..1 : l[k] = a
    BY <2>1
  <2> QED
    BY <1>2, <2>1, <2>2 DEF Before
<1>4. ASSUME NEW f PROVE Before(AddFile(f), <<AddFile(f)>>)
  <2>1. PICK b : b = AddFile(f)
    OBVIOUS
  <2>2. b.type # "Complete"
    BY <2>1 DEF AddFile, Message
  <2>3. PICK l : l = <<b>>
    OBVIOUS
  <2>4. 1 \in DOMAIN l /\ l[1] = b /\ \A k \in 1..1 : l[k] = b
    BY <2>3
  <2> QED
    BY <2>1, <2>2, <2>3, <2>4 DEF Before
<1> QED
  BY <1>1, <1>3, <1>4 DEF ArchiveRequests

\* An output may yet be deleted by the console thread.
Cares(c) == terminating[Console] \in Begins \/ In(c, taken[Console])

\* It is still to be archived: by the agent, by the end of its command, or with the statistics.
Waiting(c) ==
  archiving = "running" /\ (Before(AddFile(c), inbox) \/ (compressor # <<>> /\ c \in Zip.queue))
Excused(c) == \/ c \in Names /\ cmd[c] = "exited"
              \/ c = Stats /\ ~Closing
              \/ Waiting(c)

\* What was produced is in the archive, or on disk; and while the console thread may delete it, it is
\* still to be archived.
FileInv ==
  \A c \in produced : c \in Archived \/ (c \in disk /\ (Cares(c) => Excused(c)))

LEMMA CaresBack ==
  ASSUME TypesHold, [Next]_vars, NEW c, Cares(c)'
  PROVE  Cares(c)
<1>1. taken \in [Threads -> Seq(Handlers)] /\ Console \in Threads
  BY LauncherAssumption DEF TypesHold, TypeOK, RobustTypeOK
<1>2. CASE terminating'[Console] \in Begins
  BY <1>2, BeginsBack DEF Cares
<1>3. CASE In(c, taken'[Console])
  BY <1>1, <1>3, TakenMoves, TailIn DEF Cares, Begins
<1> QED
  BY <1>2, <1>3 DEF Cares

\* Messages to the agent, unless they complete the archive without the statistics.
LEMMA ExcusePosts ==
  ASSUME TypesHold, NEW c, NEW list \in Seq(Messages), Posts(list), Excused(c),
         c \in Names /\ cmd[c] = "exited" => cmd'[c] = "exited",
         (\A m : In(m, list) => m.type # "Complete") \/ (c = Stats => Before(AddFile(c), list))
  PROVE  Excused(c)'
<1>1. /\ inbox \in Seq(Messages) /\ inbox' = inbox \o list
      /\ archiving' = archiving /\ compressor' = compressor
  BY DEF TypesHold, TypeOK, AgentTypeOK, Posts, Post, SameAgents
<1>2. CASE c \in Names /\ cmd[c] = "exited"
  BY <1>2 DEF Excused
<1>3. CASE Waiting(c)
  BY <1>1, <1>3, BeforeConcat DEF Waiting, Excused, Zip
<1>4. CASE c = Stats /\ ~Closing
  <2>1. CASE \A m : In(m, list) => m.type # "Complete"
    BY <1>1, <1>4, <2>1, RequestsComplete DEF Excused
  <2>2. CASE Before(AddFile(c), list)
    <3>1. archiving = "running" /\ \A m : In(m, inbox) => m.type # "Complete"
      BY <1>4 DEF Closing, In
    <3>2. Before(AddFile(c), inbox')
      BY <1>1, <2>2, <3>1, BeforeConcat
    <3> QED
      BY <1>1, <3>1, <3>2 DEF Excused, Waiting
  <2> QED
    BY <1>4, <2>1, <2>2
<1> QED
  BY <1>2, <1>3, <1>4 DEF Excused

\* An output that is still to be archived is not deleted.
LEMMA NotDeleted ==
  ASSUME TypesHold, EngineInv, ListsInv, TakenInv, NEW t \in Threads, NEW f \in Files, Calling(t, f)
  PROVE  Cares(f) /\ ~Excused(f)
<1>1. /\ taken \in [Threads -> Seq(Handlers)] /\ Threads = {Main, Console}
      /\ {CommandHandler, WolfHandler} \cup Files \subseteq Handlers
      /\ Names \subseteq Files \ {Stats} /\ {CommandHandler, WolfHandler} \cap Files = {}
      /\ Priority \in [Handlers -> Nat]
      /\ Priority[CommandHandler] > Priority[f] /\ Priority[WolfHandler] > Priority[f]
  BY LauncherAssumption, PriorityAssumption, RobustnessAssumption, CommandsAreFiles
     DEF TypesHold, TypeOK, RobustTypeOK
<1>2. taken[t] # <<>> /\ f = Head(taken[t]) /\ In(f, taken[t])
  <2>1. taken[t] # <<>> /\ f = Head(taken[t])
    BY DEF Calling
  <2> QED
    BY <1>1, <2>1, HeadFirst DEF ListsInv
<1>3. f \in Names
  BY <1>1, <1>2 DEF ListsInv
<1>4. t = Console
  BY <1>1, <1>2, <1>3 DEF TakenInv
<1>5. ~In(CommandHandler, taken[t]) /\ ~In(WolfHandler, taken[t])
  <2>1. \A x : In(x, taken[t]) => x = f \/ Priority[f] >= Priority[x]
    BY <1>1, <1>2, HeadFirst DEF ListsInv
  <2> QED
    BY <1>1, <2>1
<1>6. engine = "done" /\ archiving # "running"
  BY <1>2, <1>3, <1>4, <1>5 DEF TakenInv
<1> QED
  BY <1>1, <1>2, <1>3, <1>4, <1>6 DEF EngineInv, Cares, Excused, Waiting

\* What a step of the archive agent does to an output.
LEMMA FileArchiver ==
  ASSUME NoRefusal, TypesHold, OpenInv, Archiver,
         NEW c \in Files, c \in disk, Excused(c)
  PROVE  c \in Archived' \/ (c \in disk' /\ Excused(c)')
<1>1. /\ inbox # <<>> /\ inbox' = Tail(inbox) /\ archiving = "running" /\ compressor' # <<>>
      /\ AgentOpened \/ AgentQueued \/ AgentWrote
      /\ cmd' = cmd /\ inbox \in Seq(Messages)
  BY AgentFiles DEF Archiver, engineVars, TypesHold, TypeOK, AgentTypeOK
<1>2. archiving' = "running" /\ ~Closing => ~Closing'
  <2>1. \A m : In(m, Tail(inbox)) => In(m, inbox)
    BY <1>1, TailIn
  <2>2. \A m : In(m, inbox') => In(m, inbox)
    BY <1>1, <2>1
  <2> QED
    BY <2>2 DEF Closing, In
<1>3. CASE c \in Names /\ cmd[c] = "exited"
  <2>1. CASE AgentOpened \/ AgentQueued
    BY <1>1, <1>3, <2>1 DEF AgentOpened, AgentQueued, Excused
  <2>2. CASE AgentWrote
    BY <1>1, <1>3, <2>2 DEF AgentWrote, Excused, Archived
  <2> QED
    BY <1>1, <2>1, <2>2
<1>4. CASE c = Stats /\ ~Closing
  <2>1. CASE AgentOpened \/ AgentQueued
    BY <1>2, <1>4, <2>1 DEF AgentOpened, AgentQueued, Excused
  <2>2. ~AgentWrote
    BY <1>1, <1>4 DEF AgentWrote, Closing
  <2> QED
    BY <1>1, <2>1, <2>2
<1>5. CASE Before(AddFile(c), inbox)
  <2>1. /\ Head(inbox).type # "Complete"
        /\ Head(inbox) = AddFile(c) \/ Before(AddFile(c), inbox')
    BY <1>1, <1>5, BeforeTail
  <2>2. AddFile(c).type = "AddFile" /\ AddFile(c).of = c
    BY DEF AddFile, Message
  <2>3. CASE AgentOpened
    BY <2>1, <2>2, <2>3 DEF AgentOpened, Excused, Waiting
  <2>4. CASE AgentQueued
    BY <1>1, <2>1, <2>2, <2>4 DEF AgentQueued, Excused, Waiting
  <2>5. ~AgentWrote
    BY <2>1 DEF AgentWrote
  <2> QED
    BY <1>1, <2>3, <2>4, <2>5
<1>6. CASE compressor # <<>> /\ c \in Zip.queue
  <2>1. CASE AgentOpened
    BY <1>6, <2>1 DEF AgentOpened, Excused, Waiting, Zip
  <2>2. CASE AgentQueued
    BY <1>1, <1>6, <2>2 DEF AgentQueued, Excused, Waiting
  <2>3. CASE AgentWrote
    BY <1>1, <1>6, <2>3 DEF AgentWrote, Archived
  <2> QED
    BY <1>1, <2>1, <2>2, <2>3
<1> QED
  BY <1>3, <1>4, <1>5, <1>6 DEF Excused, Waiting

LEMMA FileStep ==
  ASSUME NoRefusal, TypesHold, EngineInv, ListsInv, OpenInv, TakenInv, CloseInv, FileInv,
         [Next]_vars, exited' = exited
  PROVE  FileInv'
<1> SUFFICES ASSUME NEW c \in produced'
             PROVE  c \in Archived' \/ (c \in disk' /\ (Cares(c)' => Excused(c)'))
  BY DEF FileInv
<1>1. /\ inbox \in Seq(Messages) /\ produced \subseteq Files
      /\ Names \subseteq Files \ {Stats} /\ Stats \in Files
  BY CommandsAreFiles DEF TypesHold, TypeOK, AgentTypeOK
<1>2. CASE c \notin produced
  BY <1>2, CommandMoves DEF Excused
<1>3. CASE c \in produced /\ c \in Archived
  <2>1. archiving # "running"
    BY <1>3 DEF OpenInv, Fresh, Archived
  <2>2. compressor' = compressor
    BY <2>1, StopStays
  <2> QED
    BY <1>3, <2>2 DEF Archived, Zip
<1>4. CASE c \in produced /\ c \in disk /\ (Cares(c) => Excused(c))
  <2>1. c \in Files /\ c \in disk /\ (Cares(c)' => Cares(c) /\ Excused(c))
    BY <1>1, <1>4, CaresBack
  <2>2. CASE Archiver
    <3>1. CASE Excused(c)
      BY <2>1, <2>2, <3>1, FileArchiver
    <3>2. CASE ~Excused(c)
      <4>1. /\ AgentOpened \/ AgentQueued \/ AgentWrote
            /\ compressor' # <<>>
        BY <2>2, AgentFiles DEF Archiver
      <4>2. c \in disk' \/ c \in Archived'
        BY <2>1, <4>1 DEF AgentOpened, AgentQueued, AgentWrote, Archived
      <4> QED
        BY <2>1, <3>2, <4>2
    <3> QED
      BY <3>1, <3>2
  <2>3. CASE c \in Names /\ CompleteCommand(c)
    <3>1. Posts(<<AddFile(c)>>) /\ EngineRuns
      BY <2>1, <2>3 DEF CompleteCommand, Posts, Step
    <3>2. c \in disk' /\ archiving' = archiving
      BY <2>1, <3>1 DEF Posts, SameAgents
    <3>3. Cares(c) => ~Closing
      BY <2>3, <3>1 DEF CloseInv, EngineRuns, Halted, NoneTaken, Cares
    <3>4. ~Closing => Excused(c)'
      <4>1. PICK m : m = AddFile(c)
        OBVIOUS
      <4>2. m \in Messages /\ Before(m, <<m>>)
        BY <1>1, <2>1, <4>1, MessagesSent, BeforeNew
      <4>3. <<m>> \in Seq(Messages) /\ inbox' = inbox \o <<m>>
        BY <3>1, <4>1, <4>2 DEF Posts, Post
      <4>4. ~Closing => archiving = "running" /\ \A x : In(x, inbox) => x.type # "Complete"
        BY DEF Closing, In
      <4>5. ~Closing => Before(m, inbox')
        BY <1>1, <4>2, <4>3, <4>4, BeforeConcat
      <4> QED
        BY <3>2, <4>1, <4>4, <4>5 DEF Excused, Waiting
    <3> QED
      BY <2>1, <3>2, <3>3, <3>4
  <2>4. ASSUME ~(c \in Names /\ CompleteCommand(c)),
               NEW list \in Seq(Messages), Posts(list),
               (\A m : In(m, list) => m.type # "Complete") \/ (c = Stats => Before(AddFile(c), list))
        PROVE  c \in disk' /\ (Cares(c)' => Excused(c)')
    <3>1. c \in disk'
      BY <2>1, <2>4 DEF Posts, SameAgents
    <3>2. c \in Names /\ cmd[c] = "exited" => cmd'[c] = "exited"
      BY <2>4, CommandMoves
    <3>3. Excused(c) => Excused(c)'
      BY <2>4, <3>2, ExcusePosts
    <3> QED
      BY <2>1, <3>1, <3>3
  <2>5. CASE ~(c \in Names /\ CompleteCommand(c)) /\ Posts(<<OpenArchive>>)
    <3>1. PICK m : m = OpenArchive
      OBVIOUS
    <3>2. m.type # "Complete" /\ m \in Messages
      BY <3>1, MessagesSent DEF OpenArchive, Message
    <3>3. <<m>> \in Seq(Messages) /\ \A x : In(x, <<m>>) => x.type # "Complete"
      BY <3>2 DEF In
    <3> QED
      BY <2>4, <2>5, <3>1, <3>3
  <2>6. CASE ~(c \in Names /\ CompleteCommand(c)) /\ Posts(ArchiveRequests)
    BY <2>1, <2>4, <2>6, RequestsTyped, BeforeNew
  <2>7. ASSUME ~(c \in Names /\ CompleteCommand(c)), NEW d \in Names,
               Posts(IF d \in disk THEN <<AddFile(d)>> ELSE <<>>)
        PROVE  c \in disk' /\ (Cares(c)' => Excused(c)')
    <3>1. PICK m : m = AddFile(d)
      OBVIOUS
    <3>2. m.type # "Complete" /\ m \in Messages
      BY <1>1, <3>1, MessagesSent DEF AddFile, Message
    <3>3. PICK list : list = IF d \in disk THEN <<m>> ELSE <<>>
      OBVIOUS
    <3>4. list \in Seq(Messages) /\ \A x : In(x, list) => x.type # "Complete"
      BY <3>2, <3>3 DEF In
    <3> QED
      BY <2>4, <2>7, <3>1, <3>3, <3>4
  <2>8. CASE ~(c \in Names /\ CompleteCommand(c)) /\ UNCHANGED <<inbox, archiving, compressor>> /\ c \in disk'
    <3>1. c \in Names /\ cmd[c] = "exited" => cmd'[c] = "exited"
      BY <2>8, CommandMoves
    <3>2. Excused(c) => Excused(c)'
      BY <2>8, <3>1 DEF Excused, Closing, Waiting, Zip
    <3> QED
      BY <2>1, <2>8, <3>2
  <2>9. ASSUME NEW t \in Threads, NEW f \in Files, Calling(t, f), disk' = disk \ {f}
        PROVE  c \in disk'
    <3>1. Cares(f) /\ ~Excused(f)
      BY <2>9, NotDeleted
    <3> QED
      BY <1>4, <2>9, <3>1
  <2>10. CASE ~Archiver /\ ~(c \in Names /\ CompleteCommand(c))
    <3>1. CASE DiskOnly
      <4>1. c \in disk' => c \in Archived' \/ (c \in disk' /\ (Cares(c)' => Excused(c)'))
        BY <2>8, <2>10, <3>1 DEF DiskOnly
      <4>2. CASE \E files \in SUBSET Names : disk' = disk \cup files
        BY <2>1, <4>1, <4>2
      <4>3. CASE \E t \in Threads, f \in Files : Calling(t, f) /\ disk' = disk \ {f}
        BY <2>9, <4>1, <4>3
      <4>4. CASE UNCHANGED disk
        BY <2>1, <4>1, <4>4
      <4> QED
        BY <2>10, <3>1, <4>2, <4>3, <4>4, <2>5, <2>6, <2>7, AgentMoves DEF agentVars
    <3>2. CASE ~DiskOnly
      <4>1. UNCHANGED agentVars => DiskOnly
        BY DEF agentVars, DiskOnly
      <4> QED
        BY <2>5, <2>6, <2>7, <2>10, <3>2, <4>1, AgentMoves
    <3> QED
      BY <3>1, <3>2
  <2> QED
    BY <2>2, <2>3, <2>10
<1> QED
  BY <1>2, <1>3, <1>4 DEF FileInv

\* What holds while the process runs and no wait was given up; and how it ends.
RunsInv ==
  /\ PathInv /\ OverInv /\ TakenInv /\ CloseInv /\ EndInv /\ CabInv /\ FileInv

OutputsInv ==
  /\ ListsInv /\ EngineInv /\ OpenInv /\ QueueInv
  /\ exited = "no" => late \/ RunsInv
  /\ OutputsKept /\ OutputsArchived

LEMMA OutputsInit == Init => OutputsInv
<1> SUFFICES ASSUME Init PROVE OutputsInv
  OBVIOUS
<1>1. /\ handlers = <<>> /\ terminating = [t \in Threads |-> "out"]
      /\ taken = [t \in Threads |-> <<>>] /\ inbox = <<>> /\ engine = "created" /\ again = FALSE
      /\ pc = "archive" /\ archiving = "running" /\ compressor = <<>> /\ exited = "no"
      /\ cmd = [c \in Names |-> "unsent"] /\ disk = {Stats} /\ produced = {Stats} /\ cabbing = FALSE
      /\ Main \in Threads /\ Console \in Threads
  BY LauncherAssumption DEF Init, RobustInit, AgentInit
<1>2. \A x : ~In(x, handlers) /\ \A t \in Threads : ~In(x, taken[t])
  BY <1>1 DEF In
<1>3. ListsInv
  BY <1>1, <1>2 DEF ListsInv, Sorted
<1>4. EngineInv /\ QueueInv /\ ~Closing
  BY <1>1 DEF EngineInv, QueueInv, Closing
<1>5. Unopened /\ OpenInv
  BY <1>1, <1>2 DEF Unopened, OpenInv, In
<1>6. PathInv
  BY <1>1 DEF PathInv, FromStart, EngineOver
<1>7. OverInv /\ TakenInv /\ CloseInv /\ EndInv /\ CabInv
  BY <1>1, <1>2, <1>4, <1>5 DEF OverInv, TakenInv, CloseInv, EndInv, CabInv
<1>8. FileInv
  BY <1>1, <1>4 DEF FileInv, Excused
<1>9. OutputsKept /\ OutputsArchived
  BY <1>1 DEF OutputsKept, OutputsArchived
<1> QED
  BY <1>3, <1>4, <1>5, <1>6, <1>7, <1>8, <1>9 DEF OutputsInv, RunsInv

\* The step that ends the process finds the outputs where they should be.
LEMMA OutputsAtExit ==
  ASSUME TypesHold, ThreadsInv, OutputsInv, [Next]_vars, exited' # exited
  PROVE  (OutputsKept /\ OutputsArchived)'
<1>1. /\ exited = "no"
      /\ exited' = "main" => pc = "end"
      /\ exited' = "console" => terminating[Console] = "over"
      /\ UNCHANGED <<terminating, late, cabbing, produced, compressor>>
      /\ disk' = disk \ (Open \cap doomed)
  BY Exits DEF robustVars, history
<1>2. CASE late
  BY <1>1, <1>2 DEF OutputsKept, OutputsArchived
<1>3. CASE RunsInv
  <2>1. \A c \in produced : c \in Archived \/ (c \in disk /\ (Cares(c) => Excused(c)))
    BY <1>3 DEF RunsInv, FileInv
  <2>2. Archived' = Archived
    BY <1>1 DEF Archived, Zip
  <2>3. ASSUME archiving # "running" \/ compressor = <<>> PROVE Open = {}
    <3>1. CASE compressor = <<>>
      BY <3>1 DEF Open
    <3>2. CASE compressor # <<>>
      BY <2>3, <3>2 DEF OutputsInv, OpenInv, QueueInv, Open
    <3> QED
      BY <3>1, <3>2
  <2>4. pc = "end" => archiving # "running" \/ compressor = <<>>
    BY <1>3 DEF RunsInv, EndInv, Leaving
  <2>5. terminating[Console] = "over" /\ cabbing => archiving # "running"
    <3>1. Console \in Threads /\ taken[Console] \in Seq(Handlers)
      BY LauncherAssumption DEF TypesHold, TypeOK, RobustTypeOK
    <3>2. In(WolfHandler, taken[Console]) => taken[Console] # <<>>
      BY <3>1 DEF In
    <3> QED
      BY <1>3, <3>1, <3>2 DEF RunsInv, CabInv, ThreadsInv
  <2>6. OutputsKept'
    <3>1. exited' = "main" \/ (exited' = "console" /\ cabbing) => disk' = disk
      BY <1>1, <2>3, <2>4, <2>5
    <3> QED
      BY <1>1, <2>1, <2>2, <3>1 DEF OutputsKept
  <2>7. ASSUME pc = "end", terminating[Console] = "out", compressor # <<>> PROVE produced \subseteq Archived
    <3>1. archiving # "running"
      BY <2>4, <2>7
    <3>2. \A c : Cares(c)
      BY <2>7 DEF Cares, Begins
    <3>3. \A c : ~Excused(c)
      BY <1>3, <2>7, <3>1 DEF RunsInv, PathInv, OutputsInv, EngineInv, Excused, Closing, Waiting
    <3> QED
      BY <2>1, <3>2, <3>3
  <2>8. OutputsArchived'
    BY <1>1, <2>2, <2>7 DEF OutputsArchived
  <2> QED
    BY <2>6, <2>8
<1> QED
  BY <1>1, <1>2, <1>3 DEF OutputsInv

LEMMA OutputsStep ==
  ASSUME NoRefusal, TypesHold, CallInv, ThreadsInv, OutputsInv, [Next]_vars
  PROVE  OutputsInv'
<1>1. ListsInv' /\ EngineInv' /\ OpenInv' /\ QueueInv'
  BY ListsStep, EngineInvStep, OpenStep, QueueStep DEF OutputsInv, NoRefusal
<1>2. CASE exited' = exited /\ exited = "no"
  <2>1. (OutputsKept /\ OutputsArchived)'
    BY <1>2 DEF OutputsKept, OutputsArchived
  <2>2. late \/ RunsInv
    BY <1>2 DEF OutputsInv
  <2>3. late => late'
    BY PathOfMain
  <2>4. ASSUME RunsInv, ~late' PROVE RunsInv'
    <3>1. PathInv' /\ OverInv' /\ TakenInv'
      BY <2>4, PathStep, OverStep, TakenStep DEF RunsInv, OutputsInv
    <3>2. CloseInv' /\ EndInv' /\ CabInv'
      BY <2>4, CloseStep, EndStep, CabStep DEF RunsInv, OutputsInv
    <3>3. FileInv'
      BY <1>2, <2>4, FileStep DEF RunsInv, OutputsInv
    <3> QED
      BY <3>1, <3>2, <3>3 DEF RunsInv
  <2> QED
    BY <1>1, <2>1, <2>2, <2>3, <2>4 DEF OutputsInv
<1>3. CASE exited # "no"
  <2>1. UNCHANGED vars
    BY <1>3 DEF Next
  <2>2. /\ UNCHANGED <<exited, terminating, late, cabbing, produced, compressor, disk>>
    BY <2>1 DEF vars, agentVars, robustVars, history
  <2>3. (OutputsKept /\ OutputsArchived)'
    BY <2>2 DEF OutputsInv, OutputsKept, OutputsArchived, Archived, Zip
  <2> QED
    BY <1>1, <1>3, <2>2, <2>3 DEF OutputsInv
<1>4. CASE exited' # exited
  <2>1. exited' # "no"
    BY <1>4, Exits
  <2> QED
    BY <1>1, <1>4, <2>1, OutputsAtExit DEF OutputsInv
<1> QED
  BY <1>2, <1>3, <1>4

LEMMA OutputsInvariant ==
  ASSUME NoRefusal
  PROVE  Spec => []OutputsInv
<1>1. TypesHold /\ CallInv /\ ThreadsInv /\ OutputsInv /\ [Next]_vars => OutputsInv'
  BY OutputsStep
<1> QED
  BY <1>1, OutputsInit, TypesInvariant, CallInvariant, ThreadsInvariant, PTL DEF Spec

\* When nothing the archive is given is refused and no wait was given up, a process that ends has its
\* outputs in the archive or on disk, whenever a console event made it end: the handler that deletes
\* an output is called after those that kill the commands and complete the archive.
THEOREM OutputsStay ==
  ASSUME NoRefusal
  PROVE  Spec => []OutputsKept
<1>1. OutputsInv => OutputsKept
  BY DEF OutputsInv
<1> QED
  BY <1>1, OutputsInvariant, PTL

\* Without a console event each output is in the archive, though an exception completes it twice.
THEOREM OutputsReachArchive ==
  ASSUME NoRefusal
  PROVE  Spec => []OutputsArchived
<1>1. OutputsInv => OutputsArchived
  BY DEF OutputsInv
<1> QED
  BY <1>1, OutputsInvariant, PTL
=============================================================================
