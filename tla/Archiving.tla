------------------------------ MODULE Archiving -----------------------------
(***************************************************************************)
(* The archive agent at work: the commands that end have their outputs     *)
(* archived, WolfExecution completes the archive once, perhaps before they *)
(* have all ended, and a console event may terminate the process meanwhile.*)
(***************************************************************************)
EXTENDS ArchiveAgent

CONSTANTS
  Batches,       \* what each command has archived: a sequence of messages
  Console        \* the thread of the console event

ASSUME ArchivingAssumption ==
  /\ IsFiniteSet(Batches) /\ Batches \subseteq Seq(Messages)
  /\ Threads = {Console}

\* Each command has its own outputs, and leaves each of them once.
ASSUME OutputsAssumption ==
  \A b, c \in Batches : \A n \in DOMAIN b : \A m \in DOMAIN c :
    b # c \/ n # m => Adds(b[n]) \cap Adds(c[m]) = {}

VARIABLES
  batches,       \* the batches that are still to be sent
  completed,     \* Complete has been sent
  accepted       \* history: the items the compressor took

clientVars == <<batches, completed>>
vars == <<agentVars, robustVars, clientVars, accepted>>

\* The agent has started and the request to open the archive is sent.
Init ==
  /\ AgentInit(<<OpenArchive>>) /\ RobustInit
  /\ disk = Files \cup Dirs
  /\ batches = Batches /\ completed = FALSE
  /\ accepted = {}

\* A command is over: CompleteExecution sends what it leaves.
SendBatch(b) ==
  /\ b \in batches /\ batches' = batches \ {b}
  /\ Post(b)
  /\ UNCHANGED <<archiving, compressor, pending, room, disk, doomed, answers>>
  /\ UNCHANGED <<robustVars, completed, accepted>>

\* CompleteArchive.
SendComplete ==
  /\ ~completed /\ completed' = TRUE
  /\ Post(<<Complete>>)
  /\ UNCHANGED <<archiving, compressor, pending, room, disk, doomed, answers>>
  /\ UNCHANGED <<robustVars, batches, accepted>>

\* The history follows the queue.
Remember ==
  accepted' = accepted \cup UNION {compressor'[n].queue : n \in DOMAIN compressor'}

Agent ==
  /\ AgentStep /\ Remember
  /\ UNCHANGED <<terminateCalled, signaled, terminating, taken, clientVars>>

\* OnCompleteTerminationHandler: RemoveDirectory.
RemoveDirectoryHandler(d) ==
  /\ Calling(Console, d) /\ HandlerReturns(Console)
  /\ disk' = IF Removable(d, disk) THEN disk \ {d} ELSE disk
  /\ UNCHANGED <<inbox, archiving, compressor, pending, room, doomed, answers, clientVars,
                 accepted>>

Terminate ==
  /\ TerminateStep(Console)
  /\ UNCHANGED <<agentVars, clientVars, accepted>>

\* The agent is done, or waits for a request that does not come.
Finished ==
  /\ batches = {} /\ completed
  /\ archiving # "running"
  /\ terminating[Console] \in {"out", "over"}
  /\ UNCHANGED vars

Next ==
  \/ \E b \in Batches : SendBatch(b)
  \/ SendComplete
  \/ Agent
  \/ \E d \in Dirs : RemoveDirectoryHandler(d)
  \/ Terminate
  \/ Finished

Spec == Init /\ [][Next]_vars

\* The agent's thread runs, and WolfExecution completes the archive.
FairSpec == Spec /\ WF_vars(Agent) /\ WF_vars(SendComplete)

-----------------------------------------------------------------------------
\* Whatever the compressor took is in the archive it completes, or is one of
\* the items it warns about, or was in an UpdateItems that failed as a whole:
\* a flush that is refused, an item that cannot be read and the choice between
\* the temporary archive and a last run of UpdateItems lose none, and neither
\* does a failure among the items written before it (ZipCreate::Complete).
NothingLost ==
  compressor # <<>> /\ Zip.closed => accepted \ Zip.output \subseteq Zip.queue \cup Zip.torn

\* A file the agent was asked to delete is gone only when an archive holds it,
\* or when UpdateItems failed as it was to be written: files are deleted by
\* closing them (FILE_FLAG_DELETE_ON_CLOSE), not by the steps that archive them.
DeletedOnlyIfArchived ==
  Files \ disk \subseteq IF compressor = <<>> THEN {} ELSE Content(Zip) \cup Zip.torn

\* Every item has one answer, a refusal or the announcement that it is in the
\* archive, however often it goes through the queue, and an archived one has
\* its answer when the archive is complete.
AnsweredOnce ==
  /\ \A i \in Items : answers[i] <= 1
  /\ compressor # <<>> => \A i \in Content(Zip) : answers[i] = 1

\* A later flush never loses what an earlier one has archived.
ContentKept ==
  [][compressor # <<>> /\ compressor' # <<>>
       => Content(compressor[1]) \subseteq Content(compressor'[1])]_vars

\* The agent ends once it has been asked to complete, whatever fails.
CompleteEnds == completed ~> archiving # "running"
=============================================================================
