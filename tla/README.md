# A TLA+ development of DFIR-ORC's engines

DFIR-ORC is a forensic collection tool for Windows: one executable whose commands
(`WolfLauncher`, `ImportData`, `GetThis`, `NTFSInfo`, ...) parse file systems and
registries, collect files into archives and upload them. What is hard to test in it is of
two kinds. One is built on the Concurrency Runtime (ConcRT): agents that exchange messages,
thread-pool callbacks, timers, termination handlers and home-made semaphores. The other is
sequential, but its outcome depends on an order nobody chooses: the walk of an MFT whose
records refer to each other, and the search that compares its terms with what the walk
gives. This directory models both.

## 1. Inventory

### Command engine (`src/src/OrcLib/CommandAgent.cpp`, `CommandExecute`, `ProcessRedirect`, `Semaphore.h`)

*State*: a priority mailbox of `CommandMessage`s; the queue of prepared commands, the
list of running and the list of completed commands (all under `m_cs`); a counting
semaphore that bounds the running children; per command a status, a registered wait and
redirections (pipes) with a status of their own; the flag `m_bStopping`.
*Operations*: the requests `Execute`, `RefreshRunningList`, `Terminate`, `TerminateAll`,
`CancelAnyPendingAndStop`, `QueryRunningList`, `Done`; `ExecuteNextCommand`, called by the
agent after every request and by the wait callback after every process; the pipe
completions.
*Hard*: agent and callbacks call `ExecuteNextCommand` concurrently and race for the
permits; the exit test of the agent takes no lock; a process ends before its pipe does;
a popped command is in no list; every Windows call may be refused.
*Correct when*: no more children than permits and no permit lost; every command ends up
archived, once, and whole; nothing is left when the agent is done; the agent ends.

### WolfExecution, WolfTask, WolfLauncher (`src/src/OrcCommand/Wolf*.cpp`)

*State*: per archive a command agent, an archive agent, the tasks by keyword and by pid,
a refresh and a killer timer, a termination handler; timeouts. *Operations*: create the
agents, enqueue the commands, complete the execution, complete the archive, upload;
`ApplyNotification` moves a task. *Hard*: notifications overtake each other; a timeout
races the end of an agent; an exception path completes the archive twice. *Correct when*:
a task ends in the state of its process, the archive is completed once and after the last
command.

### PriorityBuffer (`src/src/OrcLib/PriorityBuffer.h`)

A ConcRT propagator that orders its messages: queue, head reservation, links, offers.
*Hard*: whether a message offered to filters that decline is offered again. *Correct when*:
no message is lost or delivered twice, and the least one goes first.

### Import budget (`src/src/OrcLib/ImportBytesSemaphore.h`)

*State*: an atomic byte count and a queue of blocked contexts. *Operations*: `acquire(n)`,
`release(n)`. *Hard*: the count changes before the context is in the queue; amounts differ.
*Correct when*: the bytes granted stay within the capacity and every waiter is served.

### ImportData (`ImportAgent`, `SqlImportAgent`, `ImportMessage`, `ImportData_Run.cpp`)

*State*: the agent's request buffer, a task group, one data flow per table with its SQL
agents, the counter of items in progress, the two byte budgets. *Operations*:
`SendRequest`, `SendResult`, the tasks `EnveloppedItem`, `ExpandItem`, `ExtractItem`, the
SQL agents' loop, a timer that polls the counter. *Hard*: nobody knows how many items there
are; tasks wait for bytes while they hold some; completion travels as messages through
queues with several readers. *Correct when*: `Complete` is sent only when nothing is left,
every item is reported once, all bytes come back, and the import ends.

### Archive creation (`ArchiveAgent`, `ArchiveCreate`, `ZipCreate`)

*State*: the agent's buffer; the compressor with its queue, the items that have an index,
a temporary archive; the vector of pending removals of directories. *Operations*:
`OpenArchive`, `AddFile`, `AddDirectory`, `AddStream`, `FlushQueue`, `Complete`. *Hard*:
a flush that is refused or archives only some items; files deleted by closing them; requests
after a failed open; removals retried at each flush, in a vector of objects whose move
forgets a member. *Correct when*: what the compressor took is in the archive or still in the
queue, nothing is deleted before it is archived, every item is announced once.

### Upload (`UploadAgent`, `BITSAgent`, `CopyFileAgent`)

*State*: the buffer, the jobs of BITS (which move on their own and call back), the flag set
by `Complete`. *Hard*: the end is polled by a timer while jobs fail and are resumed.
*Correct when*: an archive is deleted here only once it is there, and the process does not
leave in the middle of a transfer.

### Robustness (`src/src/OrcLib/Robustness.cpp`)

*State*: the list of termination handlers (locked), a flag and an event (not locked).
*Operations*: add, remove, terminate (console events, unhandled exceptions, the last static
destructor), wait for a termination under way. *Hard*: two threads terminate; handlers
refer to objects that may be gone. *Correct when*: a handler is called by one thread, in the
order of priorities, and never after its object is destroyed.

### MFT walker (`MFTWalker`, `MFTOnline`, `MFTRecord`)

*State*: the map of the records in memory, which keeps a null entry for one that was freed;
the attribute lists; the names of directories. *Operations*: the enumeration of the table,
the fetch out of order of what a record misses, the walk of the map that makes space, the
final walk, the callbacks. *Hard*: records are seen several times and before the records
they belong to; they are freed in the middle; some cannot be read; the caller may stop the
walk. *Correct when*: every file is called back, once, with all that can be read of it; the
walk ends; a stop is heeded.

### FileFind and GetThis (`FileFind.cpp`, `GetThis_Run.cpp`)

*State*: terms in tables by what they require exactly; the match being filled; the samples
and what they are accounted for. *Operations*: add terms and exclusions, compare a record by
its names, its streams, as a whole; exclude a match; make samples within limits, collect
them. *Hard*: the same term must mean the same whatever table it is in; a match is used
again after a failed comparison; several attributes and several matches share limits.
*Correct when*: what is reported satisfies its term, nothing is missed, exclusions exclude
what they describe, limits hold.

### The rest

Streams, the FAT and USN walkers, registry and event readers, the other collection tools,
configuration, output, SQL and Parquet adapters are sequential code over disk structures and
formats, or input and output; `external/` is vendored. They are not modelled (PROJECT.json
names each group).

How they interact: the launcher makes a `WolfExecution` per archive; it sends commands to
its `CommandAgent`, which starts children, notifies the tasks and sends their output to
the `ArchiveAgent`; the finished archive goes to the `UploadAgent`; all of them register
handlers with `Robustness`. `ImportData` reads such archives back through the `ImportAgent`
and its SQL agents. Among the children is `GetThis`, which searches with `FileFind`, which
walks with `MFTWalker`.

## 2. Modules

| module | models | with |
|---|---|---|
| `CommandAgent` | the command engine | `MCCommandAgent`, `CommandAgentProofs` |
| `ImportBytesSemaphore` | the byte budget: `acquire`, `release` in atomic steps | used by the next two |
| `ByteBudget` | abstract: the bytes granted never exceed the capacity | |
| `ImportBytes` | the budget closed by clients that charge and return bytes; refines `ByteBudget` | `MCImportBytes`, `ImportBytesProofs` |
| `ImportAgent` | the import engine, with two instances of the budget | `MCImportAgent`, `ImportAgentProofs` |
| `Robustness` | the termination handlers and the threads that call them | used by the next but one |
| `ZipCreate` | the compressor, as operations on a record | used by the next |
| `ArchiveAgent` | the archive agent, over both | used by the next and `WolfLauncher`; `ArchiveAgentProofs` |
| `Archiving` | the archive agent closed by commands, completion and a console event | `MCArchiving`, `ArchivingProofs` |
| `UploadAgent` | the upload agent and its jobs | used by the next |
| `WolfLauncher` | one execution: archive agent, upload agent and handlers composed | `MCWolfLauncher`, `WolfLauncherProofs` |
| `MFTWalker` | the walk of a volume | `MCMFTWalker`, `MFTWalkerProofs` |
| `FileFind` | the search | used by the next |
| `GetThis` | the search and its samples | `MCGetThis`, `GetThisProofs` |

### CommandAgent

One thread per process callback (named after its command) and the thread `Agent` that
executes `CommandAgent::run`; `pc` says what each does next. A section under `m_cs` is one
action; the pop that finds the queue empty holds `m_cs` while it releases the semaphore
(`pc = "release"`, `LockFree`). The semaphore's decrement and its undoing are separate
actions, since a `Release` between them is what goes wrong. `mail` counts pending messages
of the kinds that carry nothing, `submitted` and `terminate` hold those that do. Messages
are received by rank, least first, as `PriorityBuffer` orders them. The list of running
commands is a set and the null slots that `MoveCompletedCommand` leaves behind
(`vacated`): the exit test sees the size of both together. `wait` says who holds the
permit of a command; `"leaked"` marks the two places where the code drops it (a null
command, a failed registration). An access violation (`Dead`) ends the program.
Abstracted: what commands are, their arguments and resources (preparation succeeds or gives
null), the job object's setup (succeeds or fails), output contents (a pipe is its least
redirection status), notifications.

### ImportBytesSemaphore, ByteBudget, ImportBytes

The push to the wait queue and `Block` are one step because ConcRT remembers an `Unblock`
that precedes its `Block`. `ImportBytes` refines `ByteBudget` (`WithinBudget`): a context
has its bytes granted from the moment `acquire` returns until its `release`. In the abstract
specification the bytes granted are a set of pairs, a context and a number, so that their sum is a
cardinality. With unequal amounts the semaphore does not implement it: what it then keeps is
`OnlyWakesExceed`.

### ImportAgent

An item is its own task; `Children` says what it contains and `Flow` where `SendRequest`
sends it. Each statement of `SendRequest` and `SendResult` that touches shared state is an
action: charge one budget, then the other, count, post; return one, the other, discount,
notify. A task may fail after any number of requests (`ItemOver`). Reading the counter and
sending `Complete` are two steps of the timer's call, and stopping the timer waits for a
call under way. Abstracted: formats and requests (an item is `Handled` or not), contents,
tables; an SQL agent without connection reports every item as failed, as the agent of the
dummy flow does, and a connected one reports nothing of an item whose format or request its
switch does not know (`Dropped`). Which of an item and a `Complete` a queue gives first is left open.

### Robustness, ZipCreate, ArchiveAgent, Archiving

`Terminate` is taken statement by statement (`terminating`): the test of the flag, the reset
of the event, the swap of the list (locked), one handler after the other, the event, the
flag. What a handler does is an action of the module that registers it; it ends with
`HandlerReturns`. In `ZipCreate` an operation is the set of its results, each a record and
an HRESULT. 7-Zip is modelled from how it is used: `UpdateItems` archives all or some of the
items, or fails after it has written some of them, with an error or with `S_FALSE`, which
`Complete` takes for a success. A compressor that could not be initialised is kept by the agent,
null or not `ready`. A stream is closed when its item is written, which deletes a file that was
opened to be deleted on close; `doomed` holds those files. `ArchiveAgent` has an action for
each request and a `Crash` for those that use a compressor that is not there;
`CompleteOnFlush` is part of each flush. The vector of pending removals is modelled with its
capacity, because its growth moves the elements and the move leaves out `m_object`.
Abstracted: contents, names in the archive, XOR, hashes, levels; streams are items.

### UploadAgent

A BITS job is a service's: `JobTransfers` and `JobFails` are its own steps, `JobTransferred`
and `JobError` the callbacks. The states in progress are two: "queued", which BITS works on, and
"suspended", in which a job stays that could not be resumed. The look at the jobs may fail to get
the state of any of them (`blind`). Abstracted: servers, names, credentials, notifications (which
are logged), the settings of a job (a job whose callback could not be set is not modelled).

### WolfLauncher

`pc` is the main thread, from `CreateArchiveAgent` to its return; each wait for an agent ends
because the agent is done or, where the wait has a limit, by a time-out. The command agent
is kept as what the others see of it (a command is sent, queued, running, exited, over; its
messages are taken by rank): what it does inside is `CommandAgent`, and there is no formal
link between the two. The archive agent and the upload agent are the modules themselves, by
EXTENDS. A process leaves by the end of the main thread or by the console event
(`ExitProcess`), and files open to be deleted on close are then deleted. Calling a handler
of a destroyed object ends the model as "undefined". Messages of `CompleteArchive` are sent
in one step. Left out: the two timers that `CreateCommandAgent` starts. That the end of a command is noticed
is a step of its own here, and only a time-out kills; both timers are in `CommandAgent`.

### MFTWalker

The volume is drawn in `Init`: which segments have a signature, are in use, pass the fixup;
which belong to which; what they hold; the attribute lists; the parent directories. Each
segment given to `AddRecord`, each question of completeness, each fetched segment and each
record of a walk is a step. `AddRecordCallback` decides with `Complete` and `Missing`
(`IsRecordComplete`); a fetch may need space, and the walk that makes it may free the record
the fetch is for (`UseFreed`, where the model stops). A read of the table may fail at any time:
in the enumeration it ends it (`EnumFails`; `unread` remembers what was left), in a fetch it loses
what was asked for and not read yet (`FetchFails`, `lost`). Abstracted: an attribute type stands
once in a file (no hard links, no several streams, no attribute continued over several
segments), sequence numbers, the contents of attributes, locations.

### FileFind, GetThis

What a criterion accepts is a set of values: the model compares sets, and the differences
between a name, a pattern and a regular expression are which criterion is required, in which
table the term is and which code compares it. `Looked` is `LookupTermInRecordAddMatching`
with its groups in order, `ExcludeMatch` the exclusion. `GetThis` is the callback, one
attribute at a time, then the collection. The criteria that do not do in the code what they
are named are modelled as they are (`AdsPasses`, `AttributePasses`: an exact EA matches only with
another criterion on names of attributes beside it; `Excludes`: the criteria on EA of a term of
exclusion are ignored). What can go wrong in a collection is one thing: some samples are not
collected, whichever.

## 3. Runs

| run | instance | shows |
|---|---|---|
| `CommandAgent` | 2 commands, one redirected, 1 permit, every refusal; termination handler, cancel, a task's limit | permits accounted for on every error path; the bound on children; archived once, whole; none forgotten; what a done agent leaves behind |
| `CommandAgentLive` | 2 commands, 1 permit, every refusal, fair | the agent ends; a queued command leaves the queue; both but for what two failures lose |
| `ImportBytesUnit` | 5 contexts, 2 bytes, amounts of 1, fair | the queue is exact; implements the abstract budget; everybody is served |
| `ImportBytesMixed` | 4 contexts, amounts 1, 2, 3, 1 of 4 | only the release that wakes a waiter goes beyond the budget |
| `ImportBytesOver` | *violation*, 4 contexts, amounts 1, 2, 3, 1 of 4 | one byte given back lets a waiter of three through |
| `ImportAgentTree` | archive in archive, two flows, an item nobody handles, budgets of 2 and 1, fair | `Complete` only when idle; everything reported; the import ends, but for the unhandled item and for archives that wait for each other |
| `Archiving` | two batches (a file; two directories, one with a file, and a stream), every refusal, a console event, fair | nothing lost or deleted early but by an update that fails; nothing announced twice; the agent ends |
| `WolfLauncher` | one command and the statistics, time-outs of the command and the archive agent, an exception, a console event, copy and BITS with jobs that are refused, suspended, resumed or unreadable, fair | what becomes of outputs, archive, uploads and handlers; the process ends |
| `MFTWalker` | every volume of four segments in three layouts, at most one segment unreadable, reads that fail, space for one record, every answer of the callbacks, fair | called once, all, whole; stops heeded; the walk ends |
| `MFTWalkerStop` | *violation*, the same | a stop asked of a walk that makes space is lost |
| `GetThis` | up to two of thirteen terms and one exclusion, volumes of one or two records, limits of every kind | found what fits and only that; excluded what fits; limits; samples |
| `GetThisLimits` | *violation*, the same | a match of two attributes passes the limits |

**What a done command agent may leave.** The strong statement "no child runs when the agent
is done" is false: a callback that popped a command before the drain or the exit test
launches it afterwards. `DoneLeavesOnlyCallbackLaunches` says that nothing else can.

**What the other properties leave out.** Each exemption is a conjunct one can read, and each
is a behaviour the code has. `OutputsKept`, `OutputsArchived` and `NoDanglingHandler` say
nothing after a wait that timed out; the last also after a command agent that could not be
started or an exception, since `TerminateAllAndComplete` removes the handler of the
execution and not that of the command agent, which the static guard then calls on a
destroyed object. `UploadsOver` exempts a job in the foreground (its error was taken
for its end, and it is resumed then) and one whose state the last look could not have: both count as
complete in the code (`BITSAgent.cpp:313`, `302`). `ProcessEnded` exempts the wait for a job that was
never resumed, which has no limit (`BITSAgent.cpp:283`). `AgentEnds` and `QueueServed` of the command
agent do not hold once a preparation or a registration has failed and every permit has gone this way
(`CommandAgent.cpp:594`, `615`), and `AgentEnds` not once a registration has failed, whose process
nobody takes out of the running list. `AgentEnds` of the import exempts an item nobody reports
(`SqlImportAgent.cpp:1002`) and tasks that wait for each other's bytes (`ImportAgent.h:112`); the run
reaches both, and therefore does not check for deadlock. `NothingLost` and `DeletedOnlyIfArchived`
exempt what was in an update that failed as a whole. Each of these exemptions is needed: without it
TLC finds the property violated in the same run. `CalledWhole` speaks of volumes all of whose segments have a signature:
after one without, `FetchMFTRecord` loses the next one. What a failed read lost is not
legible in it, and `EveryoneCalled` speaks of the segments the enumeration came to. `EveryoneCalled` and `WalkOver` accept
the state "freed". `FoundAll` needs every name of the record to be in location and the path
to have four characters, a named stream in the record when the term has a criterion on the
names of streams, and `Literal` terms: the exact name of a stream is compared with
its prefixes, its regular expression is that of the file name, an exact EA alone never matches, of two
sizes with one meaning (equal and at least) one is answered and so none matches, a generic name of a stream
or an EA beside a generic name is never told apart. The last three came out of the proofs, which
do not stop at the terms of the run.
`ExcludedExactly` exempts exclusions by YARA, which never exclude, the criteria on EA of an exclusion,
which are ignored, and exclusions by size when nothing is searched by size. `WithinLimits` is about matches of one attribute.

**Bounds.** `CommandAgent`: `MaxMail = 1`: a second equal message waits for the first to be
received; all requests but `Terminate` are idempotent and carry nothing, and `Terminate`
messages are a set. Two commands and one permit are enough for every race in
`ExecuteNextCommand`: one callback that releases, one thread that acquires, an agent that
checks; a third thread only repeats a role; the theorems cover any number.
`MaxCompletes = 2` lets the timer of the import send a second `Complete` while the first is
served, which is the race with `check_timer.stop()`. Five contexts on two bytes give queues
of three. The import tree has an archive in an archive, each of one byte, and two bytes: a
parent waits for bytes while its child holds some, and both may wait for ever.
`Archiving` has two flushes before the last one, so that a temporary archive is made, taken
over and refused, and a vector of removals that grows. `WolfLauncher` has one command: the
command agent treats them alike, and its handlers, the statistics and the archive give the
interleavings; with "engine" and "archived" in `TimeOuts` each kind of wait of the main
thread that goes on otherwise is given up, and `Faults = {}` leaves the compressor's refusals
to `Archiving`. Four segments and one cell give a child before its base, a base freed while
its child is fetched, a path of three directories and a file of three segments. `MaxTerms =
2` lets a term find what another has left behind in the match.

**Fairness.** Threads of the pool and agents are scheduled (weak fairness per thread); `m_cs`
is a ConcRT critical section, which is FIFO, so what waits for it is strongly fair; children
end. Timers fire repeatedly. `AgentEnds` of `CommandAgent` assumes `TimerSlow`: requests are
served by rank and `Done` ranks last, so a refresh timer faster than the agent's loop
starves it; nothing in the code excludes that, the period (a second by default) does. With a
fast timer the property does not hold. Pipes,
refusals and one-shot senders are not fair. In `ImportAgent` every task that can go on does;
a blocked task gives its processor back (cooperative blocking). In `WolfLauncher` the upload
agent's timer is part of the agent, BITS transfers or fails, a termination that has begun
goes on, and no console event need come. `MFTWalker` is one thread.

`GetThis` does not check for deadlock: the run ends with the collection. Neither do `ImportBytesMixed`
and `ImportAgentTree`: contexts may really wait for ever there. The violation runs stop at their
counterexample.

## 4. Proofs

Thirty-two properties of the runs are theorems, for every value of the constants that the
named assumptions of the modules allow: sets, functions and numbers of the right kind, and
the facts about the code listed at the end of this section. There is no bound in them.

### Command engine

`CommandAgentProofs` (any finite set of commands, any number of permits, any faults):

* `TypeCorrect`: `TypeOK`, with `Popped` (a thread at a step that uses its popped command has
  one) as the strengthening.
* `ArchivedAtMostOnce`: a command is archived only on the way from `Complete` to `Closed`,
  and statuses only grow (`ArchivedWhenClosed`), so a refresh that finds it in both lists, or
  a second refresh, does not archive it again.
* `JobsBounded` and `PermitsNeverLost`: the inductive invariant `PermitInv`. Let `Free` be
  the count plus the threads that are undoing a decrement. `Free` is never negative;
  `Free`, the threads that own a permit and the commands that hold one sum to `MaxRunning`;
  every live child is covered by a thread or a command that holds a permit. The last needs
  that a command not yet launched is in one place only (`OnePlace`): otherwise two threads
  could cover the same child. The count alone is not enough: it dips below zero in the middle
  of `TryAcquire`. A `Crashed` program is exempt from the sum, not from the bound.
* `ArchivesWhole`: a command is archived when a refresh finds it `Complete` with its
  redirections done. `WholeInv` adds to the types and `OnePlace` that a command is `Complete`,
  or its callback past the release, only when its process has exited and its permit is given
  back (`EndedIsOver`), and that the remembered redirection status is not ahead of the pipe
  (`NotAhead`). Without `OnePlace` a second thread could launch it again.
* `NothingForgotten`: `NoCommandForgotten` as an inclusion of the commands in `Somewhere`; each
  step is shown to move a command from one place to the next.
* `OnlyCallbackLaunchesLeft`: `DoneInv` adds to `WholeInv` that a live command was launched by
  a callback or is in sight of the agent (in the running list or in its hands), and that the
  agent has then not passed its exit test.

### Budgets and the import

`ImportBytesProofs`:

* `QueueExact` (any contexts and amounts): the queue holds the blocked contexts, each once.
  `QueueInv` is inductive with the types: who enlists was not blocked, hence not in the queue;
  who is unblocked is the head, hence nowhere else in it.
* `CountExact` (any contexts and amounts): the count is the capacity less the bytes of the contexts
  between their charge and their return, `BytesInv` (the count and the types, step by step; a release
  under way has given its bytes back already). No run checks it for itself.
* `OnlyReleaseExceeds`: an `acquire` that does not wait left the count at zero or more, and whoever
  holds or waits is among those the count misses; so what is held fits.
* The lemma `UnitBudget`, for amounts of one (`UnitCharges`): the semaphore implements
  `ByteBudget`, whose step grants at most what is free. The count does not bound the holders by
  itself: a release adds its byte before it unblocks anybody, and an `acquire` that comes in
  between takes it. `WaitersOwed` is what makes up for it: the waiters are as many as the count
  is below zero plus the releases under way, each of which will let one through. With unequal
  amounts the statement is false, which is the run `ImportBytesOver`.

`ImportAgentProofs` (any tree of items, flows, agents and budgets; any task may fail):

* `QueueEmptyIdle` and `DoneReported`: `IInv` has three parts. `Placed` says that an item is in
  one place: not requested yet, in one queue, or in the hands of one worker. `Counted` says that
  the counter is the number of items between their count and their discount, and that each
  budget lacks the bytes of the items between their charge and their return; each of these sets
  is given by the steps of the sender that are past the one point and those of the worker that
  are past the other (`Open`). `Ordered` says that once the timer has found nothing in progress,
  nothing is for ever, and that the agent has seen its tasks end and then the SQL agents. The
  argument that closes the circle is `ZeroIdle`: an item is counted before it is posted, and its
  parent is discounted only after its last request, so a counter of zero leaves no item anywhere
  that could count another.

### Archives, uploads, the launcher

`ArchiveAgentProofs` holds the lemmas about what both compositions extend: the lists of
handlers, the records of `ZipCreate`, and the effect of a step of the agent as one of a few
cases (`AgentEffect`), whichever request it serves.

`ArchivingProofs` (any commands, items, directories and refusals):

* `OneAnswer`: `AgentInv` says that no two requests to come add the same item, that an item to
  come has no answer and is not in the compressor, and that one that is there has its answer
  exactly when it has its index.
* `ArchivesGrow` (proved, not among the properties of the run): the content of the temporary archives never shrinks, failed flushes included.
* `TakenIsArchived` and `DeletedIsArchived`, whatever is refused: each temporary archive holds all
  that was archived before; what was taken is there, queued or torn (in an update that failed as a
  whole); a file is gone only when it is there or torn (`KeptInv`).

`WolfLauncherProofs` (any commands and outputs, any faults, whichever waits are given up). The
first lemmas say, for each part of the state, what a step of the whole system may do to it
(`AgentMoves`, `RobustMoves`, `UploadMoves`, `EngineMoves`); every invariant then has one case
for each of these and not one for each of the forty actions.

* `TypesCorrect`, with the types of the three components.
* `CalledOnce`: a handler that is registered is in nobody's list of handlers to call, and is in
  one thread's list at most (`CallInv`); each is registered by a step taken once.
* `NothingDangles`: before the static guard only the console thread terminates, and the event
  tells whether it is at it (`ThreadsInv`); on the way to its end the execution removes its
  handlers and waits for the call under way (`Clean`), or a late or refused exit is recorded,
  which the property exempts.
* `NoTransferLeft`: what is in a job is transferred or in error before the upload agent is done, or its
  state was not to be had at the look that found the agent ready; a job in the foreground aside.
* `WholeUploads`, if `"open" \notin Faults`: the archive is opened before anything else is asked
  of its agent and written only when it is completed (`OpenInv`); who uploads has seen the agent
  done. Without a compressor the agent has nothing to be done with.
* `OutputsStay` and `OutputsReachArchive`, if nothing the compressor is given is refused
  (`NoRefusal`; a refused move or removal may be among the faults). This is the theorem about the
  order of termination handlers: an output has a handler that deletes it, and a console event may
  come between any two steps. `OutputsInv` says where a command's output is at each moment
  (`FileInv`: on disk with its handler registered or being waited for, asked of the archive
  ahead of the `Complete`, in the queue of the compressor, in the archive), why a thread that
  is about to delete one finds the commands killed and the archive completed (`TakenInv`: the
  handlers in its hands are sorted by priority and none of a higher one is left behind;
  `CloseInv`), and what the main thread has seen end when it comes to each of its steps
  (`PathInv`, `EndInv`). `RunsInv` holds while the process runs and no wait was given up; the
  exit is where the two properties are read off. With any of the excluded faults TLC
  finds them violated.

### Walk

`MFTWalkerProofs` (any table, any volume, any answers of the callbacks):

* `WalkCallsOnce`: `CalledOnce` is not inductive: a record that was called back is told by the flag
  of its cell until the cell is freed, and by the null entry of the map afterwards
  (`Remembered`); `CurrentHere` and `AddingOK` say which record is in the map at which step.
* `WalkHeedsStop`: after a stop asked of the enumeration the walk is over, and after one asked of
  the final walk nothing is left to visit.
* `WalkTyped`: `TypeOK`. The name of a directory is read from a record that several parses have
  written to, so the records are typed, whatever order the waiting segments are parsed in
  (`ParseWaitingIn`: what each parse keeps, the fold keeps).
* `WalkCallsEveryone`, if attribute lists name segments of their own file (`ListsOwn`): a base
  record the enumeration has passed is called back, or it stays in the map with nothing that it
  lists absent from it (`Accounted`), and the last walk calls such a record. A base record never
  gets a base, and keeps its list and its verdict once it is parsed (`Keeping`). The hypothesis is
  needed since a record is freed with those it lists. The volumes of the runs satisfy it
  (`SoundAssumption` of `MCMFTWalker`). Any read may fail: a fetch that fails loses nothing the
  enumeration does not come to, and an enumeration that fails leaves what it has passed accounted for.
* `WalkCallsWhole`, if attribute lists are complete and directories form a forest (`VolumesSound`):
  `CalledWhole`. Whatever the order of the segments of a file and of the directories above it,
  whatever was called back and freed to make space in between, and whichever reads fail, a file is
  called back with all that was read of it and with its path as far as what was read has one. The invariant (`WholeInv`, which
  TLC has checked on the instance of `MFTWalker`) says what the map knows of a file at each step:
  what its base record found is what is in the map of it (`Records`); nothing of a file outlives
  its base record but what was never tied to it, and nothing waits for a base record but what is being
  completed or what a failed read left without one (`Present`); a directory whose name can be known has it,
  but for the moment in which the segment of the callback is not yet tied to it (`Names`); what is
  being fetched belongs to the file of the callback or to a directory above it, and no other
  directory is without a name for want of a segment (`Fetching`). So when nothing new is missing,
  either the record is complete or what it lacks cannot be read or was lost (`CheckDone`). A walk that makes
  space asks for the whole path, so that the record it frees leaves no directory waiting; the last
  walk does not, but by then nothing is absent (`WalkReady`). The recursions over directories are
  met by sets: `Lacking` is empty when every directory of `Above` has a name (`LackingAbove`, from
  the absence of cycles), and the fold over the segments that wait is followed by induction on the
  subsets of those parsed so far (`WaitingJoin`): as many may wait as failed reads of their base
  record have left. A step of a failed read only takes away what is promised (`LosingSteps`).

### Search and samples

`GetThisProofs` (any catalog of terms, any volume, any limits, any number of terms searched for):

* `SearchTypes`: `TypeOK`, with the matches that were made pointing into their records
  (`Reported`).
* `SearchFindsWhatIsAsked`: `FoundSatisfies`. `FindInv` says that a term keeps the table its
  criteria give it (`TablesInv`), that the hashes the terms need are all known before the first
  match, and that every comparison starts from an empty match: `retval` is one variable that
  each term inherits from the term before it. One comparison is then a function of the term and
  the record (`LookedBlank`), and what it reports meets each criterion in its turn
  (`LookSatisfies`).
* `SearchFindsAll`: `FoundAll`. A term that fits a record fits it when it is compared
  (`FitsLooks`), and one of the tables leads to it (`FitsHits`): it is in the list of the record,
  or a name or a stream that is still to be looked up will put it there (`Ahead`). `SearchInv` follows
  it to the match, which is reported or dropped.
* `SearchExcludesWhatIsAsked`: `ExcludedExactly`, from what one comparison with the terms of exclusion
  answers, in both directions (`FitsExcludes`, `ExcludesMeets`).
* `MatchesAreSampled`: each attribute of a match has a sample before the search goes on or is
  over; the record number and the instance are the key, so a second term does not lose the sample of
  the first (`SampleInv`).
* `SamplesWithinLimits`: `WithinLimits`. The two accounts of a sample, its specification's and the global one,
  are exactly the number and the sum of the kept samples, and these are within each limit
  (`Tallied`). It is inductive while a match has one attribute: the first turn of the callback
  makes a sample of every attribute of the match with what it found of the limits for the first
  (`GetThisLimits`).

### Assumptions

What the theorems assume of the constants, and where the code says so:

* `TreeAssumption` (`ImportAgent`): an item is found once, by one task. Each request of an
  expansion is a new `ImportMessage`.
* `OutputsAssumption` (`Archiving`), and `Commands \in Seq(Files \ {Stats})` (`WolfLauncher`): each
  command has outputs of its own: `UtilGetUniquePath`, `CommandAgent.cpp:350` and `404`.
* `PriorityAssumption` (`WolfLauncher`): commands before archives before temporary files,
  `Robustness.h:69-76`.
* `SegmentAssumption` (`MFTWalker`): the segments are a range, as the loop over the table takes
  them.
* `CatalogAssumption` (`GetThis`): only a generic criterion is split into the exact, wildcard and
  regular ones (`FileFind.cpp:1452-1498`). `VolumesAssumption`: the default name of a record is one of
  its names. `LimitsAssumption`: a term belongs to a specification, and the whole collection is none.
* `ContextsAssumption`, `ItemsAssumption`, `CommandsAssumption`, `ZipAssumption`: finite sets.
* The hypotheses of single theorems: `"open" \notin Faults`, `NoRefusal`, `ListsOwn`, `VolumesSound`. Each is satisfied by a run that
  checks the property, and each is needed: TLC finds the property violated without it (with that
  fault, with a list that names another file's base record, with one that
  leaves out a segment of the file). Of `VolumesSound` the absence of cycles of directories is what
  makes the recursion of `Lacking` one: `IsRecordComplete` loops over the same names
  (`MFTWalker.cpp:720-750`). That a directory is referred to by its base record, and that the segments
  of a file have one parent, is how the table refers to files.

TLC evaluates the named assumptions on every run.

### Induction

The library's induction theorems take an operator as a parameter and cannot be used. Two
facts stand in for them. A set of numbers that has 0 and is closed under successors below n has
n: otherwise there would be an injection of 0..n into 1..n (`SetInduction` of
`ArchiveAgentProofs` and `GetThisProofs`, from the pigeonhole principle). A family of subsets of a
finite set has a least member (`LeastSubset` of `MFTWalkerProofs` and `GetThisProofs`, from the well-foundedness of
strict inclusion). With the first the recursive functions on lists (`Only`) are shown to exist and to
give what they should, and a finite set of numbers has one list in its order (`RisingExists`, with which
a match lists its attributes); with the second the fold over the waiting segments, and the sum of the
sizes of a set of samples (`Total`): it exists, is the same in whatever order it is taken, and changes by
one size when a sample comes or goes (`TotalExists`, `TotalUnique`, `TotalRemove`).

### Only model-checked

* Everything under fairness: `AgentEnds`, `QueueServed`, `EverybodyServed`, `CompleteEnds`,
  `ProcessEnded`, `WalkOver`. Liveness is out of this prover's reach.
* `WithinBudget`, which holds for amounts of one only (the lemma `UnitBudget` proves it for these).
* The three violations.

## 5. Findings

Three, each with a run; PROJECT.json quotes the comment or output line each contradicts:
the budget that is exceeded when amounts differ (`ImportBytesOver`), the stop that
`AddRecord` ignores (`MFTWalkerStop`), the limits that a match of several attributes passes
(`GetThisLimits`).

Seen while modelling, in the models but without a run of their own:

* `Semaphore::Release` unblocks a null context when a failing `TryAcquire` has pushed the count
  below zero for a moment (`Semaphore.h:103`; `Crashed`).
* `ImportBytesSemaphore::release` with unequal amounts spins although nobody waits, or wakes
  nobody although there is room (`ImportBytesSemaphore.h:44`).
* Two SQL agents for one flow: the one that drains it takes the other's `Complete`
  (`SqlImportAgent.cpp:1044`).
* `ZipCreate`: when `UpdateItems` fails as a whole, an item it had written is closed, and so
  deleted, while the new archive is dropped (`torn`). When it fails with `S_FALSE`, `Complete`
  does not see it (`ZipCreate.cpp:311`) and closes the archive as if it were whole.
* A command whose preparation or registration failed keeps its permit for ever, and the latter its
  place in the running list: with as many of them as permits nothing is launched any more, and the
  agent does not end (`CommandAgent.cpp:594`, `615`).
* An item of a format or request that a connected SQL agent does not know is never reported, and
  archives in archives that use up a budget wait for each other: the import does not end
  (`SqlImportAgent.cpp:1002`, `ImportAgent.h:112`).
* A job of BITS that cannot be resumed keeps the process waiting for ever, and one whose state cannot
  be had lets it leave in the middle of its transfer (`BITSAgent.cpp:283`, `302`).
* A read of the table that fails ends the enumeration, or loses what a fetch had still to read
  (`MFTOnline.cpp:340`, `439`); the walk goes on without it.
* `MFTWalker.cpp:1779`: the record a fetch is for may be freed by the walk that makes space.

## 6. Not modelled, and what could follow

* `WolfTask` and the notifications: a short process's end may be notified before its start.
* `PriorityBuffer`: offers, reservations, links and declining filters, to be shown to implement
  the priority queue that `CommandAgent` and `ImportAgent` assume.
* That `CommandAgent` implements the command agent of `WolfLauncher`.
* `CabCreate`, the second compressor; several executions in one `WolfLauncher`.
* Refusals inside a step: a record of the MFT whose parse fails midway, after some of its attributes
  were given to its base record (`MFTWalker.cpp:1621`), an attribute list that cannot be updated, a
  read of the table that returns no bytes (the loop of `MFTOnline.cpp` does not advance); the
  error paths of the collection of `GetThis` one by one; the settings of a job of BITS.
* The callbacks of single attributes of the walker, the index entries ($I30) of the search, the
  FAT and USN walkers.
* Parsers, streams, configuration, outputs, the databases: arithmetic over formats, where
  tests on samples say more than a model. The generated character tables
  (`Unicode_Xml*.cpp`) alone are a quarter of the implementation's lines.
