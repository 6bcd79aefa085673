----------------------------- MODULE ImportAgent ----------------------------
(***************************************************************************)
(* ImportData's engine: OrcLib/ImportAgent.cpp, OrcLib/SqlImportAgent.cpp  *)
(* and the two byte semaphores they share.  The import agent receives      *)
(* requests and starts one task per item; a task expands its item, sends a *)
(* request for each item it finds, and reports.  Items to import go to the *)
(* SQL agents instead, which report in the same way.                       *)
(*                                                                         *)
(* Nobody knows how many items there are.  A timer polls the number of     *)
(* items in progress and sends Complete when it finds none.                *)
(***************************************************************************)
EXTENDS Integers, Sequences, FiniteSets

CONSTANTS
  Items,         \* the input files and what they contain; also the tasks
  Roots,         \* the input files, which Main sends before it starts the agent
  Children,      \* what each item contains, in the order of the archive
  Flows,         \* one data flow per table, and the dummy one
  Flow,          \* the flow an item is imported by, or Agent
  SqlAgents,     \* the SQL agents
  FlowOf,        \* the flow each of them receives from
  Unconnected,   \* the SQL agents without a connection: the one of the dummy flow
  Agent,         \* the import agent itself
  Handled,       \* items whose format and request the switches know
  FileBytes,     \* ullFileBytesCharged of each item
  MemBytes,      \* ullMemBytesCharged of each item
  FileCapacity, MemCapacity,
  MaxCompletes   \* bound: Complete messages the timer may send

ASSUME ItemsAssumption ==
  /\ IsFiniteSet(Items) /\ Roots \subseteq Items /\ Children \in [Items -> Seq(Items)]
  /\ Handled \subseteq Items
  /\ FileBytes \in [Items -> Nat] /\ MemBytes \in [Items -> Nat]
  /\ \A i \in Roots : FileBytes[i] = 0 /\ MemBytes[i] = 0 /\ Flow[i] = Agent
\* An item is what one SendRequest sends: it is found once, by one task.
ASSUME TreeAssumption ==
  \A i \in Items : \A m \in DOMAIN Children[i] :
    /\ Children[i][m] \notin Roots
    /\ \A j \in Items : \A n \in DOMAIN Children[j] :
         Children[i][m] = Children[j][n] => i = j /\ m = n
ASSUME AgentsAssumption ==
  /\ Agent \notin Flows /\ Flow \in [Items -> Flows \cup {Agent}]
  /\ SqlAgents \cap Items = {} /\ FlowOf \in [SqlAgents -> Flows]
  /\ Unconnected \subseteq SqlAgents
  /\ MaxCompletes \in Nat \ {0}

ASSUME BudgetAssumption == FileCapacity \in Nat /\ MemCapacity \in Nat

VARIABLES
  source,        \* the items of m_importRequestBuffer
  completes,     \* the Complete messages of m_importRequestBuffer
  flowItems,     \* the items of each flow
  flowCompletes, \* the Complete messages of each flow
  step,          \* what each task and each SQL agent does next
  item,          \* the item each SQL agent imports
  sent,          \* how many requests each task has sent
  stopping,      \* the SQL agents that received Complete (bStopping)
  inProgress,    \* m_lInProgressItems
  timer,         \* check_timer: "armed", "firing" or "stopped"
  agent,         \* what the import agent does next
  notified,      \* how many notifications each item got
  fileCount, fileWaiting, fileAt,
  memCount, memWaiting, memAt

Workers == Items \cup SqlAgents

File == INSTANCE ImportBytesSemaphore WITH Contexts <- Workers, Capacity <- FileCapacity,
          count <- fileCount, waiting <- fileWaiting, at <- fileAt
Mem == INSTANCE ImportBytesSemaphore WITH Contexts <- Workers, Capacity <- MemCapacity,
         count <- memCount, waiting <- memWaiting, at <- memAt

fileVars == <<fileCount, fileWaiting, fileAt>>
memVars == <<memCount, memWaiting, memAt>>
queueVars == <<source, completes, flowItems, flowCompletes>>
workVars == <<step, item, sent, stopping>>
vars == <<queueVars, workVars, inProgress, timer, agent, notified, fileVars, memVars>>

\* The steps of SendRequest and of SendResult, and what is around them.
SendSteps == {"send", "memory", "count", "post"}
ResultSteps == {"result", "free", "discount", "notify"}

\* Main has sent the input files and starts the agents.
Init ==
  /\ source = Roots /\ completes = 0
  /\ flowItems = [f \in Flows |-> {}] /\ flowCompletes = [f \in Flows |-> 0]
  /\ step = [w \in Workers |-> IF w \in Items THEN "none" ELSE "receive"]
  /\ item = [a \in SqlAgents |-> Agent]
  /\ sent = [i \in Items |-> 0] /\ stopping = {}
  /\ inProgress = Cardinality(Roots)
  /\ timer = "armed" /\ agent = "receive"
  /\ notified = [i \in Items |-> 0]
  /\ File!SemInit /\ Mem!SemInit

Goto(w, s) == step' = [step EXCEPT ![w] = s]

\* The call of a semaphore that w made has returned.
Returned(w) == fileAt[w] = "out" /\ memAt[w] = "out"

-----------------------------------------------------------------------------
(* ImportAgent::SendRequest, called by the task of item i for the next item it found. *)

NextItem(i) == Children[i][sent[i] + 1]
HasNext(i) == sent[i] < Len(Children[i])

ChargeFile(i) ==
  /\ step[i] = "send" /\ HasNext(i) /\ Returned(i)
  /\ IF FileBytes[NextItem(i)] > 0 THEN File!Acquire(i, FileBytes[NextItem(i)]) ELSE UNCHANGED fileVars
  /\ Goto(i, "memory")
  /\ UNCHANGED <<queueVars, item, sent, stopping, inProgress, timer, agent, notified, memVars>>

ChargeMem(i) ==
  /\ step[i] = "memory" /\ Returned(i)
  /\ IF MemBytes[NextItem(i)] > 0 THEN Mem!Acquire(i, MemBytes[NextItem(i)]) ELSE UNCHANGED memVars
  /\ Goto(i, "count")
  /\ UNCHANGED <<queueVars, item, sent, stopping, inProgress, timer, agent, notified, fileVars>>

\* Mutant: the item is posted without being counted.
CountItemNever(i) ==
  /\ step[i] = "count" /\ Returned(i) /\ Goto(i, "post")
  /\ UNCHANGED <<queueVars, item, sent, stopping, inProgress, timer, agent, notified, fileVars,
                 memVars>>

CountItem(i) ==
  /\ step[i] = "count" /\ Returned(i)
  /\ inProgress' = inProgress + 1
  /\ Goto(i, "post")
  /\ UNCHANGED <<queueVars, item, sent, stopping, timer, agent, notified, fileVars, memVars>>

\* To the import agent when the item is to be extracted or expanded, else to the flow
\* whose filter accepts its table.
PostItem(i) ==
  /\ step[i] = "post"
  /\ LET c == NextItem(i) IN
     \/ /\ Flow[c] = Agent /\ source' = source \cup {c} /\ UNCHANGED flowItems
     \/ /\ Flow[c] \in Flows /\ UNCHANGED source
        /\ flowItems' = [flowItems EXCEPT ![Flow[c]] = @ \cup {c}]
  /\ sent' = [sent EXCEPT ![i] = @ + 1]
  /\ Goto(i, "send")
  /\ UNCHANGED <<completes, flowCompletes, item, stopping, inProgress, timer, agent,
                 notified, fileVars, memVars>>

\* EnveloppedItem, ExpandItem or ExtractItem returns: everything was sent, or it failed.
ItemOver(i) ==
  /\ step[i] = "send"
  /\ Goto(i, "result")
  /\ UNCHANGED <<queueVars, item, sent, stopping, inProgress, timer, agent, notified,
                 fileVars, memVars>>

-----------------------------------------------------------------------------
(* SendResult, called by worker w: the task of an item or a SQL agent. *)

ItemOf(w) == IF w \in Items THEN w ELSE item[w]

ReturnFile(w) ==
  /\ step[w] = "result" /\ Returned(w)
  /\ IF FileBytes[ItemOf(w)] > 0 THEN File!Release(w, FileBytes[ItemOf(w)]) ELSE UNCHANGED fileVars
  /\ Goto(w, "free")
  /\ UNCHANGED <<queueVars, item, sent, stopping, inProgress, timer, agent, notified, memVars>>

\* Mutant: the memory bytes of an item are never given back.
ReturnMemNothing(w) ==
  /\ step[w] = "free" /\ Returned(w) /\ Goto(w, "discount")
  /\ UNCHANGED <<queueVars, item, sent, stopping, inProgress, timer, agent, notified, fileVars,
                 memVars>>

ReturnMem(w) ==
  /\ step[w] = "free" /\ Returned(w)
  /\ IF MemBytes[ItemOf(w)] > 0 THEN Mem!Release(w, MemBytes[ItemOf(w)]) ELSE UNCHANGED memVars
  /\ Goto(w, "discount")
  /\ UNCHANGED <<queueVars, item, sent, stopping, inProgress, timer, agent, notified, fileVars>>

Discount(w) ==
  /\ step[w] = "discount" /\ Returned(w)
  /\ inProgress' = inProgress - 1
  /\ Goto(w, "notify")
  /\ UNCHANGED <<queueVars, item, sent, stopping, timer, agent, notified, fileVars, memVars>>

Notify(w) ==
  /\ step[w] = "notify"
  /\ notified' = [notified EXCEPT ![ItemOf(w)] = @ + 1]
  /\ Goto(w, IF w \in Items THEN "over" ELSE IF w \in stopping THEN "drain" ELSE "receive")
  /\ UNCHANGED <<queueVars, item, sent, stopping, inProgress, timer, agent, fileVars, memVars>>

SemaphoreStep(w) ==
  /\ \/ File!SemStep(w) /\ UNCHANGED memVars
     \/ Mem!SemStep(w) /\ UNCHANGED fileVars
  /\ UNCHANGED <<queueVars, workVars, inProgress, timer, agent, notified>>

WorkerStep(w) ==
  \/ w \in Items /\ (ChargeFile(w) \/ ChargeMem(w) \/ CountItem(w) \/ PostItem(w) \/ ItemOver(w))
  \/ ReturnFile(w) \/ ReturnMem(w) \/ Discount(w) \/ Notify(w)
  \/ SemaphoreStep(w)

-----------------------------------------------------------------------------
(* SqlImportAgent::run *)

\* Which of a Complete and an item a queue gives first is left open: QueueEmptyMeansIdle
\* says that it never holds both.  ImportTask reports nothing on an item of a format or a
\* request it does not know; without a connection every item is reported as failed.
SqlReceiveItem(a) ==
  /\ step[a] \in {"receive", "drain"}
  /\ \E i \in flowItems[FlowOf[a]] :
       /\ flowItems' = [flowItems EXCEPT ![FlowOf[a]] = @ \ {i}]
       /\ IF i \in Handled \/ a \in Unconnected
          THEN item' = [item EXCEPT ![a] = i] /\ Goto(a, "result")
          ELSE UNCHANGED <<item, step>>
  /\ UNCHANGED <<source, completes, flowCompletes, sent, stopping, inProgress, timer,
                 agent, notified, fileVars, memVars>>

SqlReceiveComplete(a) ==
  /\ step[a] \in {"receive", "drain"} /\ flowCompletes[FlowOf[a]] > 0
  /\ flowCompletes' = [flowCompletes EXCEPT ![FlowOf[a]] = @ - 1]
  /\ stopping' = stopping \cup {a}
  /\ Goto(a, "drain")
  /\ UNCHANGED <<source, completes, flowItems, item, sent, inProgress, timer, agent,
                 notified, fileVars, memVars>>

\* try_receive finds nothing.
SqlDone(a) ==
  /\ step[a] = "drain" /\ flowItems[FlowOf[a]] = {} /\ flowCompletes[FlowOf[a]] = 0
  /\ Goto(a, "over")
  /\ UNCHANGED <<queueVars, item, sent, stopping, inProgress, timer, agent, notified,
                 fileVars, memVars>>

SqlStep(a) == SqlReceiveItem(a) \/ SqlReceiveComplete(a) \/ SqlDone(a)

-----------------------------------------------------------------------------
(* ImportAgent::run and its timer *)

\* check_if_done reads the number of items in progress ...
TimerFires ==
  /\ timer = "armed" /\ inProgress <= 0 /\ completes < MaxCompletes
  /\ timer' = "firing"
  /\ UNCHANGED <<queueVars, workVars, inProgress, agent, notified, fileVars, memVars>>

\* ... and sends Complete.
TimerSends ==
  /\ timer = "firing"
  /\ completes' = completes + 1
  /\ timer' = "armed"
  /\ UNCHANGED <<source, flowItems, flowCompletes, workVars, inProgress, agent, notified,
                 fileVars, memVars>>

\* ImportOneItem starts the task of an item, unless no case of its switches applies.
ImportOneItem(i) ==
  /\ source' = source \ {i}
  /\ IF i \in Handled THEN Goto(i, "send") ELSE UNCHANGED step

AgentReceiveItem ==
  /\ agent \in {"receive", "drain"}
  /\ \E i \in source : ImportOneItem(i)
  /\ agent' = IF agent = "drain" THEN "wait" ELSE "receive"
  /\ UNCHANGED <<completes, flowItems, flowCompletes, item, sent, stopping, inProgress,
                 timer, notified, fileVars, memVars>>

AgentReceiveComplete ==
  /\ agent \in {"receive", "drain"} /\ completes > 0
  /\ completes' = completes - 1
  /\ agent' = "wait"
  /\ UNCHANGED <<source, flowItems, flowCompletes, workVars, inProgress, timer, notified,
                 fileVars, memVars>>

\* Mutant: the tasks are not waited for.
AgentWaitNot ==
  /\ agent = "wait" /\ agent' = "complete"
  /\ UNCHANGED <<queueVars, workVars, inProgress, timer, notified, fileVars, memVars>>

\* m_TaskGroup.wait
AgentWait ==
  /\ agent = "wait" /\ \A i \in Items : step[i] \in {"none", "over"}
  /\ agent' = "complete"
  /\ UNCHANGED <<queueVars, workVars, inProgress, timer, notified, fileVars, memVars>>

\* One Complete per agent of each flow.
AgentComplete ==
  /\ agent = "complete"
  /\ flowCompletes' = [f \in Flows |->
                         flowCompletes[f] + Cardinality({a \in SqlAgents : FlowOf[a] = f})]
  /\ agent' = "stop"
  /\ UNCHANGED <<source, completes, flowItems, workVars, inProgress, timer, notified,
                 fileVars, memVars>>

\* check_timer.stop; a call that is under way still sends its Complete.
AgentStopTimer ==
  /\ agent = "stop" /\ timer # "firing"
  /\ timer' = "stopped"
  /\ agent' = "join"
  /\ UNCHANGED <<queueVars, workVars, inProgress, notified, fileVars, memVars>>

\* agent::wait_for_all
AgentJoin ==
  /\ agent = "join" /\ \A a \in SqlAgents : step[a] = "over"
  /\ agent' = "drain"
  /\ UNCHANGED <<queueVars, workVars, inProgress, timer, notified, fileVars, memVars>>

\* try_receive finds nothing.
AgentDone ==
  /\ agent = "drain" /\ source = {} /\ completes = 0
  /\ agent' = "done"
  /\ UNCHANGED <<queueVars, workVars, inProgress, timer, notified, fileVars, memVars>>

AgentStep ==
  \/ AgentReceiveItem \/ AgentReceiveComplete \/ AgentWait \/ AgentComplete
  \/ AgentStopTimer \/ AgentJoin \/ AgentDone

\* The import is over: Main's wait for the agent returns.
Finished == agent = "done" /\ UNCHANGED vars

Next ==
  \/ \E w \in Workers : WorkerStep(w)
  \/ \E a \in SqlAgents : SqlStep(a)
  \/ TimerFires \/ TimerSends
  \/ AgentStep
  \/ Finished

Spec == Init /\ [][Next]_vars

\* ConcRT runs every task, agent and timer call that can go on.
FairSpec ==
  /\ Spec
  /\ \A w \in Workers : WF_vars(WorkerStep(w))
  /\ \A a \in SqlAgents : WF_vars(SqlStep(a))
  /\ WF_vars(TimerFires) /\ WF_vars(TimerSends) /\ WF_vars(AgentStep)

-----------------------------------------------------------------------------
\* Nothing is left that could import an item or send a request.
Idle ==
  /\ source = {} /\ \A f \in Flows : flowItems[f] = {}
  /\ \A w \in Workers : step[w] \notin SendSteps \cup (ResultSteps \ {"notify"})

\* "Queue is empty, completing agents...": when the polled counter says that no item is in
\* progress, and from then on, there is none, although tasks add items while they run.
QueueEmptyMeansIdle ==
  inProgress <= 0 \/ timer = "firing" \/ completes > 0 \/ agent # "receive" => Idle

\* The items SendRequest has posted.
Posted == Roots \cup UNION {{Children[i][n] : n \in 1 .. sent[i]} : i \in Items}

\* When the agent is done, every item that was sent was reported, once, no task is left and
\* all the charged bytes were given back.
DoneMeansReported ==
  agent = "done" =>
    /\ \A i \in Items : notified[i] = IF i \in Posted THEN 1 ELSE 0
    /\ \A i \in Items : step[i] \in {"none", "over"}
    /\ fileCount = FileCapacity /\ memCount = MemCapacity

\* The items that reach an agent whose switches know neither their format nor their
\* request: nobody reports them.
Dropped ==
  {c \in Posted \ Handled :
     Flow[c] = Agent \/ \E a \in SqlAgents \ Unconnected : FlowOf[a] = Flow[c]}

Blocked(w) == fileAt[w] = "blocked" \/ memAt[w] = "blocked"

\* How many bytes were charged for the items S.
Charge(Bytes, S) == Cardinality(UNION {{i} \X (1 .. Bytes[i]) : i \in S})

\* The tasks that are left wait for bytes, and the items they expand, whose bytes they give
\* back when they are over, have used up a budget.
Deadlocked ==
  LET stuck == {i \in Items : Blocked(i)}
  IN /\ stuck # {} /\ \A i \in Items \ stuck : step[i] \in {"none", "over"}
     /\ Charge(FileBytes, stuck) >= FileCapacity \/ Charge(MemBytes, stuck) >= MemCapacity

\* The import ends, whichever items fail and however often charging an item has to wait,
\* with two exceptions: an item that nobody reports stays in progress for ever, and archives
\* whose tasks wait for the bytes of what they contain may wait for each other's.
AgentEnds == <>(agent = "done") \/ <>[](Dropped # {}) \/ <>[]Deadlocked
=============================================================================
