---------------------------- MODULE ArchivingProofs ---------------------------
(***************************************************************************)
(* Proofs about Archiving, for any commands, items, directories and        *)
(* refusals: every item has one answer, and a flush keeps what is archived *)
(* already; nothing is lost and no file is deleted that no archive holds,  *)
(* but what an UpdateItems that fails as a whole was to write.             *)
(*                                                                         *)
(* The invariants follow the requests from the commands to the compressor. *)
(***************************************************************************)
EXTENDS Archiving, ArchiveAgentProofs

-----------------------------------------------------------------------------
(***************************************************************************)
(* The invariant of the agent.                                             *)
(***************************************************************************)
Types == AgentTypes /\ batches \subseteq Batches

\* A request that the agent has not taken yet adds i.
Coming(i) ==
  \/ \E p \in DOMAIN inbox : i \in Adds(inbox[p])
  \/ \E b \in batches : \E n \in DOMAIN b : i \in Adds(b[n])

\* No two requests to come add the same item.
ComingOnce ==
  /\ \A p, q \in DOMAIN inbox : p # q => Adds(inbox[p]) \cap Adds(inbox[q]) = {}
  /\ \A b \in batches : \A n \in DOMAIN b : \A p \in DOMAIN inbox :
       Adds(b[n]) \cap Adds(inbox[p]) = {}

\* An item is answered when it is refused or gets its Index, and not before.
Answered ==
  \A i \in Items :
    /\ answers[i] <= 1
    /\ Coming(i) => answers[i] = 0
    /\ compressor # <<>> =>
         /\ i \in Zip.indexed => answers[i] = 1
         /\ i \in Taken(Zip) /\ i \notin Zip.indexed => answers[i] = 0
         /\ Coming(i) => i \notin Taken(Zip)

AgentInv == Types /\ Compressing /\ ComingOnce /\ Answered

-----------------------------------------------------------------------------
(***************************************************************************)
(* The steps of the clients and of the agent preserve the invariant.       *)
(***************************************************************************)
LEMMA BatchMessages == \A b \in Batches : b \in Seq(Messages)
BY ArchivingAssumption

\* A request that is served is no longer to come, and the others are.
LEMMA ServedComing ==
  ASSUME Types, ComingOnce, inbox # <<>>, inbox' = Tail(inbox), batches' = batches
  PROVE  /\ inbox' \in Seq(Messages) /\ ComingOnce'
         /\ \A i : Coming(i)' => Coming(i) /\ i \notin Adds(Request)
         /\ \A i \in Adds(Request) : Coming(i)
<1>1. /\ inbox \in Seq(Messages) /\ inbox' \in Seq(Messages) /\ Request = inbox[1] /\ 1 \in DOMAIN inbox
      /\ \A p \in DOMAIN inbox' : p + 1 \in DOMAIN inbox /\ inbox'[p] = inbox[p + 1] /\ p + 1 # 1
      /\ \A p, q \in DOMAIN inbox' : p # q => p + 1 # q + 1
  BY DEF Types, AgentTypes, Request
<1>2. \A p \in DOMAIN inbox' : Adds(inbox'[p]) = Adds(inbox[p + 1])
  BY <1>1
<1>3. ComingOnce'
  <2>1. \A p, q \in DOMAIN inbox' : p # q => Adds(inbox'[p]) \cap Adds(inbox'[q]) = {}
    BY <1>1, <1>2 DEF ComingOnce
  <2>2. \A b \in batches : \A n \in DOMAIN b : \A p \in DOMAIN inbox' : Adds(b[n]) \cap Adds(inbox'[p]) = {}
    BY <1>1, <1>2 DEF ComingOnce
  <2> QED
    BY <2>1, <2>2 DEF ComingOnce, Adds
<1>4. ASSUME NEW i, Coming(i)' PROVE Coming(i) /\ i \notin Adds(Request)
  <2>1. \/ \E p \in DOMAIN inbox' : i \in Adds(inbox'[p])
        \/ \E b \in batches : \E n \in DOMAIN b : i \in Adds(b[n])
    BY <1>4 DEF Coming, Adds
  <2>2. CASE \E p \in DOMAIN inbox' : i \in Adds(inbox'[p])
    BY <1>1, <1>2, <2>2 DEF Coming, ComingOnce
  <2>3. CASE \E b \in batches : \E n \in DOMAIN b : i \in Adds(b[n])
    BY <1>1, <2>3 DEF Coming, ComingOnce
  <2> QED
    BY <2>1, <2>2, <2>3
<1>5. \A i \in Adds(Request) : Coming(i)
  BY <1>1 DEF Coming
<1> QED
  BY <1>1, <1>3, <1>4, <1>5

LEMMA InitAgentInv == Init => AgentInv
<1> SUFFICES ASSUME Init PROVE AgentInv
  OBVIOUS
<1>1. /\ inbox = <<OpenArchive>> /\ archiving = "running" /\ compressor = <<>>
      /\ answers = [i \in Items |-> 0] /\ batches = Batches
  BY DEF Init, AgentInit
<1>2. OpenArchive \in Messages /\ Adds(OpenArchive) = {}
  BY DEF Messages, Adds, OpenArchive, Message
<1>3. Types
  BY <1>1, <1>2 DEF Types, AgentTypes
<1>4. \A p \in DOMAIN inbox : Adds(inbox[p]) = {} /\ p = 1
  BY <1>1, <1>2
<1>5. ComingOnce
  BY <1>4 DEF ComingOnce
<1>6. Compressing /\ Answered
  BY <1>1 DEF Compressing, Answered
<1> QED
  BY <1>3, <1>5, <1>6 DEF AgentInv

LEMMA SendBatchInv ==
  ASSUME AgentInv, NEW b \in Batches, SendBatch(b)
  PROVE  AgentInv'
<1>1. /\ b \in batches /\ batches' = batches \ {b} /\ inbox' = inbox \o b
      /\ UNCHANGED <<archiving, compressor, answers>>
  BY DEF SendBatch, Post
<1>2. /\ Types /\ Compressing /\ ComingOnce /\ Answered
      /\ inbox \in Seq(Messages) /\ b \in Seq(Messages) /\ batches \subseteq Batches
  BY BatchMessages DEF AgentInv, Types, AgentTypes
<1>3. Types'
  BY <1>1, <1>2 DEF Types, AgentTypes
<1>4. /\ inbox' \in Seq(Messages)
      /\ \A p \in DOMAIN inbox' :
           \/ p \in DOMAIN inbox /\ inbox'[p] = inbox[p]
           \/ /\ p \notin DOMAIN inbox /\ p - Len(inbox) \in DOMAIN b
              /\ inbox'[p] = b[p - Len(inbox)]
      /\ \A p \in DOMAIN inbox : p \in DOMAIN inbox' /\ inbox'[p] = inbox[p]
      /\ \A n \in DOMAIN b : n + Len(inbox) \in DOMAIN inbox' /\ inbox'[n + Len(inbox)] = b[n]
      /\ \A p, q \in DOMAIN inbox' : p # q => p - Len(inbox) # q - Len(inbox)
  BY <1>1, <1>2
<1>5. ComingOnce'
  <2>1. ASSUME NEW p \in DOMAIN inbox', NEW q \in DOMAIN inbox', p # q
        PROVE  Adds(inbox'[p]) \cap Adds(inbox'[q]) = {}
    <3>1. CASE p \in DOMAIN inbox /\ q \in DOMAIN inbox
      BY <1>2, <1>4, <2>1, <3>1 DEF ComingOnce
    <3>2. CASE p \in DOMAIN inbox /\ q \notin DOMAIN inbox
      BY <1>1, <1>2, <1>4, <2>1, <3>2 DEF ComingOnce
    <3>3. CASE p \notin DOMAIN inbox /\ q \in DOMAIN inbox
      BY <1>1, <1>2, <1>4, <2>1, <3>3 DEF ComingOnce
    <3>4. CASE p \notin DOMAIN inbox /\ q \notin DOMAIN inbox
      BY <1>1, <1>4, <2>1, <3>4, OutputsAssumption
    <3> QED
      BY <3>1, <3>2, <3>3, <3>4
  <2>2. ASSUME NEW c \in batches', NEW n \in DOMAIN c, NEW p \in DOMAIN inbox'
        PROVE  Adds(c[n]) \cap Adds(inbox'[p]) = {}
    <3>1. CASE p \in DOMAIN inbox
      BY <1>1, <1>2, <1>4, <2>2, <3>1 DEF ComingOnce
    <3>2. CASE p \notin DOMAIN inbox
      BY <1>1, <1>2, <1>4, <2>2, <3>2, OutputsAssumption
    <3> QED
      BY <3>1, <3>2
  <2> QED
    BY <2>1, <2>2 DEF ComingOnce, Adds
<1>6. ASSUME NEW i, Coming(i)' PROVE Coming(i)
  <2>1. \/ \E p \in DOMAIN inbox' : i \in Adds(inbox'[p])
        \/ \E c \in batches' : \E n \in DOMAIN c : i \in Adds(c[n])
    BY <1>6 DEF Coming, Adds
  <2>2. CASE \E p \in DOMAIN inbox' : i \in Adds(inbox'[p])
    BY <1>1, <1>4, <2>2 DEF Coming
  <2>3. CASE \E c \in batches' : \E n \in DOMAIN c : i \in Adds(c[n])
    BY <1>1, <2>3 DEF Coming
  <2> QED
    BY <2>1, <2>2, <2>3
<1>7. Compressing'
  BY <1>1, <1>2 DEF Compressing, Indexed, Begun, Content, Zip
<1>8. Answered'
  <2>1. Zip' = Zip
    BY <1>1 DEF Zip
  <2> QED
    BY <1>1, <1>2, <1>6, <2>1 DEF Answered, Taken
<1> QED
  BY <1>3, <1>5, <1>7, <1>8 DEF AgentInv

LEMMA SendCompleteInv ==
  ASSUME AgentInv, SendComplete
  PROVE  AgentInv'
<1>1. inbox' = inbox \o <<Complete>> /\ UNCHANGED <<archiving, compressor, answers, batches>>
  BY DEF SendComplete, Post, robustVars
<1>2. Types /\ Compressing /\ ComingOnce /\ Answered /\ inbox \in Seq(Messages)
  BY DEF AgentInv, Types, AgentTypes
<1>3. Complete \in Messages /\ Adds(Complete) = {}
  BY DEF Messages, Adds, Complete, Message
<1>4. /\ inbox' \in Seq(Messages)
      /\ \A p \in DOMAIN inbox' : \/ p \in DOMAIN inbox /\ inbox'[p] = inbox[p]
                                  \/ inbox'[p] = Complete
  BY <1>1, <1>2, <1>3
<1>5. \A p \in DOMAIN inbox' : (p \in DOMAIN inbox /\ inbox'[p] = inbox[p]) \/ Adds(inbox'[p]) = {}
  BY <1>3, <1>4
<1>6. Types'
  BY <1>1, <1>2, <1>4 DEF Types, AgentTypes
<1>7. ComingOnce'
  <2>1. \A p, q \in DOMAIN inbox' : p # q => Adds(inbox'[p]) \cap Adds(inbox'[q]) = {}
    BY <1>2, <1>5 DEF ComingOnce
  <2>2. \A b \in batches' : \A n \in DOMAIN b : \A p \in DOMAIN inbox' :
          Adds(b[n]) \cap Adds(inbox'[p]) = {}
    BY <1>1, <1>2, <1>5 DEF ComingOnce
  <2> QED
    BY <2>1, <2>2 DEF ComingOnce, Adds
<1>8. ASSUME NEW i, Coming(i)' PROVE Coming(i)
  <2>1. \/ \E p \in DOMAIN inbox' : i \in Adds(inbox'[p])
        \/ \E b \in batches' : \E n \in DOMAIN b : i \in Adds(b[n])
    BY <1>8 DEF Coming, Adds
  <2> QED
    BY <1>1, <1>5, <2>1 DEF Coming
<1>9. Compressing' /\ Zip' = Zip
  BY <1>1, <1>2 DEF Compressing, Indexed, Begun, Content, Zip
<1>10. Answered'
  BY <1>1, <1>2, <1>8, <1>9 DEF Answered, Taken
<1> QED
  BY <1>6, <1>7, <1>9, <1>10 DEF AgentInv

\* The steps that leave the agent alone.
LEMMA OthersInv ==
  ASSUME AgentInv, UNCHANGED <<inbox, archiving, compressor, answers, batches>>
  PROVE  AgentInv'
<1>1. Types /\ Compressing /\ ComingOnce /\ Answered
  BY DEF AgentInv
<1>2. Types' /\ ComingOnce'
  BY <1>1 DEF Types, AgentTypes, ComingOnce, Adds
<1>3. \A i : Coming(i)' <=> Coming(i)
  BY DEF Coming, Adds
<1>4. Zip' = Zip
  BY DEF Zip
<1>5. Compressing' /\ Answered'
  BY <1>1, <1>3, <1>4 DEF Compressing, Answered, Indexed, Begun, Content, Taken
<1> QED
  BY <1>1, <1>2, <1>5 DEF AgentInv

LEMMA AgentStepInv ==
  ASSUME AgentInv, Agent
  PROVE  AgentInv'
<1>1. Types /\ Compressing /\ ComingOnce /\ Answered /\ batches' = batches
  BY DEF AgentInv, Agent, clientVars
<1>2. CASE Skips
  <2>1. /\ inbox' \in Seq(Messages) /\ ComingOnce'
        /\ \A i : Coming(i)' => Coming(i)
    <3>1. CASE inbox' = inbox
      BY <1>1, <3>1 DEF Types, AgentTypes, ComingOnce, Coming, Adds
    <3>2. CASE inbox' = Tail(inbox)
      BY <1>1, <1>2, <3>2, ServedComing DEF Skips, Asked
    <3> QED
      BY <1>2, <3>1, <3>2 DEF Skips
  <2>2. UNCHANGED <<compressor, answers>> /\ archiving = "running" /\ archiving' \in {"running", "crashed"}
        /\ Zip' = Zip
    BY <1>2 DEF Skips, Asked, Zip
  <2>3. Types'
    BY <1>1, <2>1, <2>2 DEF Types, AgentTypes
  <2>4. Compressing'
    BY <1>1, <2>2 DEF Compressing, Indexed, Begun, Content
  <2>5. Answered'
    BY <1>1, <2>1, <2>2 DEF Answered, Taken
  <2> QED
    BY <2>1, <2>3, <2>4, <2>5 DEF AgentInv
<1>3. ASSUME Asked, Served
      PROVE  /\ inbox' \in Seq(Messages) /\ ComingOnce'
             /\ \A i : Coming(i)' => Coming(i) /\ i \notin Adds(Request)
             /\ \A i \in Adds(Request) : Coming(i)
  BY <1>1, <1>3, ServedComing DEF Asked, Served
<1>4. CASE Opens
  <2>1. /\ compressor = <<>> /\ UNCHANGED <<archiving, answers>> /\ Asked /\ Served
        /\ compressor' = <<Zip'>> /\ Zip' \in {NewCompressor, Unready}
    BY <1>4 DEF Opens, Zip
  <2>2. /\ Indexed(Zip') /\ ~Begun(Zip') /\ Zip' \in Compressors
        /\ Taken(Zip') = {} /\ Zip'.indexed = {}
    BY <2>1, NewZip, UnreadyZip DEF Taken, Indexed
  <2>3. Types'
    BY <1>1, <1>3, <2>1, <2>2 DEF Types, AgentTypes
  <2>5. Compressing'
    BY <2>1, <2>2 DEF Compressing, Indexed, Begun, Content
  <2>4. Answered'
    BY <1>1, <1>3, <2>1, <2>2 DEF Answered, Taken
  <2> QED
    BY <1>3, <2>1, <2>3, <2>4, <2>5 DEF AgentInv
<1>5. ASSUME NEW z \in Compressors, NEW yes \in SUBSET Items, NEW no \in SUBSET Items, AddsTo(z, yes, no)
      PROVE  AgentInv'
  <2>1. /\ Asked /\ Served /\ compressor # <<>> /\ compressor' = <<z>> /\ archiving' = archiving
        /\ yes \cup no \subseteq Adds(Request) /\ yes \cap no = {}
        /\ z.queue = Zip.queue \cup yes /\ z.items = Zip.items /\ z.indexed = Zip.indexed
        /\ z.output = Zip.output /\ z.closed = Zip.closed /\ Content(z) = Content(Zip)
        /\ \A i \in Items : answers'[i] = answers[i] + IF i \in no THEN 1 ELSE 0
        /\ Zip' = z
    BY <1>5 DEF AddsTo, Zip
  <2>2. answers' \in [Items -> Nat]
    BY <1>1, <1>5 DEF AddsTo, Types, AgentTypes
  <2>3. Types'
    BY <1>1, <1>3, <2>1, <2>2 DEF Types, AgentTypes
  <2>4. Compressing'
    BY <1>1, <2>1 DEF Compressing, Indexed, Begun, Content
  <2>5. Indexed(Zip)
    BY <1>1, <2>1 DEF Compressing
  <2>6. ASSUME NEW i \in Items
        PROVE  /\ answers'[i] <= 1
               /\ Coming(i)' => answers'[i] = 0 /\ i \notin Taken(z)
               /\ i \in z.indexed => answers'[i] = 1
               /\ i \in Taken(z) /\ i \notin z.indexed => answers'[i] = 0
    <3>1. CASE i \in Adds(Request)
      <4>1. answers[i] = 0 /\ i \notin Taken(Zip) /\ ~Coming(i)'
        BY <1>1, <1>3, <2>1, <3>1 DEF Answered
      <4>2. i \notin z.indexed
        BY <2>1, <2>5, <4>1 DEF Indexed, Taken
      <4>3. i \in Taken(z) <=> i \in yes
        BY <2>1, <4>1 DEF Taken
      <4> QED
        BY <2>1, <4>1, <4>2, <4>3
    <3>2. CASE i \notin Adds(Request)
      <4>1. answers'[i] = answers[i] /\ (i \in Taken(z) <=> i \in Taken(Zip))
        BY <1>1, <2>1, <3>2 DEF Taken, Types, AgentTypes
      <4>2. Coming(i)' => Coming(i)
        BY <1>3, <2>1
      <4> QED
        BY <1>1, <2>1, <4>1, <4>2 DEF Answered
    <3> QED
      BY <3>1, <3>2
  <2>7. Answered'
    BY <2>1, <2>6 DEF Answered, Taken
  <2> QED
    BY <1>3, <2>1, <2>3, <2>4, <2>7 DEF AgentInv
<1>6. ASSUME NEW z \in Compressors, Writes(z)
      PROVE  AgentInv'
  <2>1. /\ Asked /\ Served /\ compressor # <<>> /\ compressor' = <<z>>
        /\ archiving' \in {"running", "done"} /\ Indexed(z) /\ (archiving' = "running" => ~Begun(z))
        /\ Zip.indexed \subseteq z.indexed /\ Taken(z) \subseteq Taken(Zip)
        /\ \A i \in Items : answers'[i] = answers[i] + IF i \in z.indexed \ Zip.indexed THEN 1 ELSE 0
        /\ Zip' = z
    BY <1>6 DEF Writes, Zip
  <2>2. answers' \in [Items -> Nat]
    BY <1>1, <1>6 DEF Writes, Types, AgentTypes
  <2>3. Types'
    BY <1>1, <1>3, <2>1, <2>2 DEF Types, AgentTypes
  <2>4. Compressing'
    BY <2>1 DEF Compressing, Indexed, Begun, Content
  <2>5. z.indexed \subseteq Taken(Zip)
    BY <2>1 DEF Indexed, Taken
  <2>6. ASSUME NEW i \in Items
        PROVE  /\ answers'[i] <= 1
               /\ Coming(i)' => answers'[i] = 0 /\ i \notin Taken(z)
               /\ i \in z.indexed => answers'[i] = 1
               /\ i \in Taken(z) /\ i \notin z.indexed => answers'[i] = 0
    <3>1. Coming(i)' => Coming(i)
      BY <1>3, <2>1
    <3>2. CASE i \in z.indexed \ Zip.indexed
      BY <1>1, <2>1, <2>5, <3>1, <3>2 DEF Answered
    <3>3. CASE i \notin z.indexed \ Zip.indexed
      <4>1. answers'[i] = answers[i]
        BY <1>1, <2>1, <3>3 DEF Types, AgentTypes
      <4> QED
        BY <1>1, <2>1, <3>1, <3>3, <4>1 DEF Answered
    <3> QED
      BY <3>2, <3>3
  <2>7. Answered'
    BY <2>1, <2>6 DEF Answered, Taken
  <2> QED
    BY <1>3, <2>1, <2>3, <2>4, <2>7 DEF AgentInv
<1> QED
  BY <1>1, <1>2, <1>4, <1>5, <1>6, AgentEffect DEF Types, Agent
LEMMA AgentInvariant == Spec => []AgentInv
<1>1. Init => AgentInv
  BY InitAgentInv
<1>2. ASSUME AgentInv, [Next]_vars PROVE AgentInv'
  <2>1. CASE \E b \in Batches : SendBatch(b)
    BY <1>2, <2>1, SendBatchInv
  <2>2. CASE SendComplete
    BY <1>2, <2>2, SendCompleteInv
  <2>3. CASE Agent
    BY <1>2, <2>3, AgentStepInv
  <2>4. CASE (\E d \in Dirs : RemoveDirectoryHandler(d)) \/ Terminate \/ Finished \/ UNCHANGED vars
    <3>1. UNCHANGED <<inbox, archiving, compressor, answers, batches>>
      BY <2>4 DEF RemoveDirectoryHandler, Terminate, Finished, vars, agentVars, clientVars
    <3> QED
      BY <1>2, <3>1, OthersInv
  <2> QED
    BY <1>2, <2>1, <2>2, <2>3, <2>4 DEF Next
<1> QED
  BY <1>1, <1>2, PTL DEF Spec

\* Every item has one answer, whatever is refused: no item is announced twice, and what the
\* archives hold has been announced.
THEOREM OneAnswer == Spec => []AnsweredOnce
<1>1. ASSUME AgentInv PROVE AnsweredOnce
  <2>1. Answered /\ (compressor # <<>> => Indexed(Zip))
    BY <1>1 DEF AgentInv, Compressing
  <2>2. compressor # <<>> => Content(Zip) \subseteq Zip.indexed /\ Zip.indexed \subseteq Items
    BY <2>1 DEF Indexed, Compressors
  <2> QED
    BY <2>1, <2>2 DEF Answered, AnsweredOnce
<1> QED
  BY <1>1, AgentInvariant, PTL

\* No step loses what the archives already hold, whatever is refused.
THEOREM ArchivesGrow == Spec => ContentKept
<1>1. ASSUME AgentInv, [Next]_vars
      PROVE  [compressor # <<>> /\ compressor' # <<>>
                => Content(compressor[1]) \subseteq Content(compressor'[1])]_vars
  <2>1. CASE compressor' = compressor
    BY <2>1
  <2>2. CASE compressor' # compressor
    <3>1. Agent
      BY <1>1, <2>2 DEF Next, SendBatch, SendComplete, RemoveDirectoryHandler, Terminate, Finished,
                        vars, agentVars
    <3>2. \/ Skips \/ Opens
          \/ \E z \in Compressors, yes, no \in SUBSET Items : AddsTo(z, yes, no)
          \/ \E z \in Compressors : Writes(z)
      BY <1>1, <3>1, AgentEffect DEF AgentInv, Types, Agent
    <3>3. CASE Skips \/ Opens
      BY <2>2, <3>3 DEF Skips, Opens
    <3>4. CASE \E z \in Compressors, yes, no \in SUBSET Items : AddsTo(z, yes, no)
      BY <3>4 DEF AddsTo, Zip
    <3>5. CASE \E z \in Compressors : Writes(z)
      BY <3>5 DEF Writes, Zip
    <3> QED
      BY <3>2, <3>3, <3>4, <3>5
  <2> QED
    BY <2>1, <2>2
<1> QED
  BY <1>1, AgentInvariant, PTL DEF Spec, ContentKept
-----------------------------------------------------------------------------
(***************************************************************************)
(* What is taken is archived, but what a failed UpdateItems was to write.  *)
(***************************************************************************)
\* Before the archive is opened nothing is taken and no file is deleted.
NothingYet == compressor = <<>> => accepted = {} /\ Files \subseteq disk

\* Each temporary archive holds all that was archived; what was taken is there, queued or torn,
\* and a file is gone only when it is there or torn.
AllKept ==
  compressor # <<>> =>
    /\ Whole(Zip) /\ (archiving = "running" => Kept(Zip))
    /\ accepted \subseteq Taken(Zip)
    /\ Files \ disk \subseteq Content(Zip) \cup Zip.torn

KeptInv == NothingYet /\ AllKept

\* The history of a compressor.
LEMMA Remembered ==
  ASSUME Remember
  PROVE  /\ compressor' = <<>> => accepted' = accepted
         /\ \A z : compressor' = <<z>> => accepted' = accepted \cup z.queue
<1>1. CASE compressor' = <<>>
  <2>1. {compressor'[n].queue : n \in DOMAIN compressor'} = {}
    BY <1>1
  <2> QED
    BY <1>1, <2>1 DEF Remember
<1>2. ASSUME NEW z, compressor' = <<z>> PROVE accepted' = accepted \cup z.queue
  <2>1. {compressor'[n].queue : n \in DOMAIN compressor'} = {z.queue}
    BY <1>2
  <2> QED
    BY <2>1 DEF Remember
<1> QED
  BY <1>1, <1>2

LEMMA AgentKept ==
  ASSUME AgentInv, KeptInv, Agent
  PROVE  KeptInv'
<1>1. /\ Types /\ Compressing /\ NothingYet /\ AllKept
      /\ compressor' = <<>> => accepted' = accepted
      /\ \A z : compressor' = <<z>> => accepted' = accepted \cup z.queue
  BY Remembered DEF AgentInv, KeptInv, Agent
<1>2. CASE Skips
  <2>1. UNCHANGED <<compressor, disk>> /\ archiving = "running" /\ Zip' = Zip
    BY <1>2 DEF Skips, Asked, Zip
  <2>2. CASE compressor = <<>>
    BY <1>1, <2>1, <2>2 DEF NothingYet, AllKept, KeptInv
  <2>3. CASE compressor # <<>>
    <3>1. accepted' = accepted \cup Zip.queue
      BY <1>1, <2>1, <2>3, ZipTyped DEF Types
    <3>2. /\ Whole(Zip) /\ Kept(Zip) /\ accepted \subseteq Taken(Zip)
          /\ Files \ disk \subseteq Content(Zip) \cup Zip.torn
      BY <1>1, <2>1, <2>3 DEF AllKept
    <3>3. accepted' \subseteq Taken(Zip)
      BY <3>1, <3>2 DEF Taken
    <3>4. Whole(Zip)' /\ Kept(Zip)' /\ (accepted \subseteq Taken(Zip))' /\ (Files \ disk \subseteq Content(Zip) \cup Zip.torn)'
      BY <2>1, <3>2, <3>3 DEF Whole, Kept, Taken, Content
    <3> QED
      BY <2>1, <2>3, <3>4 DEF NothingYet, AllKept, KeptInv
  <2> QED
    BY <2>2, <2>3
<1>3. ASSUME NEW z \in Compressors, compressor' = <<z>>, Whole(z), archiving' = "running" => Kept(z),
             accepted \subseteq Taken(z), Files \ disk' \subseteq Content(z) \cup z.torn
      PROVE  KeptInv'
  <2>1. Zip' = z /\ accepted' = accepted \cup z.queue /\ compressor' # <<>>
    BY <1>1, <1>3 DEF Zip
  <2>2. accepted' \subseteq Taken(z)
    BY <1>3, <2>1 DEF Taken
  <2>3. Whole(Zip)' /\ (archiving = "running" => Kept(Zip))' /\ (accepted \subseteq Taken(Zip))'
        /\ (Files \ disk \subseteq Content(Zip) \cup Zip.torn)'
    BY <1>3, <2>1, <2>2 DEF Whole, Kept, Taken, Content
  <2> QED
    BY <2>1, <2>3 DEF NothingYet, AllKept, KeptInv
<1>4. CASE Opens
  <2>1. PICK z \in {NewCompressor, Unready} : compressor = <<>> /\ compressor' = <<z>> /\ disk' = disk
    BY <1>4 DEF Opens
  <2>2. accepted = {} /\ Files \ disk = {}
    BY <1>1, <2>1 DEF NothingYet
  <2>3. Kept(z) /\ Whole(z) /\ z \in Compressors
    BY NewZip, UnreadyZip, KeptWhole DEF Kept, Indexed
  <2> QED
    BY <1>3, <2>1, <2>2, <2>3
<1>5. ASSUME NEW z \in Compressors, NEW yes \in SUBSET Items, NEW no \in SUBSET Items, AddsTo(z, yes, no)
      PROVE  KeptInv'
  <2>1. /\ compressor # <<>> /\ compressor' = <<z>> /\ archiving = "running" /\ disk' = disk
        /\ z.queue = Zip.queue \cup yes
        /\ z.items = Zip.items /\ z.indexed = Zip.indexed /\ z.temp = Zip.temp
        /\ z.output = Zip.output /\ z.closed = Zip.closed /\ Content(z) = Content(Zip)
        /\ z.torn = Zip.torn
    BY <1>5 DEF AddsTo, Asked
  <2>2. /\ Whole(Zip) /\ Kept(Zip) /\ accepted \subseteq Taken(Zip)
        /\ Files \ disk \subseteq Content(Zip) \cup Zip.torn
    BY <1>1, <2>1 DEF AllKept
  <2>3. Whole(z) /\ Kept(z) /\ Taken(Zip) \subseteq Taken(z)
    BY <2>1, <2>2 DEF Whole, Kept, Taken
  <2> QED
    BY <1>3, <2>1, <2>2, <2>3
<1>6. ASSUME NEW z \in Compressors, Writes(z)
      PROVE  KeptInv'
  <2>1. /\ Asked /\ compressor # <<>> /\ compressor' = <<z>> /\ Indexed(z)
        /\ Content(Zip) \subseteq Content(z)
        /\ (Files \cap disk) \ Closed(Zip, z) \subseteq disk'
        /\ Kept(Zip) => /\ Whole(z) /\ Taken(z) = Taken(Zip) /\ Zip.torn \subseteq z.torn
                        /\ archiving' = "running" => Kept(z)
    BY <1>6 DEF Writes
  <2>2. /\ Kept(Zip) /\ accepted \subseteq Taken(Zip) /\ Files \ disk \subseteq Content(Zip) \cup Zip.torn
    BY <1>1, <2>1 DEF AllKept, Asked
  <2>3. /\ Whole(z) /\ Taken(z) = Taken(Zip) /\ Zip.torn \subseteq z.torn
        /\ archiving' = "running" => Kept(z)
    BY <2>1, <2>2
  <2>4. Closed(Zip, z) \subseteq Content(z) \cup z.torn
    BY <2>3 DEF Closed, Whole
  <2>5. Files \ disk' \subseteq Content(z) \cup z.torn
    BY <2>1, <2>2, <2>3, <2>4
  <2> QED
    BY <1>3, <2>1, <2>2, <2>3, <2>5
<1> QED
  BY <1>1, <1>2, <1>4, <1>5, <1>6, AgentEffect DEF Types, Agent

LEMMA KeptInvariant == Spec => []KeptInv
<1>1. Init => KeptInv
  BY DEF Init, AgentInit, KeptInv, NothingYet, AllKept
<1>2. ASSUME AgentInv, KeptInv, [Next]_vars PROVE KeptInv'
  <2>1. CASE Agent
    BY <1>2, <2>1, AgentKept
  <2>2. ASSUME UNCHANGED <<archiving, compressor, accepted>>, Files \cap disk \subseteq disk'
        PROVE  KeptInv'
    <3>1. Zip' = Zip
      BY <2>2 DEF Zip
    <3> QED
      BY <1>2, <2>2, <3>1 DEF KeptInv, NothingYet, AllKept, Whole, Kept, Taken, Content
  <2>3. CASE \E d \in Dirs : RemoveDirectoryHandler(d)
    <3>1. PICK d \in Dirs : RemoveDirectoryHandler(d)
      BY <2>3
    <3>2. d \notin Files
      BY ArchiveAssumption
    <3>3. Files \cap disk \subseteq disk' /\ UNCHANGED <<archiving, compressor, accepted>>
      BY <3>1, <3>2 DEF RemoveDirectoryHandler
    <3> QED
      BY <2>2, <3>3
  <2>4. CASE (\E b \in Batches : SendBatch(b)) \/ SendComplete \/ Terminate \/ Finished \/ UNCHANGED vars
    <3>1. UNCHANGED <<archiving, compressor, accepted, disk>>
      BY <2>4 DEF SendBatch, SendComplete, Terminate, Finished, vars, agentVars
    <3> QED
      BY <2>2, <3>1
  <2> QED
    BY <1>2, <2>1, <2>3, <2>4 DEF Next
<1> QED
  BY <1>1, <1>2, AgentInvariant, PTL DEF Spec

\* Whatever the compressor took is in the archive it completes, still in the queue it warns
\* about, or was to be written by an UpdateItems that failed as a whole.
THEOREM TakenIsArchived == Spec => []NothingLost
<1>1. ASSUME KeptInv PROVE NothingLost
  BY <1>1 DEF KeptInv, AllKept, NothingLost, Whole, Taken
<1> QED
  BY <1>1, KeptInvariant, PTL

\* A file is deleted only when an archive holds it, or an UpdateItems that failed as a whole was
\* to write it.
THEOREM DeletedIsArchived == Spec => []DeletedOnlyIfArchived
<1>1. ASSUME KeptInv PROVE DeletedOnlyIfArchived
  BY <1>1 DEF KeptInv, NothingYet, AllKept, DeletedOnlyIfArchived
<1> QED
  BY <1>1, KeptInvariant, PTL
=============================================================================
