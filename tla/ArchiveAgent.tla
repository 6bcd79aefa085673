---------------------------- MODULE ArchiveAgent ----------------------------
(***************************************************************************)
(* The archive agent of OrcLib/ArchiveAgent.cpp: one thread that takes the *)
(* messages of a buffer in order, drives a compressor (ZipCreate), and     *)
(* removes the directories it has archived.  A directory to remove has a   *)
(* termination handler (Robustness) as long as it waits.                   *)
(*                                                                         *)
(* The pending removals are a vector of objects that hold their handler;   *)
(* how the vector grows and shrinks moves and copies them, and that is     *)
(* modelled element by element.                                            *)
(***************************************************************************)
EXTENDS ZipCreate, Robustness

CONSTANTS
  Files,         \* the items that are files
  Dirs,          \* the directories to archive; also their handlers
  DirFiles       \* the files in each directory

ASSUME ArchiveAssumption ==
  /\ Files \subseteq Items /\ IsFiniteSet(Dirs)
  /\ DirFiles \in [Dirs -> SUBSET Files]
  /\ Dirs \subseteq Handlers /\ Dirs \cap Items = {}

VARIABLES
  inbox,         \* m_ArchiveMessageBuffer
  archiving,     \* the agent: "running", "done" or "crashed"
  compressor,    \* m_compressor: <<>> while there is none
  pending,       \* m_PendingCompletions
  room,          \* the capacity of that vector
  disk,          \* the files and directories that exist
  doomed,        \* the files opened to be deleted on close
  answers        \* how many notifications were sent of each item

agentVars == <<inbox, archiving, compressor, pending, room, disk, doomed, answers>>

Message(type, of, delete) == [type |-> type, of |-> of, delete |-> delete]
OpenArchive == Message("OpenArchive", "none", FALSE)
AddFile(f) == Message("AddFile", f, TRUE)
AddDirectory(d) == Message("AddDirectory", d, TRUE)
AddStream(i) == Message("AddStream", i, FALSE)
FlushQueue == Message("FlushQueue", "none", FALSE)
Complete == Message("Complete", "none", FALSE)

Messages ==
  {OpenArchive, FlushQueue, Complete} \cup {AddFile(f) : f \in Files}
    \cup {AddDirectory(d) : d \in Dirs} \cup {AddStream(i) : i \in Items \ Files}

\* The items a request adds.
Adds(m) ==
  IF m.type \in {"AddFile", "AddStream"} THEN {m.of}
  ELSE IF m.type = "AddDirectory" THEN DirFiles[m.of] ELSE {}

Removals == [dir: Dirs, object: {"Directory", "other"}, hr: {"pending", "ok"}]

AgentTypeOK ==
  /\ inbox \in Seq(Messages)
  /\ archiving \in {"running", "done", "crashed"}
  /\ compressor \in Seq(Compressors) /\ Len(compressor) <= 1
  /\ pending \in Seq(Removals) /\ room \in Nat
  /\ disk \subseteq Files \cup Dirs /\ doomed \subseteq Files
  /\ answers \in [Items -> Nat]

AgentInit(messages) ==
  /\ inbox = messages /\ archiving = "running" /\ compressor = <<>>
  /\ pending = <<>> /\ room = 0
  /\ doomed = {} /\ answers = [i \in Items |-> 0]

Zip == compressor[1]
Post(messages) == inbox' = inbox \o messages

Serving(type) == /\ archiving = "running" /\ inbox # <<>> /\ Head(inbox).type = type
Request == Head(inbox)
Served == inbox' = Tail(inbox)

\* Any request but OpenArchive uses m_compressor, null or not.
Crash ==
  /\ archiving = "running" /\ inbox # <<>> /\ compressor = <<>>
  /\ \/ Request.type \in {"AddFile", "AddStream", "FlushQueue", "Complete"}
     \/ Request.type = "AddDirectory" /\ DirFiles[Request.of] \cap disk # {}
  /\ archiving' = "crashed"
  /\ UNCHANGED <<inbox, compressor, pending, room, disk, doomed, answers>>

AgentOpen ==
  /\ Serving("OpenArchive") /\ Served
  /\ compressor' = IF compressor # <<>> THEN compressor ELSE <<NewCompressor>>
  /\ UNCHANGED <<archiving, pending, room, disk, doomed, answers, handlers>>

\* There is no compressor for an unknown format; one that cannot make its file
\* stays, without a format.
AgentOpenFails ==
  /\ Serving("OpenArchive") /\ Served
  /\ "open" \in Faults /\ compressor = <<>>
  /\ compressor' \in {<<>>, <<[NewCompressor EXCEPT !.ready = FALSE]>>}
  /\ UNCHANGED <<archiving, pending, room, disk, doomed, answers, handlers>>

\* A refused item is announced at once, an accepted one when it is archived.
AgentAdd ==
  /\ \/ Serving("AddFile") \/ Serving("AddStream")
  /\ Served /\ compressor # <<>>
  /\ \E r \in IF Request.of \in Files \ disk THEN {Result(Zip, "fail")}
                                             ELSE Additions(Zip, Request.of) :
       /\ compressor' = <<r.zip>>
       /\ doomed' = IF r.hr = "ok" /\ Request.delete THEN doomed \cup {Request.of} ELSE doomed
       /\ answers' = IF r.hr = "ok" THEN answers
                                    ELSE [answers EXCEPT ![Request.of] = @ + 1]
  /\ UNCHANGED <<archiving, pending, room, disk, handlers>>

\* The vector grows by half, at least by one.
Grown(n) == IF n \div 2 > 0 THEN n + n \div 2 ELSE n + 1

\* emplace_back: when the vector is full its elements are moved, and the move
\* leaves out m_object, which is then whatever was in the memory.
Emplaced(d) ==
  LET new == [dir |-> d, object |-> "Directory", hr |-> "pending"]
      Moved == {[n \in 1..Len(pending) |-> [pending[n] EXCEPT !.object = o[n]]]
                  : o \in [1..Len(pending) -> {"Directory", "other"}]}
  IN IF Len(pending) < room THEN {Append(pending, new)}
                            ELSE {Append(moved, new) : moved \in Moved}

\* Each file of the directory is added, and its removal is put on the list
\* with a termination handler, found or not.
AgentAddDirectory ==
  /\ Serving("AddDirectory") /\ Served
  /\ LET found == IF Request.of \in disk THEN DirFiles[Request.of] \cap disk ELSE {}
     IN /\ found = {} \/ compressor # <<>>
        /\ \E refused \in IF "add" \in Faults THEN SUBSET found ELSE {{}} :
             /\ compressor' = IF found = {} THEN compressor
                                ELSE <<[Zip EXCEPT !.queue = @ \cup (found \ refused)]>>
             /\ doomed' = IF Request.delete THEN doomed \cup (found \ refused) ELSE doomed
             /\ answers' = [i \in Items |-> answers[i] + IF i \in refused THEN 1 ELSE 0]
  /\ pending' \in Emplaced(Request.of)
  /\ room' = IF Len(pending) < room THEN room ELSE Grown(room)
  /\ AddTerminationHandler(Request.of)
  /\ UNCHANGED <<archiving, disk>>

\* RemoveDirectory needs an empty directory, and may be refused.
Removable(d, files) == d \in files /\ DirFiles[d] \cap files = {}

\* CompleteOnFlush, after the operation that left these files: every pending
\* directory is tried (each is on the list once).  remove_if copies the ones that stay to the front, and
\* erase destroys the last elements as they were, which removes the handlers
\* those hold.
CompleteOnFlush(files) ==
  \E refused \in IF "remove" \in Faults THEN SUBSET Dirs ELSE {{}} :
    LET removed(n) == /\ pending[n].object = "Directory"
                      /\ Removable(pending[n].dir, files)
                      /\ pending[n].dir \notin refused
        tried == [n \in 1..Len(pending) |->
                    IF removed(n) THEN [pending[n] EXCEPT !.hr = "ok"] ELSE pending[n]]
        kept == Only(tried, {p \in Removals : p.hr # "ok"})
    IN /\ pending' = kept
       /\ disk' = files \ {d \in Dirs : \E n \in DOMAIN tried :
                                         tried[n].dir = d /\ tried[n].hr = "ok"}
       /\ RemoveTerminationHandlers({tried[n].dir : n \in Len(kept) + 1..Len(tried)})

\* Mutant: each flush announces all that is archived so far.
AnnouncedAgain(before, after) == after.indexed

\* The items the archive callback announces.
Announced(before, after) == after.indexed \ before.indexed

\* A flush and its answers; CompleteOnFlush follows in any case.
Flushed(results, step) ==
  \E r \in results :
    IF r.hr = "crash"
      THEN /\ archiving' = "crashed"
           /\ UNCHANGED <<inbox, compressor, pending, disk, answers, handlers>>
      ELSE /\ Served
           /\ archiving' = step
           /\ compressor' = <<r.zip>>
           /\ answers' = [i \in Items |-> answers[i]
                            + IF i \in Announced(Zip, r.zip) THEN 1 ELSE 0]
           /\ CompleteOnFlush(disk \ (Closed(Zip, r.zip) \cap doomed))

AgentFlush ==
  /\ Serving("FlushQueue") /\ compressor # <<>>
  /\ Flushed(Flushes(Zip, FALSE), "running")
  /\ UNCHANGED <<room, doomed>>

\* Mutant: the agent goes on after Complete.
AgentCompleteOnly ==
  /\ Serving("Complete") /\ compressor # <<>>
  /\ Flushed(Completions(Zip), "running")
  /\ UNCHANGED <<room, doomed>>

\* The messages after Complete stay in the buffer.
AgentComplete ==
  /\ Serving("Complete") /\ compressor # <<>>
  /\ Flushed(Completions(Zip), "done")
  /\ UNCHANGED <<room, doomed>>

AgentStep ==
  \/ AgentOpen \/ AgentOpenFails
  \/ AgentAdd
  \/ AgentAddDirectory
  \/ AgentFlush
  \/ AgentComplete
  \/ Crash /\ UNCHANGED handlers
=============================================================================
