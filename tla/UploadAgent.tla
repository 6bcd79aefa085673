----------------------------- MODULE UploadAgent ----------------------------
(***************************************************************************)
(* The upload agent of OrcLib/UploadAgent.cpp with its two methods, the    *)
(* copy to a share (CopyFileAgent.cpp) and BITS (BITSAgent.cpp).  The      *)
(* agent serves a buffer of requests; after Complete a timer asks it to    *)
(* look whether its jobs are over, and it ends when they are.  A BITS job  *)
(* belongs to a service: it moves on its own, and calls back.  Left out are*)
(* the agent's notifications, which are logged, and the credentials and    *)
(* notifications of a job that cannot be set, which are logged as well.    *)
(***************************************************************************)
EXTENDS Integers, Sequences, FiniteSets

CONSTANTS
  Uploads,       \* the local files that may be uploaded
  Modes,         \* the configurations considered, out of AllModes
  Refusals       \* the failures considered, out of AllRefusals

AllModes == {"copy", "synchronous", "asynchronous"}

\* "copy": CopyFileEx fails.  "delete": DeleteFile fails.  "create": the job
\* cannot be made.  "resume": it cannot be started.  "error": it fails.
\* "range": it fails because the server has no ranges, and is then resumed in
\* the foreground.  "state": the state of a job cannot be had.
AllRefusals == {"copy", "delete", "create", "resume", "error", "range", "state"}

ASSUME UploadAssumption ==
  /\ IsFiniteSet(Uploads) /\ Modes \subseteq AllModes /\ Refusals \subseteq AllRefusals

VARIABLES
  mode,          \* m_config: the method, and the mode of BITS
  orders,        \* m_requestsource
  uploading,     \* the agent: "running" or "done"
  ready,         \* bIsReadyToBeDone; the refresh timer runs
  jobs,          \* m_jobs, and what BITS knows of each
  local,         \* the local files that exist
  remote,        \* the files the server has
  unread         \* history: the jobs whose state the last look could not have

uploadVars == <<mode, orders, uploading, ready, jobs, local, remote, unread>>

Order(type, file, move) == [type |-> type, file |-> file, move |-> move]
UploadFile(f, move) == Order("UploadFile", f, move)
UploadComplete == Order("Complete", "none", FALSE)
RefreshJobStatus == Order("RefreshJobStatus", "none", FALSE)

Orders == {UploadComplete, RefreshJobStatus} \cup {UploadFile(f, b) : f \in Uploads, b \in BOOLEAN}

\* "queued" stands for the states in progress in which BITS works on the job.
JobStates == {"queued", "suspended", "transferred", "error", "acknowledged", "failed"}
InProgress == {"queued", "suspended"}
Jobs == [file : Uploads, move : BOOLEAN, state : JobStates, foreground : BOOLEAN]

UploadTypeOK ==
  /\ mode \in Modes /\ orders \in Seq(Orders)
  /\ uploading \in {"running", "done"} /\ ready \in BOOLEAN
  /\ jobs \in Seq(Jobs)
  /\ local \subseteq Uploads /\ remote \subseteq Uploads /\ unread \subseteq DOMAIN jobs

UploadInit ==
  /\ mode \in Modes /\ orders = <<>> /\ uploading = "running" /\ ready = FALSE
  /\ jobs = <<>> /\ remote = {} /\ unread = {}

Ordered(type) ==
  /\ uploading = "running" /\ orders # <<>> /\ Head(orders).type = type
  /\ orders' = Tail(orders)

\* CopyFileAgent::UploadFile: the copy, then the deletion, each of which may
\* fail.  A file that is gone cannot be copied.
CopyFile(f, move) ==
  /\ UNCHANGED jobs
  /\ \/ /\ f \notin local \/ "copy" \in Refusals
        /\ UNCHANGED <<local, remote>>
     \/ /\ f \in local
        /\ remote' = remote \cup {f}
        /\ \/ local' = IF move THEN local \ {f} ELSE local
           \/ move /\ "delete" \in Refusals /\ UNCHANGED local

\* BITSAgent::UploadFile: one job for each file.  A job that cannot be resumed
\* stays suspended, and the upload is reported as begun.
CreateJob(f, move) ==
  /\ UNCHANGED <<local, remote>>
  /\ \/ "create" \in Refusals /\ UNCHANGED jobs
     \/ \E state \in {"queued"} \cup (IF "resume" \in Refusals THEN {"suspended"} ELSE {}) :
          jobs' = Append(jobs, [file |-> f, move |-> move, state |-> state,
                                foreground |-> FALSE])

\* No new upload is accepted once Complete has come.
AgentUpload ==
  /\ Ordered("UploadFile")
  /\ IF ready THEN UNCHANGED <<jobs, local, remote>>
     ELSE LET o == Head(orders)
          IN IF mode = "copy" THEN CopyFile(o.file, o.move) ELSE CreateJob(o.file, o.move)
  /\ UNCHANGED <<mode, uploading, ready, unread>>

\* Mutant: the timer is not started.
AgentCompleteUploadsUnready ==
  /\ Ordered("Complete")
  /\ UNCHANGED <<mode, uploading, ready, jobs, local, remote, unread>>

AgentCompleteUploads ==
  /\ Ordered("Complete") /\ ready' = TRUE
  /\ UNCHANGED <<mode, uploading, jobs, local, remote, unread>>

\* The timer sends again and again; at most one request waits here.
RefreshDue ==
  /\ ready /\ uploading = "running" /\ RefreshJobStatus \notin {orders[n] : n \in DOMAIN orders}
  /\ orders' = Append(orders, RefreshJobStatus)
  /\ UNCHANGED <<mode, uploading, ready, jobs, local, remote, unread>>

\* Mutant: the first job stands for all of them.
IsCompleteFirst(blind) ==
  mode # "synchronous" \/ jobs = <<>> \/ 1 \in blind \/ jobs[1].state \notin InProgress

\* IsComplete: a copy is complete, and BITS goes on alone when asynchronous.  A
\* job whose state cannot be had is passed over.
IsComplete(blind) ==
  mode # "synchronous" \/ \A n \in DOMAIN jobs \ blind : jobs[n].state \notin InProgress

AgentRefresh ==
  /\ Ordered("RefreshJobStatus")
  /\ \E blind \in IF "state" \in Refusals THEN SUBSET DOMAIN jobs ELSE {{}} :
       /\ uploading' = IF IsComplete(blind) THEN "done" ELSE "running"
       /\ unread' = blind
  /\ UNCHANGED <<mode, ready, jobs, local, remote>>

-----------------------------------------------------------------------------
Become(n, state) == jobs' = [jobs EXCEPT ![n].state = state]

\* BITS transfers the file, if it is still there.
JobTransfers(n) ==
  /\ jobs[n].state = "queued" /\ jobs[n].file \in local
  /\ Become(n, "transferred") /\ remote' = remote \cup {jobs[n].file}
  /\ UNCHANGED <<mode, orders, uploading, ready, local, unread>>

JobFails(n) ==
  /\ jobs[n].state = "queued"
  /\ jobs[n].file \notin local \/ "error" \in Refusals
  /\ Become(n, "error")
  /\ UNCHANGED <<mode, orders, uploading, ready, local, remote, unread>>

\* CNotifyInterface::JobTransferred, on a thread of BITS.
JobTransferred(n) ==
  /\ jobs[n].state = "transferred" /\ Become(n, "acknowledged")
  /\ local' \in {IF jobs[n].move THEN local \ {jobs[n].file} ELSE local}
                  \cup (IF "delete" \in Refusals THEN {local} ELSE {})
  /\ UNCHANGED <<mode, orders, uploading, ready, remote, unread>>

\* Mutant: the job is cancelled.
JobErrorCancels(n) ==
  /\ jobs[n].state = "error"
  /\ Become(n, "cancelled")
  /\ UNCHANGED <<mode, orders, uploading, ready, local, remote, unread>>

\* CNotifyInterface::JobError: reported, or resumed in the foreground (once);
\* when that fails the job keeps its error.
JobError(n) ==
  /\ jobs[n].state = "error"
  /\ \/ Become(n, "failed")
     \/ /\ "range" \in Refusals /\ ~jobs[n].foreground
        /\ jobs' = [jobs EXCEPT ![n].state = "queued", ![n].foreground = TRUE]
  /\ UNCHANGED <<mode, orders, uploading, ready, local, remote, unread>>

UploadStep ==
  \/ AgentUpload
  \/ AgentCompleteUploads
  \/ RefreshDue
  \/ AgentRefresh

JobStep(n) ==
  \/ JobTransfers(n)
  \/ JobFails(n)
  \/ JobTransferred(n)
  \/ JobError(n)
=============================================================================
