----------------------------- MODULE LocalExports -----------------------------
(***************************************************************************)
(* The export jobs of a worker without shared storage: class ExportJobs of *)
(* src/server/exports/exportJobs.ts.  Everything runs on one Node thread;  *)
(* an action is what runs between two awaits.                              *)
(***************************************************************************)
EXTENDS Naturals, Sequences, FiniteSets

CONSTANTS
  Jobs, Owners,
  OwnerOf,      \* the account that starts each job
  OwnerQuota,   \* jobs an account may keep (5)
  TotalQuota,   \* jobs kept in all (10)
  Slots,        \* jobs executing at once (2)
  ShortLived,   \* bound of this model: the jobs that may outlive their ttlMs
  MaxWaiting    \* bound of this model on the calls that await one job

VARIABLES
  jobs,      \* the map jobs, in insertion order
  status,    \* snapshot.status of each job, "none" before start
  stage,     \* where execute is: the awaits of a run
  aborted,   \* controller.signal.aborted
  expired,   \* expiresAt has passed
  file,      \* what is on disk under job.filename
  awaiting,  \* cancel, remove, cancelOwner and prune calls that await job.done
  closed

vars == <<jobs, status, stage, aborted, expired, file, awaiting, closed>>

Status == {"none", "queued", "running", "ready", "error", "cancelled", "removed"}
Stage == {"idle", "entering", "working", "checking", "cleaning", "over"}
File == {"none", "partial", "complete"}
\* A call that keeps the job in the map, removes it, or removes all of an owner.
Caller == {"cancel", "remove", "owner"}

TypeOK ==
  /\ jobs \in Seq(Jobs)
  /\ status \in [Jobs -> Status]
  /\ stage \in [Jobs -> Stage]
  /\ aborted \in [Jobs -> BOOLEAN] /\ expired \in [Jobs -> BOOLEAN]
  /\ file \in [Jobs -> File]
  /\ awaiting \in [Jobs -> SUBSET Caller]
  /\ closed \in BOOLEAN

Init ==
  /\ jobs = <<>>
  /\ status = [j \in Jobs |-> "none"]
  /\ stage = [j \in Jobs |-> "idle"]
  /\ aborted = [j \in Jobs |-> FALSE] /\ expired = [j \in Jobs |-> FALSE]
  /\ file = [j \in Jobs |-> "none"]
  /\ awaiting = [j \in Jobs |-> {}]
  /\ closed = FALSE

Kept == {jobs[i] : i \in DOMAIN jobs}
Without(T) == SelectSeq(jobs, LAMBDA k : k \notin T)
KeptOf(o) == {j \in Kept : OwnerOf[j] = o}
Executing == {j \in Jobs : stage[j] \notin {"idle", "over"}}
Settled(j) == stage[j] \in {"idle", "over"}       \* await job.done returns
Visible(j) == j \in Kept /\ ~expired[j]           \* get

-----------------------------------------------------------------------------
(* pump: start the first queued jobs that have a slot.  An event frees at  *)
(* most one slot, so at most one job starts.                               *)

\* Mutant of Eligible: a cancelled run is not counted as busy.
EligibleBesideCancelled(q, st, sg) ==
  LET busy == {j \in Jobs : sg[j] \notin {"idle", "over"} /\ st[j] # "cancelled"} IN
  {i \in DOMAIN q :
     /\ ~closed /\ Cardinality(busy) < Slots
     /\ st[q[i]] = "queued"
     /\ \A k \in busy : OwnerOf[k] # OwnerOf[q[i]]}

\* st and sg are the status and stage the caller leaves, q the kept jobs.
Eligible(q, st, sg) ==
  LET busy == {j \in Jobs : sg[j] \notin {"idle", "over"}} IN
  {i \in DOMAIN q :
     /\ ~closed /\ Cardinality(busy) < Slots
     /\ st[q[i]] = "queued"
     /\ \A k \in busy : OwnerOf[k] # OwnerOf[q[i]]}

Pump(q, st, sg) ==
  LET E == Eligible(q, st, sg) IN
  IF E = {}
  THEN status' = st /\ stage' = sg
  ELSE \E i \in E :
         /\ \A k \in E : i <= k
         /\ status' = [st EXCEPT ![q[i]] = "running"]
         /\ stage' = [sg EXCEPT ![q[i]] = "entering"]

Start(j) ==
  /\ ~closed /\ status[j] = "none"
  /\ Cardinality(KeptOf(OwnerOf[j])) < OwnerQuota
  /\ Len(jobs) < TotalQuota
  /\ jobs' = Append(jobs, j)
  /\ Pump(jobs', [status EXCEPT ![j] = "queued"], stage)
  /\ UNCHANGED <<aborted, expired, file, awaiting, closed>>

-----------------------------------------------------------------------------
(* execute.                                                                *)

\* The catch block up to its await.
Throw(j) ==
  /\ status' = [status EXCEPT ![j] = IF @ = "cancelled" THEN @ ELSE "error"]
  /\ stage' = [stage EXCEPT ![j] = "cleaning"]

\* The run opens its file as soon as it starts to work.
Enter(j) ==
  /\ stage[j] = "entering"
  /\ IF aborted[j] THEN Throw(j) /\ UNCHANGED file
     ELSE /\ stage' = [stage EXCEPT ![j] = "working"]
          /\ file' = [file EXCEPT ![j] = "partial"]
          /\ UNCHANGED status
  /\ UNCHANGED <<jobs, aborted, expired, awaiting, closed>>

\* run() returns; the signal is read, then the file size is awaited.
Written(j) ==
  /\ stage[j] = "working"
  /\ file' = [file EXCEPT ![j] = "complete"]
  /\ IF aborted[j] THEN Throw(j)
     ELSE stage' = [stage EXCEPT ![j] = "checking"] /\ UNCHANGED status
  /\ UNCHANGED <<jobs, aborted, expired, awaiting, closed>>

\* run() throws, or the file is missing or too large.
Break(j) ==
  /\ stage[j] \in {"working", "checking"}
  /\ Throw(j)
  /\ UNCHANGED <<jobs, aborted, expired, file, awaiting, closed>>

\* fs.stat has answered: the job is ready, its slot is free.
Check(j) ==
  /\ stage[j] = "checking" /\ file[j] = "complete"
  /\ Pump(jobs, [status EXCEPT ![j] = "ready"], [stage EXCEPT ![j] = "over"])
  /\ UNCHANGED <<jobs, aborted, expired, file, awaiting, closed>>

\* Mutant of Clean: the end of a failed run starts no other job.
CleanWithoutPump(j) ==
  /\ stage[j] = "cleaning"
  /\ file' = [file EXCEPT ![j] = "none"]
  /\ stage' = [stage EXCEPT ![j] = "over"]
  /\ UNCHANGED <<jobs, status, aborted, expired, awaiting, closed>>

\* The failed run's file is gone, its slot is free.
Clean(j) ==
  /\ stage[j] = "cleaning"
  /\ file' = [file EXCEPT ![j] = "none"]
  /\ Pump(jobs, status, [stage EXCEPT ![j] = "over"])
  /\ UNCHANGED <<jobs, aborted, expired, awaiting, closed>>

TimeOut(j) ==
  /\ j \in Executing
  /\ aborted' = [aborted EXCEPT ![j] = TRUE]
  /\ UNCHANGED <<jobs, status, stage, expired, file, awaiting, closed>>

-----------------------------------------------------------------------------
(* cancel, remove, cancelOwner, prune, close: up to the await, and after.  *)

Abort(T) == aborted' = [j \in Jobs |-> aborted[j] \/ j \in T]
CancelAll(T) == status' = [j \in Jobs |-> IF j \in T THEN "cancelled" ELSE status[j]]
AwaitDone(T, caller) ==
  /\ \A j \in T : Cardinality(awaiting[j]) < MaxWaiting
  /\ awaiting' = [j \in Jobs |-> IF j \in T THEN awaiting[j] \cup {caller} ELSE awaiting[j]]

Cancel(j, caller) ==
  /\ Visible(j) /\ caller \in {"cancel", "remove"}
  /\ CancelAll({j}) /\ Abort({j}) /\ AwaitDone({j}, caller)
  /\ UNCHANGED <<jobs, stage, expired, file, closed>>

\* remove of a job that expired after the route looked it up: cancel does
\* nothing, the job leaves the map.
RemoveExpired(j) ==
  /\ j \in Kept /\ expired[j]
  /\ jobs' = Without({j})
  /\ UNCHANGED <<status, stage, aborted, expired, file, awaiting, closed>>

CancelOwner(o) ==
  /\ KeptOf(o) # {}
  /\ CancelAll(KeptOf(o)) /\ Abort(KeptOf(o)) /\ AwaitDone(KeptOf(o), "owner")
  /\ UNCHANGED <<jobs, stage, expired, file, closed>>

Prune(j) ==
  /\ j \in Kept /\ expired[j]
  /\ Abort({j}) /\ AwaitDone({j}, "remove")
  /\ UNCHANGED <<jobs, status, stage, expired, file, closed>>

\* The records of settled jobs leave the map; nothing refers to them any more.
Drop(T) ==
  /\ jobs' = Without(T)
  /\ status' = [j \in Jobs |-> IF j \in T THEN "removed" ELSE status[j]]
  /\ aborted' = [j \in Jobs |-> aborted[j] /\ j \notin T]
  /\ expired' = [j \in Jobs |-> expired[j] /\ j \notin T]

Resume(j, caller) ==
  /\ caller \in awaiting[j] /\ Settled(j)
  /\ caller = "owner" =>
       \A k \in Jobs : "owner" \in awaiting[k] /\ OwnerOf[k] = OwnerOf[j] => Settled(k)
  /\ awaiting' = [awaiting EXCEPT ![j] = @ \ {caller}]
  /\ file' = [file EXCEPT ![j] = "none"]
  /\ IF caller = "cancel" THEN UNCHANGED <<jobs, status, aborted, expired>> ELSE Drop({j})
  /\ UNCHANGED <<stage, closed>>

Expire(j) ==
  /\ j \in Kept \cap ShortLived /\ ~expired[j]
  /\ expired' = [expired EXCEPT ![j] = TRUE]
  /\ UNCHANGED <<jobs, status, stage, aborted, file, awaiting, closed>>

Close ==
  /\ ~closed
  /\ closed' = TRUE /\ Abort(Kept)
  /\ UNCHANGED <<jobs, status, stage, expired, file, awaiting>>

\* Every run has ended: the directory goes with all that is in it.
RemoveDirectory ==
  /\ closed /\ jobs # <<>> /\ \A j \in Kept : Settled(j)
  /\ Drop(Kept)
  /\ file' = [j \in Jobs |-> "none"]
  /\ UNCHANGED <<stage, awaiting, closed>>

-----------------------------------------------------------------------------
Next ==
  \/ \E j \in Jobs :
       \/ Start(j) \/ Enter(j) \/ Written(j) \/ Break(j) \/ Check(j)
       \/ Clean(j) \/ TimeOut(j) \/ RemoveExpired(j) \/ Prune(j) \/ Expire(j)
       \/ \E caller \in Caller : Cancel(j, caller) \/ Resume(j, caller)
  \/ \E o \in Owners : CancelOwner(o)
  \/ Close \/ RemoveDirectory

Spec == Init /\ [][Next]_vars

(* Node resumes every await: runs end (their driver calls have time limits *)
(* and honour the signal), so do file operations.  Users owe nothing.      *)
Fairness ==
  /\ \A j \in Jobs :
       /\ WF_vars(Enter(j)) /\ WF_vars(Clean(j))
       /\ WF_vars(Written(j) \/ Break(j) \/ Check(j))
       /\ \A caller \in Caller : WF_vars(Resume(j, caller))
FairSpec == Spec /\ Fairness

-----------------------------------------------------------------------------
(* Safety.                                                                 *)

\* A cancelled run keeps its slot until its cleanup is over, so the database
\* never serves more than Slots exports, nor two of one account.
SlotsBounded ==
  /\ Cardinality(Executing) <= Slots
  /\ \A j, k \in Executing : j # k => OwnerOf[j] # OwnerOf[k]

\* No slot idles while a queued job could have it: every end of a run, also of
\* a cancelled or removed one, starts the next job.
NoIdleSlot == Eligible(jobs, status, stage) = {}

-----------------------------------------------------------------------------
(* What no step may do.                                                    *)

\* "Cancellation changes the public status immediately": it is not taken back.
CancelIsFinal == [][\A j \in Jobs : status[j] = "cancelled" => status'[j] \in {"cancelled", "removed"}]_vars

-----------------------------------------------------------------------------
(* Liveness.                                                               *)

\* Every queued job gets its turn, or its user or the shutdown ends it.
QueuedJobsMove ==
  \A j \in Jobs : status[j] = "queued" ~> (status[j] # "queued" \/ j \notin Kept \/ closed)
===============================================================================
