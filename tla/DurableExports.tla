---------------------------- MODULE DurableExports ----------------------------
(***************************************************************************)
(* Downloads that survive a worker: the rows of table dbchat_exports       *)
(* (supabase/migrations/202610030006_durable_exports.sql), the objects in  *)
(* private storage, and class SupabaseExportJobs of                        *)
(* src/server/exports/supabaseExportJobs.ts on every worker.               *)
(*                                                                         *)
(* A procedure is one transaction, hence one step.  A remote call either   *)
(* is answered, or fails with or without effect, or fails and takes effect *)
(* later (late).  Clocks appear as the moment at which a term is over:     *)
(* renewing a lease that is alive leaves it alive; cleanup_after, which    *)
(* only spaces the cleanup passes, is left out.                            *)
(***************************************************************************)
EXTENDS Naturals, FiniteSets

CONSTANTS
  Exports, Owners, Workers,
  OwnerOf, WorkerOf,   \* who asks for each export, and which worker is asked
  OwnerQuota,          \* rows an account may hold (5)
  TotalQuota,          \* rows held in all (10)
  Slots,               \* exports executing at once (2)
  Mortal,              \* bound of this model: the workers that may close or crash
  Tokens,              \* bound of this model: cleanup passes at one time
  MaxLate              \* bound of this model: calls that execute after their caller gave up

ASSUME DurableAssumption ==
  /\ OwnerOf \in [Exports -> Owners] /\ WorkerOf \in [Exports -> Workers]
  /\ OwnerQuota \in Nat /\ TotalQuota \in Nat /\ Slots \in Nat /\ MaxLate \in Nat
  /\ IsFiniteSet(Exports) /\ Mortal \subseteq Workers

VARIABLES
  row,      \* the table; status "none" before and "gone" after the row exists
  stored,   \* the object keys present in storage
  upload,   \* the uploads on their way to storage
  gate,     \* the accounts whose deletion has been committed
  pass,     \* what each cleanup pass does next: [at, export]
  stage,    \* where the worker of an export stands
  aborted,  \* controller.signal.aborted
  up,       \* the workers that run
  closed,   \* the workers that are shutting down
  late      \* calls whose caller gave up: <<"tick" | "start" | a status, export>>

vars == <<row, stored, upload, gate, pass, stage, aborted, up, closed, late>>
rows == <<row, gate>>
worker == <<stage, aborted, up, closed>>

Open == {"queued", "running"}
Outcome == {"ready", "error", "cancelled"}
Status == {"none", "gone"} \cup Open \cup Outcome
\* "idle": not in the map jobs.  "listed": in it, no run yet.  Then the awaits of execute.
Stage == {"idle", "listed", "entering", "working", "checking", "uploading", "publishing", "failing"}
Running(e) == stage[e] \notin {"idle", "listed"}

\* tomb: the 24 hours that a removed row is kept after its object.  "set" until
\* no upload can land any more, then "late", then "over".
Row == [status : Status, executing : BOOLEAN, alive : BOOLEAN, expired : BOOLEAN,
        removed : BOOLEAN, objectDeleted : BOOLEAN, token : Tokens \cup {"none"},
        claimed : BOOLEAN, tomb : {"none", "set", "late", "over"}]

Blank == [status |-> "none", executing |-> FALSE, alive |-> FALSE, expired |-> FALSE,
          removed |-> FALSE, objectDeleted |-> FALSE, token |-> "none",
          claimed |-> FALSE, tomb |-> "none"]

LateCall == ({"tick", "start", "delete"} \cup Outcome) \X Exports

TypeOK ==
  /\ row \in [Exports -> Row]
  /\ stored \subseteq Exports /\ upload \subseteq Exports
  /\ gate \subseteq Owners
  /\ pass \in [Tokens -> [at : {"idle", "deleting", "ending"}, export : Exports \cup {"none"}]]
  /\ stage \in [Exports -> Stage]
  /\ aborted \in [Exports -> BOOLEAN]
  /\ up \subseteq Workers /\ closed \subseteq Workers
  /\ late \subseteq LateCall

NoPass == [at |-> "idle", export |-> "none"]

Init ==
  /\ row = [e \in Exports |-> Blank]
  /\ stored = {} /\ upload = {} /\ gate = {}
  /\ pass = [t \in Tokens |-> NoPass]
  /\ stage = [e \in Exports |-> "idle"]
  /\ aborted = [e \in Exports |-> FALSE]
  /\ up = Workers /\ closed = {} /\ late = {}

Exists(e) == row[e].status \notin {"none", "gone"}
ExportsOf(o) == {e \in Exports : OwnerOf[e] = o}

-----------------------------------------------------------------------------
(* The procedures.  Each operator gives the rows its transaction leaves.   *)

\* An expired row whose object is known to be gone no longer counts.
Held(S) == {e \in S : Exists(e) /\ (~row[e].objectDeleted \/ (~row[e].removed /\ ~row[e].expired))}
\* dbchat_export_create
MayCreate(e) ==
  /\ row[e].status = "none"
  /\ OwnerOf[e] \notin gate
  /\ Cardinality(Held(ExportsOf(OwnerOf[e]))) < OwnerQuota
  /\ Cardinality(Held(Exports)) < TotalQuota
Created(e) == [row EXCEPT ![e] = [Blank EXCEPT !.status = "queued", !.alive = TRUE]]

Executing == {e \in Exports : row[e].executing /\ row[e].alive}
SlotFree(e) ==
  /\ Cardinality(Executing) < Slots
  /\ Executing \cap ExportsOf(OwnerOf[e]) = {}

\* Mutant of Ticked: a heartbeat renews a lease that is over.
TickedLate(e, start) ==
  LET r == row[e]
      over == r.expired \/ OwnerOf[e] \in gate
      starts == start /\ r.status = "queued" /\ ~over /\ SlotFree(e)
  IN IF r.status \notin Open \cup {"cancelled"} THEN row
     ELSE [row EXCEPT ![e].status = IF over THEN "cancelled" ELSE IF starts THEN "running" ELSE @,
                      ![e].executing = @ \/ starts,
                      ![e].alive = TRUE]

\* dbchat_export_tick
Ticked(e, start) ==
  LET r == row[e]
      over == r.expired \/ OwnerOf[e] \in gate
      starts == start /\ r.status = "queued" /\ ~over /\ SlotFree(e)
  IN IF ~r.alive \/ r.status \notin Open \cup {"cancelled"} THEN row
     ELSE [row EXCEPT ![e].status = IF over THEN "cancelled" ELSE IF starts THEN "running" ELSE @,
                      ![e].executing = @ \/ starts]

\* dbchat_export_finish raises: nothing changes, the caller gets an error.
FinishRaises(e, s) ==
  \/ ~row[e].alive \/ ~Exists(e)
  \/ /\ s = "ready" /\ row[e].status \notin {"ready", "error"}
     /\ OwnerOf[e] \in gate \/ row[e].status # "running" \/ row[e].expired

\* Mutant of Finished: the answer to a repeated call overwrites the outcome.
FinishedAgain(e, s) ==
  IF FinishRaises(e, s) THEN row
  ELSE [row EXCEPT ![e].executing = FALSE, ![e].status = IF @ = "cancelled" THEN @ ELSE s]

Finished(e, s) ==
  IF FinishRaises(e, s) \/ row[e].status \in {"ready", "error"} THEN row
  ELSE [row EXCEPT ![e].executing = FALSE, ![e].status = IF @ = "cancelled" THEN @ ELSE s]

\* dbchat_export_cancel, for one export or all of an account.
CancelRows(S, remove) ==
  [e \in Exports |->
     IF e \in S /\ Exists(e)
     THEN [row[e] EXCEPT !.status = "cancelled", !.removed = @ \/ remove] ELSE row[e]]

\* dbchat_export_stop_worker
StopWorkerRows(w) ==
  [e \in Exports |->
     IF WorkerOf[e] = w /\ row[e].status \in Open
     THEN [row[e] EXCEPT !.status = "cancelled"] ELSE row[e]]

\* Mutant of Interrupted: only exports that never started are given up.
InterruptedQueued(r) ==
  IF ~r.alive /\ r.status = "queued" THEN [r EXCEPT !.status = "error"] ELSE r

\* The two updates at the head of dbchat_export_cleanup_claim.
Interrupted(r) ==
  IF ~r.alive /\ (r.status \in Open \/ (r.status = "cancelled" /\ r.executing))
  THEN [r EXCEPT !.status = "error", !.executing = FALSE] ELSE r
Outdated(r) == IF r.expired /\ r.status \in Open \cup {"ready"} THEN [r EXCEPT !.status = "cancelled"] ELSE r
Swept == [e \in Exports |-> Outdated(Interrupted(row[e]))]

\* Mutant of MayClean: an object that was deleted once is not deleted again.
MayCleanOnce(r) ==
  /\ r.status \notin {"none", "gone"} /\ ~r.executing
  /\ r.expired \/ r.removed \/ r.status \in {"cancelled", "error"}
  /\ ~r.objectDeleted /\ ~r.claimed

MayClean(r) ==
  /\ r.status \notin {"none", "gone"} /\ ~r.executing
  /\ r.expired \/ r.removed \/ r.status \in {"cancelled", "error"}
  /\ ~r.objectDeleted \/ r.expired \/ r.removed
  /\ ~r.claimed

\* dbchat_export_cleanup_finish
Cleaned(e, t) ==
  IF row[e].token # t \/ ~row[e].claimed THEN row
  ELSE IF row[e].tomb = "over" THEN [row EXCEPT ![e] = [Blank EXCEPT !.status = "gone"]]
  ELSE [row EXCEPT ![e] =
          [row[e] EXCEPT !.objectDeleted = TRUE, !.token = "none", !.claimed = FALSE,
                         !.tomb = IF @ = "none" /\ (row[e].expired \/ row[e].removed) THEN "set" ELSE @]]

-----------------------------------------------------------------------------
(* SupabaseExportJobs: start and maintain.                                 *)

Hosted(e) == WorkerOf[e] \in up
Failed(call) == late' \in {late} \cup (IF Cardinality(late) < MaxLate THEN {late \cup {call}} ELSE {})
Leave(e) == stage' = [stage EXCEPT ![e] = "idle"] /\ aborted' = [aborted EXCEPT ![e] = FALSE]
Move(e, s) == stage' = [stage EXCEPT ![e] = s] /\ UNCHANGED aborted

\* A lost answer leaves a row no worker runs.
Start(e) ==
  /\ Hosted(e) /\ WorkerOf[e] \notin closed /\ MayCreate(e)
  /\ row' = Created(e)
  /\ stage' \in {stage, [stage EXCEPT ![e] = "listed"]}
  /\ UNCHANGED <<stored, upload, gate, pass, aborted, up, closed, late>>

\* maintain meets a listed job that was aborted: it finishes it and forgets it.
PollAborted(e) ==
  /\ Hosted(e) /\ stage[e] = "listed" /\ aborted[e]
  /\ \/ row' = Finished(e, "cancelled") /\ UNCHANGED late
     \/ UNCHANGED row /\ Failed(<<"cancelled", e>>)
  /\ Leave(e)
  /\ UNCHANGED <<stored, upload, gate, pass, up, closed>>

Poll(e) ==
  /\ Hosted(e) /\ stage[e] # "idle" /\ ~(stage[e] = "listed" /\ aborted[e])
  /\ row' = Ticked(e, stage[e] = "listed" /\ WorkerOf[e] \notin closed)
  /\ IF ~row[e].alive \/ row'[e].status = "cancelled"
     THEN IF stage[e] = "listed" THEN Leave(e)
          ELSE aborted' = [aborted EXCEPT ![e] = TRUE] /\ UNCHANGED stage
     ELSE IF stage[e] = "listed" /\ row'[e].status = "running" THEN Move(e, "entering")
     ELSE UNCHANGED <<stage, aborted>>
  /\ UNCHANGED <<stored, upload, gate, pass, up, closed, late>>

\* "A failed heartbeat cannot be treated as evidence that ownership remains."
PollFails(w) ==
  /\ w \in up
  /\ \E e \in Exports :
       /\ WorkerOf[e] = w /\ stage[e] # "idle" /\ ~(stage[e] = "listed" /\ aborted[e])
       /\ LET start == stage[e] = "listed" /\ w \notin closed IN
          \/ row' = Ticked(e, start) /\ UNCHANGED late
          \/ UNCHANGED row /\ Failed(<<IF start THEN "start" ELSE "tick", e>>)
  /\ aborted' = [e \in Exports |-> aborted[e] \/ (WorkerOf[e] = w /\ stage[e] # "idle")]
  /\ UNCHANGED <<stored, upload, gate, pass, stage, up, closed>>

-----------------------------------------------------------------------------
(* execute, one action for each await.                                     *)

Enter(e) ==
  /\ stage[e] = "entering"
  /\ Move(e, IF aborted[e] THEN "failing" ELSE "working")
  /\ UNCHANGED <<rows, stored, upload, pass, up, closed, late>>

\* run returns or throws.
Work(e) ==
  /\ stage[e] = "working"
  /\ \E s \in {"checking", "failing"} : (aborted[e] => s = "failing") /\ Move(e, s)
  /\ UNCHANGED <<rows, stored, upload, pass, up, closed, late>>

\* Ownership is refreshed right before the upload; an aborted fetch sends nothing.
Check(e) ==
  /\ stage[e] = "checking"
  /\ row' = Ticked(e, FALSE)
  /\ IF row[e].alive /\ row'[e].status = "running" /\ ~aborted[e]
     THEN upload' = upload \cup {e} /\ Move(e, "uploading")
     ELSE Move(e, "failing") /\ UNCHANGED upload
  /\ UNCHANGED <<stored, gate, pass, up, closed, late>>

\* The file is missing or too large, or the call fails.
CheckFails(e) ==
  /\ stage[e] = "checking"
  /\ \/ row' = Ticked(e, FALSE) /\ UNCHANGED late
     \/ UNCHANGED row /\ Failed(<<"tick", e>>)
  /\ Move(e, "failing")
  /\ UNCHANGED <<stored, upload, gate, pass, up, closed>>

\* Storage has answered: the object has landed.
Uploaded(e) ==
  /\ stage[e] = "uploading" /\ e \notin upload
  /\ Move(e, IF aborted[e] THEN "failing" ELSE "publishing")
  /\ UNCHANGED <<rows, stored, upload, pass, up, closed, late>>

\* Timed out, aborted or refused: the object may land later, or never.
UploadFails(e) ==
  /\ stage[e] = "uploading"
  /\ Move(e, "failing")
  /\ upload' \in {upload, upload \ {e}}
  /\ UNCHANGED <<rows, stored, pass, up, closed, late>>

Publish(e) ==
  /\ stage[e] = "publishing"
  /\ row' = Finished(e, "ready")
  /\ IF FinishRaises(e, "ready") THEN Move(e, "failing") ELSE Leave(e)
  /\ UNCHANGED <<stored, upload, gate, pass, up, closed, late>>

PublishFails(e) ==
  /\ stage[e] = "publishing"
  /\ \/ row' = Finished(e, "ready") /\ UNCHANGED late
     \/ UNCHANGED row /\ Failed(<<"ready", e>>)
  /\ Move(e, "failing")
  /\ UNCHANGED <<stored, upload, gate, pass, up, closed>>

\* The catch block ends a run that may have been published already.
Fail(e) ==
  /\ stage[e] = "failing"
  /\ LET s == IF aborted[e] THEN "cancelled" ELSE "error" IN
     \/ row' = Finished(e, s) /\ UNCHANGED late
     \/ UNCHANGED row /\ Failed(<<s, e>>)
  /\ Leave(e)
  /\ UNCHANGED <<stored, upload, gate, pass, up, closed>>

TimeOut(e) ==
  /\ Running(e)
  /\ aborted' = [aborted EXCEPT ![e] = TRUE]
  /\ UNCHANGED <<rows, stored, upload, pass, stage, up, closed, late>>

-----------------------------------------------------------------------------
(* Users, account deletion, shutdown, crash.                               *)

\* cancel and remove, asked of any worker; only the one that runs it aborts it.
Cancel(e, remove, w) ==
  /\ Exists(e) /\ w \in up
  /\ row' = CancelRows({e}, remove)
  /\ aborted' = [aborted EXCEPT ![e] = @ \/ (w = WorkerOf[e] /\ stage[e] # "idle")]
  /\ UNCHANGED <<stored, upload, gate, pass, stage, up, closed, late>>

BeginDeletion(o) ==
  /\ gate' = gate \cup {o} /\ o \notin gate
  /\ UNCHANGED <<row, stored, upload, pass, stage, aborted, up, closed, late>>

\* cancelOwner, called by the worker that advances the deletion.
CancelOwner(o, w) ==
  /\ o \in gate /\ w \in up
  /\ row' = CancelRows(ExportsOf(o), TRUE)
  /\ aborted' = [e \in Exports |-> aborted[e] \/ (e \in ExportsOf(o) /\ w = WorkerOf[e] /\ stage[e] # "idle")]
  /\ UNCHANGED <<stored, upload, gate, pass, stage, up, closed, late>>

Close(w) ==
  /\ w \in (up \cap Mortal) \ closed
  /\ closed' = closed \cup {w}
  /\ aborted' = [e \in Exports |-> aborted[e] \/ (WorkerOf[e] = w /\ stage[e] # "idle")]
  /\ row' \in {row, StopWorkerRows(w)}
  /\ UNCHANGED <<stored, upload, gate, pass, stage, up, late>>

Crash(w) ==
  /\ w \in up \cap Mortal
  /\ up' = up \ {w}
  /\ stage' = [e \in Exports |-> IF WorkerOf[e] = w THEN "idle" ELSE stage[e]]
  /\ aborted' = [e \in Exports |-> aborted[e] /\ WorkerOf[e] # w]
  /\ UNCHANGED <<rows, stored, upload, pass, closed, late>>

-----------------------------------------------------------------------------
(* cleanup, on any worker.  A pass in "deleting" or "ending" has its call   *)
(* on the way; the worker that gave it up may be gone.                     *)

Fresh(t) == pass[t] = NoPass /\ \A e \in Exports : row[e].token = t => ~row[e].claimed

Claim(t, e) ==
  /\ up # {} /\ Fresh(t) /\ MayClean(Swept[e])
  /\ row' = [Swept EXCEPT ![e].token = t, ![e].claimed = TRUE]
  /\ pass' \in {pass, [pass EXCEPT ![t] = [at |-> "deleting", export |-> e]]}
  /\ UNCHANGED <<stored, upload, gate, worker, late>>

\* Nothing to claim, or another transaction comes between update and claim.
Sweep ==
  /\ up # {} /\ Swept # row /\ row' = Swept
  /\ UNCHANGED <<stored, upload, gate, pass, worker, late>>

Delete(t) ==
  /\ pass[t].at = "deleting"
  /\ stored' = stored \ {pass[t].export}
  /\ pass' = [pass EXCEPT ![t].at = "ending"]
  /\ UNCHANGED <<rows, upload, worker, late>>

\* The pass ends here; its DELETE may still be executed later.
DeleteFails(t) ==
  /\ pass[t].at = "deleting"
  /\ pass' = [pass EXCEPT ![t] = NoPass]
  /\ Failed(<<"delete", pass[t].export>>)
  /\ UNCHANGED <<rows, stored, upload, worker>>

EndCleanup(t) ==
  /\ pass[t].at = "ending"
  /\ row' = Cleaned(pass[t].export, t)
  /\ pass' = [pass EXCEPT ![t] = NoPass]
  /\ UNCHANGED <<stored, upload, gate, worker, late>>

GiveUp(t) ==
  /\ pass[t].at = "ending"
  /\ pass' = [pass EXCEPT ![t] = NoPass]
  /\ UNCHANGED <<rows, stored, upload, worker, late>>

-----------------------------------------------------------------------------
(* Storage and time.                                                       *)

Land(e) ==
  /\ e \in upload
  /\ upload' = upload \ {e} /\ stored' = stored \cup {e}
  /\ UNCHANGED <<rows, pass, worker, late>>

\* An upload whose caller is gone may come to nothing.
Vanish(e) ==
  /\ e \in upload /\ stage[e] # "uploading"
  /\ upload' = upload \ {e}
  /\ UNCHANGED <<rows, stored, pass, worker, late>>

ExecuteLate(call) ==
  /\ call \in late
  /\ late' = late \ {call}
  /\ LET op == call[1]  e == call[2] IN
     /\ row' = CASE op = "tick" -> Ticked(e, FALSE)
                 [] op = "start" -> Ticked(e, TRUE)
                 [] op = "delete" -> row
                 [] OTHER -> Finished(e, op)
     /\ stored' = IF op = "delete" THEN stored \ {e} ELSE stored
  /\ UNCHANGED <<upload, gate, pass, worker>>

Pass(e, r) == row' = [row EXCEPT ![e] = r] /\ UNCHANGED <<stored, upload, gate, pass, worker, late>>

LeaseEnds(e) == row[e].alive /\ Pass(e, [row[e] EXCEPT !.alive = FALSE])
Expire(e) == Exists(e) /\ ~row[e].expired /\ Pass(e, [row[e] EXCEPT !.expired = TRUE])
ClaimEnds(e) == row[e].claimed /\ Pass(e, [row[e] EXCEPT !.claimed = FALSE])
\* Uploads land within the 24 hours, and leave an instant without a claim.
NoMoreUploads(e) ==
  /\ row[e].tomb = "set" /\ e \notin upload /\ ~row[e].claimed
  /\ Pass(e, [row[e] EXCEPT !.tomb = "late"])
TombstoneEnds(e) == row[e].tomb = "late" /\ Pass(e, [row[e] EXCEPT !.tomb = "over"])

-----------------------------------------------------------------------------
RunStep(e) ==
  \/ Enter(e) \/ Work(e) \/ Check(e) \/ CheckFails(e) \/ Uploaded(e)
  \/ UploadFails(e) \/ Publish(e) \/ PublishFails(e) \/ Fail(e)
Next ==
  \/ \E e \in Exports :
       \/ Start(e) \/ Poll(e) \/ PollAborted(e) \/ RunStep(e) \/ TimeOut(e)
       \/ Land(e) \/ Vanish(e)
       \/ LeaseEnds(e) \/ Expire(e) \/ ClaimEnds(e)
       \/ NoMoreUploads(e) \/ TombstoneEnds(e)
       \/ \E remove \in BOOLEAN, w \in Workers : Cancel(e, remove, w)
       \/ \E t \in Tokens : Claim(t, e)
  \/ \E o \in Owners : BeginDeletion(o) \/ \E w \in Workers : CancelOwner(o, w)
  \/ \E w \in Workers : PollFails(w) \/ Close(w) \/ Crash(w)
  \/ Sweep
  \/ \E t \in Tokens : Delete(t) \/ DeleteFails(t) \/ EndCleanup(t) \/ GiveUp(t)
  \/ \E call \in late : ExecuteLate(call)

Spec == Init /\ [][Next]_vars

(* A worker that is up polls, its runs and calls end (timeoutMs, 60 s and  *)
(* 15 s), uploads land or come to nothing, terms end when nobody renews    *)
(* them.  Cleanup passes repeat: storage and the registry sometimes answer *)
(* within a claim's 90 s.                                                  *)
Fairness ==
  /\ \A t \in Tokens : WF_vars(Delete(t) \/ DeleteFails(t) \/ EndCleanup(t) \/ GiveUp(t))
  /\ \A e \in Exports :
       /\ WF_vars(Poll(e) \/ PollAborted(e) \/ PollFails(WorkerOf[e]))
       /\ WF_vars(RunStep(e) /\ Hosted(e))
       /\ WF_vars(Land(e) \/ Vanish(e))
       /\ WF_vars(LeaseEnds(e) /\ stage[e] = "idle")
       /\ WF_vars(Expire(e)) /\ WF_vars(ClaimEnds(e))
       /\ SF_vars(NoMoreUploads(e)) /\ WF_vars(TombstoneEnds(e))
       /\ SF_vars(\E t \in Tokens : Claim(t, e) /\ pass'[t].at = "deleting")
       /\ SF_vars(\E t \in Tokens : Delete(t) /\ row[e].token = t /\ row[e].claimed)
       /\ SF_vars(\E t \in Tokens : EndCleanup(t) /\ row[e].token = t /\ row[e].claimed)
FairSpec == Spec /\ Fairness

-----------------------------------------------------------------------------
(* Safety.                                                                 *)

\* A download that is offered has its object: nothing that is published, or
\* still could be, is ever claimed by a cleanup, however late its DELETE.
ReadyIsStored == \A e \in Exports : row[e].status = "ready" => e \in stored

\* "Cleanup must remain discoverable": as long as an object is in storage, or may
\* still land there, its row exists.
ObjectsHaveRows == \A e \in stored \cup upload : Exists(e)

\* The registry and the storage agree, in both directions.
RowsMatchObjects == TypeOK /\ ReadyIsStored /\ ObjectsHaveRows

-----------------------------------------------------------------------------
(* What no step may do.                                                    *)

\* Finish is idempotent and heartbeats revive nothing: no outcome goes back to
\* an open export or becomes ready, and what is ready is at most cancelled.
OutcomeIsFinal ==
  [][\A e \in Exports :
       /\ row[e].status \in {"error", "cancelled"} => row'[e].status \in {"error", "cancelled", "gone"}
       /\ row[e].status = "ready" => row'[e].status \in {"ready", "cancelled"}
       /\ Exists(e) /\ ~row[e].alive => ~row'[e].alive]_vars

\* cancelOwner has found nothing left: the account deletion that goes on may rely on it.
OwnerDrained(o) == \A e \in ExportsOf(o) : Exists(e) => ~row[e].executing /\ row[e].objectDeleted
DrainedExportsStayDrained == [][\A o \in gate : OwnerDrained(o) => OwnerDrained(o)']_vars

\* What is over stays over: no outcome changes, no drained account works again.
WhatIsOverStaysOver == OutcomeIsFinal /\ DrainedExportsStayDrained

-----------------------------------------------------------------------------
(* Liveness.                                                               *)

\* Every export ends and gives its slot back, whatever becomes of its worker.
ExportsEnd == \A e \in Exports : row[e].status \in Open ~> (row[e].status \notin Open /\ ~row[e].executing)

\* What expires or is removed leaves storage and the registry for good.
ExportsVanish == \A e \in Exports : (Exists(e) /\ row[e].removed) ~> [](row[e].status = "gone" /\ e \notin stored)
===============================================================================
