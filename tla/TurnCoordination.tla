--------------------------- MODULE TurnCoordination ---------------------------
(***************************************************************************)
(* The Node workers that run turns against TurnStore: POST /chat/turns and *)
(* runTurn of src/server/server.ts, with the WorkerCoordinator that tells  *)
(* a worker it may go on.  A remote call is a message that the database    *)
(* may execute at any later time, also after the caller has timed out,     *)
(* failed or crashed; its answer may be lost.                              *)
(***************************************************************************)
EXTENDS TurnStore

CONSTANT LossyOps   \* the operations whose call or answer the network may lose

Ops == {"claim", "save", "complete", "error", "aborted", "finish"}

ASSUME LossyAssumption == LossyOps \subseteq Ops

VARIABLES
  coord,   \* server and coordinator of each worker (draining, active, closed)
  pc,      \* where the handler and runTurn of each turn are
  host,    \* the worker that runs the turn
  signal,  \* abortController.signal with the reason: turn.error, saveError
  events,  \* length of turn.events
  dirty,   \* events not yet handed to saveTurn
  calls,   \* remote calls issued and not yet executed
  reply    \* the answer on its way to the awaiting code

nodeVars == <<coord, pc, host, signal, events, dirty, calls, reply>>
vars == <<storeVars, nodeVars>>

PC == {"idle", "claiming", "starting", "running", "saving",
       "committing", "stopping", "finishing", "done", "dead"}
CoordState == {"new", "ready", "draining", "lost", "closed", "crashed"}
Signal == {"none", "cancelled", "timedOut", "saveError"}
Call == [op : Ops, events : 0 .. MaxEvents]

TypeOK ==
  /\ StoreTypeOK
  /\ coord \in [Workers -> CoordState]
  /\ pc \in [Turns -> PC]
  /\ host \in [Turns -> Workers \cup {NoWorker}]
  /\ signal \in [Turns -> Signal]
  /\ events \in [Turns -> 0 .. MaxEvents]
  /\ dirty \in [Turns -> BOOLEAN]
  /\ calls \in [Turns -> SUBSET Call]
  /\ reply \in [Turns -> Reply]

Init ==
  /\ StoreInit
  /\ coord = [w \in Workers |-> "new"]
  /\ pc = [t \in Turns |-> "idle"]
  /\ host = [t \in Turns |-> NoWorker]
  /\ signal = [t \in Turns |-> "none"]
  /\ events = [t \in Turns |-> 0]
  /\ dirty = [t \in Turns |-> FALSE]
  /\ calls = [t \in Turns |-> {}]
  /\ reply = [t \in Turns |-> "none"]

-----------------------------------------------------------------------------
(* Helpers.                                                                *)

\* WorkerCoordinator.ready
Ready(w) == coord[w] \in {"ready", "draining"}

\* Where runTurn still reads the signal: later an abort has no effect.
Abortable == {"starting", "running", "saving"}
\* activeTurnCount: records that are queued, running or executing.
Active == Abortable \cup {"claiming", "committing", "stopping"}
ActiveOn(w) == {t \in Turns : host[t] = w /\ pc[t] \in Active}

\* The operations a program point waits for.
Awaited(p) ==
  CASE p = "claiming" -> {"claim"}
    [] p \in {"starting", "saving"} -> {"save"}
    [] p = "committing" -> {"complete"}
    [] p = "stopping" -> {"error", "aborted"}
    [] p = "finishing" -> {"finish"}
    [] OTHER -> {}

\* An abort without an error of its own; the first reason stays.
Aborted(sig) == IF sig = "none" THEN "cancelled" ELSE sig
AbortAll(T) == signal' = [t \in Turns |-> IF t \in T THEN Aborted(signal[t]) ELSE signal[t]]
RunningOn(w, points) == {t \in Turns : host[t] = w /\ pc[t] \in points}

\* cancelled = aborted && !turn.error && !saveError
StopStatus(sig) == IF sig = "cancelled" THEN "aborted" ELSE "error"

Issue(t, op) == calls' = [calls EXCEPT ![t] = @ \cup {[op |-> op, events |-> events[t]]}]
Goto(t, p) == pc' = [pc EXCEPT ![t] = p]
\* Consume the answer and await the next call.
Await(t, p, op) == Goto(t, p) /\ Issue(t, op) /\ reply' = [reply EXCEPT ![t] = "none"]

-----------------------------------------------------------------------------
(* Workers.                                                                *)

StartWorker(w) ==
  /\ coord[w] = "new"
  /\ RegisterLease(w)
  /\ coord' = [coord EXCEPT ![w] = "ready"]
  /\ UNCHANGED <<pc, host, signal, events, dirty, calls, reply>>

\* A renewal answered "alive": onCancel aborts the turns the database names,
\* those committing included (drain and the abort route spare them).
Heartbeat(w) ==
  /\ Ready(w) /\ LeaseLive(w)
  /\ AbortAll({t \in RunningOn(w, Abortable \cup {"committing"}) :
       exec[t].worker = w /\ exec[t].cancel /\ ~exec[t].finished})
  /\ UNCHANGED <<storeVars, coord, pc, host, events, dirty, calls, reply>>

\* A failed, late or refused renewal, or the local deadline: onLost.
LoseLease(w) ==
  /\ Ready(w)
  /\ coord' = [coord EXCEPT ![w] = "lost"]
  /\ AbortAll(RunningOn(w, Abortable \cup {"committing"}))
  /\ UNCHANGED <<storeVars, pc, host, events, dirty, calls, reply>>

ExpireLease(w) == EndLease(w) /\ UNCHANGED nodeVars

Drain(w) ==
  /\ coord[w] = "ready"
  /\ coord' = [coord EXCEPT ![w] = "draining"]
  /\ AbortAll(RunningOn(w, Abortable))
  /\ UNCHANGED <<storeVars, pc, host, events, dirty, calls, reply>>

\* WorkerCoordinator.stop at the end of the drain, or when its grace ran out
\* with work still running.  A lost release leaves the lease to expire.
StopWorker(w) ==
  /\ coord[w] \in {"draining", "lost"}
  /\ coord' = [coord EXCEPT ![w] = "closed"]
  /\ EndLease(w) \/ UNCHANGED storeVars
  /\ UNCHANGED <<pc, host, signal, events, dirty, calls, reply>>

CrashWorker(w) ==
  /\ coord[w] \notin {"new", "crashed"}
  /\ coord' = [coord EXCEPT ![w] = "crashed"]
  /\ pc' = [t \in Turns |->
       IF host[t] = w /\ pc[t] # "done" THEN "dead" ELSE pc[t]]
  /\ UNCHANGED <<storeVars, host, signal, events, dirty, calls, reply>>

\* recoverExpiredTurns: the list is read first, each turn rechecked later, so
\* a worker that has meanwhile lost its lease may still recover a turn.
Recover(w, t) ==
  /\ coord[w] # "new"
  /\ RecoverTurn(t)
  /\ UNCHANGED nodeVars

-----------------------------------------------------------------------------
(* One turn: the POST handler, then runTurn.                               *)

Submit(w, t) ==
  /\ coord[w] = "ready"
  /\ pc[t] = "idle"
  /\ Cardinality({u \in ActiveOn(w) : Owner(u) = Owner(t)}) < AccountActiveLimit
  /\ Cardinality(ActiveOn(w)) < GlobalActiveLimit
  /\ host' = [host EXCEPT ![t] = w]
  /\ Await(t, "claiming", "claim")
  /\ UNCHANGED <<storeVars, coord, signal, events, dirty>>

\* The draining flag at each coordinator state; a lost worker may have it set.
DrainFlag(c) == CASE c = "ready" -> {FALSE} [] c = "lost" -> BOOLEAN [] OTHER -> {TRUE}

\* A refused or lost claim discards the turn.  Otherwise runTurn starts:
\* assertReady fails the turn if the worker may not go on.
ReceiveClaim(t) ==
  /\ pc[t] = "claiming"
  /\ \/ /\ reply[t] = "refused"
        /\ Goto(t, "done")
        /\ UNCHANGED <<signal, calls, reply>>
     \/ /\ reply[t] = "created"
        /\ \E drains \in DrainFlag(coord[host[t]]) :
             signal' = [signal EXCEPT ![t] = IF drains THEN "cancelled" ELSE @]
        /\ IF Ready(host[t])
           THEN Await(t, "starting", "save")
           ELSE Await(t, "stopping", StopStatus(signal'[t]))
  /\ UNCHANGED <<storeVars, coord, host, events, dirty>>

\* The initial save decides whether the agent runs at all.
ReceiveFirstSave(t) ==
  /\ pc[t] = "starting"
  /\ reply[t] # "none"
  /\ IF reply[t] = "ok" /\ signal[t] = "none"
     THEN /\ Goto(t, "running")
          /\ reply' = [reply EXCEPT ![t] = "none"]
          /\ UNCHANGED calls
     ELSE Await(t, "stopping", StopStatus(signal[t]))
  /\ UNCHANGED <<storeVars, coord, host, signal, events, dirty>>

\* The agent publishes an event, also while a save is in flight.
Publish(t) ==
  /\ pc[t] \in {"running", "saving"}
  /\ events[t] < MaxEvents
  /\ events' = [events EXCEPT ![t] = @ + 1]
  /\ dirty' = [dirty EXCEPT ![t] = TRUE]
  /\ UNCHANGED <<storeVars, coord, pc, host, signal, calls, reply>>

\* saveProgress: one save in flight, none after a failed one.
SaveProgress(t) ==
  /\ pc[t] = "running" /\ dirty[t] /\ signal[t] # "saveError"
  /\ dirty' = [dirty EXCEPT ![t] = FALSE]
  /\ Await(t, "saving", "save")
  /\ UNCHANGED <<storeVars, coord, host, signal, events>>

\* Mutant of ReceiveSave: a failed save is forgotten and progress goes on.
ReceiveSaveAnyway(t) ==
  /\ pc[t] = "saving"
  /\ reply[t] # "none"
  /\ Goto(t, "running")
  /\ reply' = [reply EXCEPT ![t] = "none"]
  /\ UNCHANGED <<storeVars, coord, host, signal, events, dirty, calls>>

ReceiveSave(t) ==
  /\ pc[t] = "saving"
  /\ reply[t] # "none"
  /\ signal' = IF reply[t] = "ok" THEN signal ELSE [signal EXCEPT ![t] = "saveError"]
  /\ Goto(t, "running")
  /\ reply' = [reply EXCEPT ![t] = "none"]
  /\ UNCHANGED <<storeVars, coord, host, events, dirty, calls>>

\* turnTimeoutMs, or the budget on published events: turn.error and abort.
TimeOut(t) ==
  /\ pc[t] \in {"starting", "running", "saving"}
  /\ signal[t] \in {"none", "cancelled"}
  /\ signal' = [signal EXCEPT ![t] = "timedOut"]
  /\ UNCHANGED <<storeVars, coord, pc, host, events, dirty, calls, reply>>

\* The agent answered and every event has been handed to a save.
Commit(t) ==
  /\ pc[t] = "running" /\ ~dirty[t] /\ signal[t] = "none"
  /\ Await(t, "committing", "complete")
  /\ UNCHANGED <<storeVars, coord, host, signal, events, dirty>>

\* The agent failed, or was aborted, or its answer came after the abort.
Fail(t) ==
  /\ pc[t] = "running"
  /\ Await(t, "stopping", StopStatus(signal[t]))
  /\ UNCHANGED <<storeVars, coord, host, signal, events, dirty>>

\* acceptPersisted takes the stored status, whatever was asked for.
ReceiveCommit(t) ==
  /\ pc[t] = "committing"
  /\ reply[t] # "none"
  /\ IF reply[t] \in Final
     THEN Await(t, "finishing", "finish")
     ELSE Await(t, "stopping", StopStatus(signal[t]))
  /\ UNCHANGED <<storeVars, coord, host, signal, events, dirty>>

\* Mutant of ReceiveStop: the execution is not acknowledged as stopped.
ReceiveStopSilently(t) ==
  /\ pc[t] = "stopping"
  /\ reply[t] # "none"
  /\ Goto(t, "done")
  /\ UNCHANGED <<storeVars, coord, host, signal, events, dirty, calls, reply>>

\* The second terminal write is not retried; the acknowledgement follows.
ReceiveStop(t) ==
  /\ pc[t] = "stopping"
  /\ reply[t] # "none"
  /\ Await(t, "finishing", "finish")
  /\ UNCHANGED <<storeVars, coord, host, signal, events, dirty>>

ReceiveFinish(t) ==
  /\ pc[t] = "finishing"
  /\ reply[t] # "none"
  /\ Goto(t, "done")
  /\ UNCHANGED <<storeVars, coord, host, signal, events, dirty, calls, reply>>

-----------------------------------------------------------------------------
(* The network: execution of a call, loss of a call or of its answer.      *)

Perform(t, call, r) ==
  \/ call.op = "claim" /\ ClaimTurn(t, host[t], r)
  \/ call.op = "save" /\ SaveTurn(t, host[t], call.events, r)
  \/ call.op \in Final /\ FinalizeTurn(t, host[t], call.op, call.events, r)
  \/ call.op = "finish" /\ r = "ok" /\ FinishTurnExecution(t, host[t])

Execute(t, call) ==
  /\ call \in calls[t]
  /\ calls' = [calls EXCEPT ![t] = @ \ {call}]
  /\ \E r \in Reply :
       /\ Perform(t, call, r)
       /\ reply' = IF call.op \in Awaited(pc[t]) /\ reply[t] = "none"
                   THEN [reply EXCEPT ![t] = r] ELSE reply
  /\ UNCHANGED <<coord, pc, host, signal, events, dirty>>

\* AbortSignal.timeout(15_000), a broken connection or a gateway error: the
\* caller sees a failure, the call may have been or may yet be executed.
LoseAnswer(t) ==
  /\ Awaited(pc[t]) \cap LossyOps # {}
  /\ reply[t] # "refused"
  /\ reply' = [reply EXCEPT ![t] = "refused"]
  /\ UNCHANGED <<storeVars, coord, pc, host, signal, events, dirty, calls>>

-----------------------------------------------------------------------------
(* Users.                                                                  *)

\* POST /chat/turns/:id/abort on any worker.
RequestStop(t) == CancelTurn(t) /\ UNCHANGED nodeVars

\* ... and its second step on the worker that runs the turn, after the await.
AbortHere(t) ==
  /\ pc[t] \in Abortable
  /\ exec[t].cancel \/ exec[t].finished \/ ~Exists(t)
  /\ AbortAll({t})
  /\ UNCHANGED <<storeVars, coord, pc, host, events, dirty, calls, reply>>

EraseChat(c) == DeleteChat(c) /\ UNCHANGED nodeVars
DeleteAccount(o) == BeginAccountDeletion(o) /\ UNCHANGED nodeVars
\* The deletion handler and the maintenance of any worker, repeatedly.
DrainOwner(o) == o \in deleting /\ CancelOwnerTurns(o) /\ UNCHANGED nodeVars

-----------------------------------------------------------------------------
Next ==
  \/ \E w \in Workers :
       \/ StartWorker(w) \/ Heartbeat(w) \/ LoseLease(w) \/ ExpireLease(w)
       \/ Drain(w) \/ StopWorker(w) \/ CrashWorker(w)
       \/ \E t \in Turns : Submit(w, t) \/ Recover(w, t)
  \/ \E t \in Turns :
       \/ ReceiveClaim(t) \/ ReceiveFirstSave(t) \/ Publish(t)
       \/ SaveProgress(t) \/ ReceiveSave(t) \/ TimeOut(t) \/ Commit(t) \/ Fail(t)
       \/ ReceiveCommit(t) \/ ReceiveStop(t) \/ ReceiveFinish(t)
       \/ \E call \in calls[t] : Execute(t, call)
       \/ LoseAnswer(t) \/ RequestStop(t) \/ AbortHere(t)
  \/ \E c \in Chats : EraseChat(c)
  \/ \E o \in Owners : DeleteAccount(o) \/ DrainOwner(o)

Spec == Init /\ [][Next]_vars

(* The fairness of the liveness properties: Node runs its continuations    *)
(* and timers, the database answers the calls that are not lost, a lease   *)
(* nobody renews runs out, and a worker that stays ready keeps recovering  *)
(* (every heartbeat, every minute, every start).  Users owe nothing.       *)
Step(t) ==
  \/ ReceiveClaim(t) \/ ReceiveFirstSave(t) \/ SaveProgress(t) \/ ReceiveSave(t)
  \/ TimeOut(t) \/ Commit(t) \/ Fail(t)
  \/ ReceiveCommit(t) \/ ReceiveStop(t) \/ ReceiveFinish(t)

Fairness ==
  /\ \A t \in Turns :
       /\ WF_vars(Step(t))
       /\ WF_vars(LoseAnswer(t))
       /\ WF_vars(\E call \in calls[t] : call.op \notin LossyOps /\ Execute(t, call))
       /\ WF_vars(\E w \in Workers : coord[w] = "ready" /\ Recover(w, t))
  /\ \A w \in Workers : WF_vars(Heartbeat(w)) /\ WF_vars(~Ready(w) /\ ExpireLease(w))

FairSpec == Spec /\ Fairness

-----------------------------------------------------------------------------
(* Safety.                                                                 *)

\* What a worker is told and publishes as terminal is what is saved: a
\* completion whose answer was lost and is then retried as an error is
\* still reported as the completion it is.
AnswerIsSaved ==
  \A t \in Turns : reply[t] \in Final => row[t] \in {reply[t], "deleted"}

-----------------------------------------------------------------------------
(* What no step may do.                                                    *)

\* The saved events of a turn never get fewer: a progress save that was given
\* up and commits late cannot overwrite a later one.
ProgressNeverRegresses ==
  [][\A t \in Turns : saved'[t] >= saved[t]]_vars

-----------------------------------------------------------------------------
(* Liveness.                                                               *)

SomeWorkerStays == \E w \in Workers : <>[](coord[w] = "ready")

\* Every accepted turn reaches a terminal state while some worker stays.
AcceptedTurnsEnd ==
  SomeWorkerStays => \A t \in Turns : (row[t] = "open") ~> (row[t] # "open")

\* A turn the user stopped ends: POST /chat/turns/:id/abort cancels it.
StopTakesEffect ==
  SomeWorkerStays => \A t \in Turns :
    (row[t] = "open" /\ exec[t].cancel) ~> (row[t] # "open")
===============================================================================
