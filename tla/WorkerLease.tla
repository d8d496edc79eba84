----------------------------- MODULE WorkerLease -----------------------------
(***************************************************************************)
(* The lease of one worker: src/server/workerCoordinator.ts against the    *)
(* register, heartbeat and release procedures of the database.  The worker *)
(* counts its lease from the moment it asks, the database from the moment  *)
(* it executes the call, which may be any time later, also after the       *)
(* worker has given the call up.                                           *)
(*                                                                         *)
(* Node's performance.now() and the database's clock_timestamp() are two   *)
(* clocks that run at one rate; now is the time on both.                   *)
(***************************************************************************)
EXTENDS Integers

CONSTANTS
  LeaseMs, HeartbeatMs,
  MaxTime        \* bound of this model on the clock

ASSUME TimingAssumption ==
  /\ LeaseMs \in Nat /\ HeartbeatMs \in Nat \ {0}
  /\ 2 * HeartbeatMs < LeaseMs
  /\ MaxTime \in Nat \ {0}

VARIABLES
  now,         \* the clock
  leaseUntil,  \* dbchat_workers.lease_until, 0 without a row
  phase,       \* "new", then start(): "registering", "up", "failed"; "crashed"
  active,      \* WorkerCoordinator.active
  closed,      \* WorkerCoordinator.closed
  validUntil,  \* WorkerCoordinator.validUntil
  pending,     \* a renewal is awaited
  started,     \* when the awaited call was made
  calls,       \* calls made and not yet executed
  answer       \* the answer on its way to the awaiting code

vars == <<now, leaseUntil, phase, active, closed, validUntil,
          pending, started, calls, answer>>
localVars == <<phase, active, closed, validUntil, pending, started>>

Time == 1 .. MaxTime
Phase == {"new", "registering", "up", "failed", "crashed"}
Calls == {"register", "heartbeat", "release"}
AnswerKind == {"none", "alive", "dead", "failed"}

FlagsOK == active \in BOOLEAN /\ closed \in BOOLEAN /\ pending \in BOOLEAN

TypeOK ==
  /\ FlagsOK
  /\ now \in Time
  /\ leaseUntil \in 0 .. MaxTime + LeaseMs
  /\ phase \in Phase
  /\ validUntil \in 0 .. MaxTime + LeaseMs
  /\ started \in Time
  /\ calls \subseteq Calls
  /\ answer \in AnswerKind

Init ==
  /\ now = 1 /\ leaseUntil = 0
  /\ phase = "new" /\ active = FALSE /\ closed = FALSE /\ pending = FALSE
  /\ validUntil = 0 /\ started = 1
  /\ calls = {} /\ answer = "none"

Ready == active /\ ~closed /\ now < validUntil
LeaseLive == leaseUntil > now
Awaiting == phase = "registering" \/ pending

-----------------------------------------------------------------------------
(* The worker.                                                             *)

Start ==
  /\ phase = "new" /\ ~closed
  /\ phase' = "registering"
  /\ started' = now
  /\ calls' = calls \cup {"register"}
  /\ UNCHANGED <<now, leaseUntil, active, closed, validUntil, pending, answer>>

\* Mutant of Confirm: counted from the answer instead of the call.
ConfirmFromAnswer ==
  /\ validUntil' = now + LeaseMs - HeartbeatMs
  /\ active' = (now < validUntil')

\* confirm: an answer that took too long confirms nothing and loses the worker.
Confirm ==
  /\ validUntil' = started + LeaseMs - HeartbeatMs
  /\ active' = (now < validUntil')

ReceiveRegister ==
  /\ phase = "registering" /\ answer # "none"
  /\ answer' = "none"
  /\ IF answer = "alive"
     THEN Confirm /\ phase' = IF active' THEN "up" ELSE "failed"
     ELSE phase' = "failed" /\ UNCHANGED <<active, validUntil>>
  /\ UNCHANGED <<now, leaseUntil, closed, pending, started, calls>>

\* The interval timer; it may fire late, and skips a turn while one is awaited.
Beat ==
  /\ phase = "up" /\ Ready /\ ~pending
  /\ pending' = TRUE
  /\ started' = now
  /\ calls' = calls \cup {"heartbeat"}
  /\ UNCHANGED <<now, leaseUntil, phase, active, closed, validUntil, answer>>

ReceiveBeat ==
  /\ phase = "up" /\ pending /\ answer # "none"
  /\ answer' = "none" /\ pending' = FALSE
  /\ IF answer = "alive" /\ Ready
     THEN Confirm
     ELSE active' = FALSE /\ UNCHANGED validUntil
  /\ UNCHANGED <<now, leaseUntil, phase, closed, started, calls>>

\* lose: the expiry timer, a failed recovery, or assertReady after the deadline.
Lose ==
  /\ phase = "up" /\ active
  /\ active' = FALSE
  /\ UNCHANGED <<now, leaseUntil, phase, closed, validUntil, pending, started, calls, answer>>

\* stop does not await a renewal in flight.
Stop ==
  /\ phase \in {"registering", "up", "failed"} /\ ~closed
  /\ closed' = TRUE
  /\ calls' = calls \cup {"release"}
  /\ UNCHANGED <<now, leaseUntil, phase, active, validUntil, pending, started, answer>>

Crash ==
  /\ phase # "crashed"
  /\ phase' = "crashed" /\ active' = FALSE /\ pending' = FALSE
  /\ UNCHANGED <<now, leaseUntil, closed, validUntil, started, calls, answer>>

-----------------------------------------------------------------------------
(* The database executes a call; the answer reaches whoever still waits.   *)

AnswerWith(a) == answer' = IF Awaiting /\ answer = "none" THEN a ELSE answer

ExecuteRegister ==
  /\ "register" \in calls
  /\ calls' = calls \ {"register"}
  /\ IF leaseUntil = 0
     THEN leaseUntil' = now + LeaseMs /\ AnswerWith("alive")
     ELSE UNCHANGED leaseUntil /\ AnswerWith("dead")
  /\ UNCHANGED <<now, localVars>>

\* Mutant of ExecuteHeartbeat: lease_until > clock_timestamp() is not asked for.
ExecuteHeartbeatAnyway ==
  /\ "heartbeat" \in calls
  /\ calls' = calls \ {"heartbeat"}
  /\ leaseUntil' = now + LeaseMs /\ AnswerWith("alive")
  /\ UNCHANGED <<now, localVars>>

ExecuteHeartbeat ==
  /\ "heartbeat" \in calls
  /\ calls' = calls \ {"heartbeat"}
  /\ IF LeaseLive
     THEN leaseUntil' = now + LeaseMs /\ AnswerWith("alive")
     ELSE UNCHANGED leaseUntil /\ AnswerWith("dead")
  /\ UNCHANGED <<now, localVars>>

ExecuteRelease ==
  /\ "release" \in calls
  /\ calls' = calls \ {"release"}
  /\ leaseUntil' = IF LeaseLive THEN now ELSE leaseUntil
  /\ UNCHANGED <<now, localVars, answer>>

\* The time limit of a request, or a broken connection: the call stays out.
GiveUp ==
  /\ Awaiting /\ answer = "none"
  /\ answer' = "failed"
  /\ UNCHANGED <<now, leaseUntil, localVars, calls>>

Tick ==
  /\ now < MaxTime
  /\ now' = now + 1
  /\ UNCHANGED <<leaseUntil, localVars, calls, answer>>

Next ==
  \/ Start \/ ReceiveRegister \/ Beat \/ ReceiveBeat \/ Lose \/ Stop \/ Crash
  \/ ExecuteRegister \/ ExecuteHeartbeat \/ ExecuteRelease \/ GiveUp \/ Tick

Spec == Init /\ [][Next]_vars

-----------------------------------------------------------------------------
(* Safety.                                                                 *)

\* A worker that believes it may go on holds a live lease, with a heartbeat
\* interval to spare: no other worker can find its turns recoverable before
\* it has stopped believing so, however late calls and timers are.
ReadyHasLease == Ready => leaseUntil > now + HeartbeatMs

-----------------------------------------------------------------------------
(* What no step may do.                                                    *)

\* A lease that ran out or was released is never live again: a heartbeat that
\* was in flight when the worker stopped cannot revive it.
LeaseNeverRevives ==
  [][leaseUntil # 0 /\ ~LeaseLive => ~LeaseLive']_vars

\* A started worker that is not ready once is never ready again, also when
\* the answer to a renewal arrives after the deadline, a loss or a stop.
LostForGood == [][phase = "up" /\ ~Ready => ~Ready']_vars
==============================================================================
