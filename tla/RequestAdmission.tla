--------------------------- MODULE RequestAdmission ---------------------------
(***************************************************************************)
(* What a worker process admits and how it shuts down (WebServer.handle,   *)
(* close and drain in src/server/server.ts).  A request holds one of a few *)
(* slots until its handler has settled and its response has left; an event *)
(* stream gives the slot back when its handler settles.  A handler may     *)
(* start a turn or an export, a turn may start an export; both go on after *)
(* the handler.  The shutdown waits for the three one after the other, for *)
(* at most shutdownGraceMs.                                                *)
(*                                                                         *)
(* What a turn does is TurnCoordination's, an export's life LocalExports'. *)
(***************************************************************************)
EXTENDS Naturals, FiniteSets

CONSTANTS
  Requests,
  MaxConcurrent,   \* maxConcurrentRequests
  Turning          \* the requests that ask a question

VARIABLES
  handler,    \* each request: "out", "admitted", "refused", "settled"
  response,   \* each request: "open", "stream" or "ended"
  released,   \* the requests that gave their slot back
  slots,      \* activeApiRequests
  turn,       \* the turn of each request: "none", "running", "aborted", "committing", "ended"
  export,     \* its export: "none", "running", "ended"
  phase,      \* "serving", or what drain waits for: "requests", "turns", "exports", "done"
  awaited,    \* the promises that drain's work awaits: requests, or their turns
  timedOut

vars == <<handler, response, released, slots, turn, export, phase, awaited, timedOut>>

draining == phase # "serving"
executing == {r \in Requests : turn[r] \in {"running", "aborted", "committing"}}

Init ==
  /\ handler = [r \in Requests |-> "out"] /\ response = [r \in Requests |-> "open"]
  /\ released = {} /\ slots = 0
  /\ turn = [r \in Requests |-> "none"] /\ export = [r \in Requests |-> "none"]
  /\ phase = "serving" /\ awaited = {} /\ timedOut = FALSE

-----------------------------------------------------------------------------
(* A request.                                                              *)

\* Refused with 503 while draining and when every slot is taken.
Arrive(r) ==
  /\ handler[r] = "out" /\ ~timedOut /\ phase # "done"
  /\ IF draining \/ slots >= MaxConcurrent
     THEN handler' = [handler EXCEPT ![r] = "refused"] /\ UNCHANGED slots
     ELSE handler' = [handler EXCEPT ![r] = "admitted"] /\ slots' = slots + 1
  /\ UNCHANGED <<response, released, turn, export, phase, awaited, timedOut>>

Releasable(r, handled, sent) == r \notin released /\ handled = "settled" /\ sent # "open"

\* release, called when the handler settles and when the response ends.
Release(r, handled, sent) ==
  IF Releasable(r, handled, sent)
  THEN released' = released \cup {r} /\ slots' = slots - 1
  ELSE UNCHANGED <<released, slots>>

\* The handler returns, throws, or leaves an event stream behind; its response
\* may still be buffered for a slow reader.
Settle(r) ==
  /\ handler[r] = "admitted"
  /\ handler' = [handler EXCEPT ![r] = "settled"]
  /\ \/ UNCHANGED response
     \/ response[r] = "open" /\ response' = [response EXCEPT ![r] = "stream"]
  /\ Release(r, "settled", response'[r])
  /\ UNCHANGED <<turn, export, phase, awaited, timedOut>>

\* finish, close or error: also under a handler that is at work.
ResponseEnds(r) ==
  /\ handler[r] \in {"admitted", "settled"} /\ response[r] # "ended"
  /\ response' = [response EXCEPT ![r] = "ended"]
  /\ Release(r, handler[r], "ended")
  /\ UNCHANGED <<handler, turn, export, phase, awaited, timedOut>>

\* POST /chat/turns: the claim was answered; a turn that starts while the worker
\* drains is aborted at once.  The handler settles with it.
StartTurn(r) ==
  /\ handler[r] = "admitted" /\ r \in Turning /\ turn[r] = "none"
  /\ handler' = [handler EXCEPT ![r] = "settled"]
  /\ turn' = [turn EXCEPT ![r] = IF draining THEN "aborted" ELSE "running"]
  /\ Release(r, "settled", response[r])
  /\ UNCHANGED <<response, export, phase, awaited, timedOut>>

\* POST /chats/:id/exports, or a tool of a turn that is not aborted.
StartExport(r) ==
  /\ export[r] = "none"
  /\ handler[r] = "admitted" \/ turn[r] = "running"
  /\ export' = [export EXCEPT ![r] = "running"]
  /\ UNCHANGED <<handler, response, released, slots, turn, phase, awaited, timedOut>>

-----------------------------------------------------------------------------
(* What goes on after the handler.                                         *)

Commit(r) ==
  /\ turn[r] = "running" /\ turn' = [turn EXCEPT ![r] = "committing"]
  /\ UNCHANGED <<handler, response, released, slots, export, phase, awaited, timedOut>>

TurnEnds(r) ==
  /\ r \in executing /\ turn' = [turn EXCEPT ![r] = "ended"]
  /\ UNCHANGED <<handler, response, released, slots, export, phase, awaited, timedOut>>

ExportEnds(r) ==
  /\ export[r] = "running" /\ export' = [export EXCEPT ![r] = "ended"]
  /\ UNCHANGED <<handler, response, released, slots, turn, phase, awaited, timedOut>>

-----------------------------------------------------------------------------
(* The shutdown.                                                           *)

working == {r \in Requests : handler[r] = "admitted"}

\* Mutant of Pending: the turns that execute are all there is to wait for.
NotAwaited == {}

Pending == working

\* close: the turns that execute and have not begun to commit are aborted.
Close ==
  /\ phase = "serving"
  /\ phase' = "requests" /\ awaited' = Pending
  /\ turn' = [r \in Requests |-> IF turn[r] = "running" THEN "aborted" ELSE turn[r]]
  /\ UNCHANGED <<handler, response, released, slots, export, timedOut>>

RequestsAreDone ==
  /\ phase = "requests" /\ ~timedOut /\ awaited \cap working = {}
  /\ phase' = "turns" /\ awaited' = executing
  /\ UNCHANGED <<handler, response, released, slots, turn, export, timedOut>>

\* exports.close aborts what runs and waits for it.
TurnsAreDone ==
  /\ phase = "turns" /\ ~timedOut /\ awaited \cap executing = {}
  /\ phase' = "exports" /\ awaited' = {}
  /\ UNCHANGED <<handler, response, released, slots, turn, export, timedOut>>

ExportsAreDone ==
  /\ phase = "exports" /\ ~timedOut /\ \A r \in Requests : export[r] # "running"
  /\ phase' = "done"
  /\ UNCHANGED <<handler, response, released, slots, turn, export, awaited, timedOut>>

GraceIsOver ==
  /\ draining /\ phase # "done" /\ ~timedOut
  /\ timedOut' = TRUE
  /\ UNCHANGED <<handler, response, released, slots, turn, export, phase, awaited>>

Next ==
  \/ Close \/ RequestsAreDone \/ TurnsAreDone \/ ExportsAreDone \/ GraceIsOver
  \/ \E r \in Requests :
       \/ Arrive(r) \/ Settle(r) \/ ResponseEnds(r) \/ StartTurn(r) \/ StartExport(r)
       \/ Commit(r) \/ TurnEnds(r) \/ ExportEnds(r)

Spec == Init /\ [][Next]_vars

-----------------------------------------------------------------------------
(* Properties.                                                             *)

\* A slot belongs to a request until both its handler and its response are
\* through with it, in whichever order they end, and is returned once.
SlotsCoverWork ==
  /\ slots = Cardinality({r \in Requests : handler[r] \in {"admitted", "settled"} /\ r \notin released})
  /\ slots <= MaxConcurrent
  /\ released \cap working = {}

\* The shutdown never finds new work behind what it waited for: past the turns
\* no request and no turn is at work, after a shutdown in time nothing is, and
\* every turn that executes meanwhile was told to stop or is being saved.
DrainIsComplete ==
  /\ phase \in {"exports", "done"} => working = {} /\ executing = {}
  /\ phase = "done" => \A r \in Requests : export[r] # "running"
  /\ draining => \A r \in Requests : turn[r] # "running"
==============================================================================
