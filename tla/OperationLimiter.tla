--------------------------- MODULE OperationLimiter ---------------------------
(***************************************************************************)
(* The limiter of database operations (src/server/operationLimiter.ts):    *)
(* at most Maximum run, QueueLimit more wait in order, and a signal may    *)
(* abort an operation at any moment.  A slot that is freed goes straight   *)
(* to the first who waits, whose continuation runs later.                  *)
(***************************************************************************)
EXTENDS Naturals, Sequences, FiniteSets, SequencesExt

CONSTANTS Operations, Maximum, QueueLimit

VARIABLES
  active,   \* slots given away
  waiting,  \* the queue of ready callbacks, by operation
  stage,    \* "out", "waiting", "called" (ready was, its operation not yet), "running", "ended"
  aborted   \* the operations whose signal fired

vars == <<active, waiting, stage, aborted>>

Init ==
  /\ active = 0 /\ waiting = <<>>
  /\ stage = [o \in Operations |-> "out"] /\ aborted = {}

To(o, s) == stage' = [stage EXCEPT ![o] = s]

\* run: refused at once, with a slot, in the queue, or over capacity.
Start(o) ==
  /\ stage[o] = "out" /\ UNCHANGED aborted
  /\ \/ o \in aborted /\ To(o, "ended") /\ UNCHANGED <<active, waiting>>
     \/ o \notin aborted /\ active < Maximum /\ active' = active + 1 /\ To(o, "running") /\ UNCHANGED waiting
     \/ /\ o \notin aborted /\ active >= Maximum
        /\ IF Len(waiting) < QueueLimit
           THEN waiting' = Append(waiting, o) /\ To(o, "waiting")
           ELSE To(o, "ended") /\ UNCHANGED waiting
        /\ UNCHANGED active

Withdrawn(o) == SelectSeq(waiting, LAMBDA p : p # o)

\* The listener takes a waiting operation out of the queue; one that was called
\* has no listener any more.
Abort(o) ==
  /\ o \notin aborted /\ stage[o] # "ended"
  /\ aborted' = aborted \cup {o}
  /\ IF stage[o] = "waiting" THEN waiting' = Withdrawn(o) /\ To(o, "ended")
     ELSE UNCHANGED <<waiting, stage>>
  /\ UNCHANGED active

\* The finally block: the first who waits takes the slot over.
Freed(o) ==
  IF waiting # <<>>
  THEN /\ waiting' = Tail(waiting) /\ UNCHANGED active
       /\ stage' = [stage EXCEPT ![o] = "ended",
                                 ![Head(waiting)] = IF @ = "waiting" THEN "called" ELSE @]
  ELSE active' = active - 1 /\ To(o, "ended") /\ UNCHANGED waiting

\* The continuation of a called operation: its signal may have fired meanwhile.
Continue(o) ==
  /\ stage[o] = "called" /\ UNCHANGED aborted
  /\ IF o \in aborted THEN Freed(o) ELSE To(o, "running") /\ UNCHANGED <<active, waiting>>

\* The operation returns or throws.
End(o) == stage[o] = "running" /\ Freed(o) /\ UNCHANGED aborted

Next == \E o \in Operations : Start(o) \/ Abort(o) \/ Continue(o) \/ End(o)

Spec == Init /\ [][Next]_vars

-----------------------------------------------------------------------------
(* Properties.                                                             *)

\* Whoever is aborted at whatever moment, no slot is lost and none is given
\* twice: the slots given away are those of the operations that run or were
\* called, no more than Maximum, and nobody waits while one is free.
SlotsReturned ==
  /\ active = Cardinality({o \in Operations : stage[o] \in {"called", "running"}})
  /\ active <= Maximum
  /\ waiting # <<>> => active = Maximum
  /\ ToSet(waiting) = {o \in Operations : stage[o] = "waiting"}
==============================================================================
