------------------------ MODULE TurnCoordinationProofs ------------------------
(* Proofs about TurnStore and TurnCoordination, for any number of workers,   *)
(* turns, chats and accounts and any limits.  First the store: what its rows *)
(* and executions say of one another, how many turns execute, whether or not *)
(* the limit of an account is below the global one, what a user sees of a    *)
(* chat, and the refinement of TurnContract.  Then the workers: whatever     *)
(* they and the network do to the store is something StoreSpec allows, so    *)
(* what is shown of the store holds of the workers.                          *)
EXTENDS TurnCoordination, FiniteSetTheorems, TLAPS

-----------------------------------------------------------------------------
(* Lemmas about execution rows and settled turns.                           *)

LEMMA ExecutionUpdates ==
  /\ NoExecution \in Execution
  /\ \A w \in Workers : [worker |-> w, cancel |-> FALSE, finished |-> FALSE] \in Execution
  /\ \A e \in Execution :
       /\ [e EXCEPT !.finished = TRUE] \in Execution
       /\ [e EXCEPT !.cancel = TRUE] \in Execution
BY DEF Execution, NoExecution

LEMMA ChatOfTurn == \A t \in Turns : ChatOf[t] \in Chats /\ Owner(t) \in Owners
BY StoreAssumption DEF Owner

LEMMA SettleType ==
  ASSUME StoreTypeOK, NEW t \in Turns, NEW s \in Final, NEW n \in 0 .. MaxEvents,
         Settle(t, s, n)
  PROVE  StoreTypeOK'
<1>1. row' \in [Turns -> RowStatus]
  BY DEF StoreTypeOK, Settle, RowStatus
<1>2. saved' \in [Turns -> 0 .. MaxEvents]
  BY DEF StoreTypeOK, Settle
<1>3. exec' \in [Turns -> Execution]
  BY ExecutionUpdates DEF StoreTypeOK, Settle
<1>4. messages' \in [Chats -> Seq(Message)]
  <2>1. [role |-> "assistant", turn |-> t] \in Message
    BY DEF Message
  <2>2. messages[ChatOf[t]] \in Seq(Message)
    BY ChatOfTurn DEF StoreTypeOK
  <2>3. Append(messages[ChatOf[t]], [role |-> "assistant", turn |-> t]) \in Seq(Message)
    BY <2>1, <2>2
  <2> QED
    BY <2>3, ChatOfTurn DEF StoreTypeOK, Settle
<1> QED
  BY <1>1, <1>2, <1>3, <1>4 DEF StoreTypeOK, Settle

-----------------------------------------------------------------------------
(* Types.                                                                   *)

LEMMA ClaimType ==
  ASSUME StoreTypeOK, NEW t \in Turns, NEW w \in Workers, NEW r \in Reply, ClaimTurn(t, w, r)
  PROVE  StoreTypeOK'
<1>1. CASE r = "refused"
  BY <1>1 DEF ClaimTurn, StoreTypeOK, storeVars
<1>2. CASE r = "created"
  <2>1. row' \in [Turns -> RowStatus]
    BY <1>2 DEF StoreTypeOK, ClaimTurn, RowStatus
  <2>2. exec' \in [Turns -> Execution]
    BY <1>2, ExecutionUpdates DEF StoreTypeOK, ClaimTurn
  <2>3. messages' \in [Chats -> Seq(Message)]
    <3>1. [role |-> "user", turn |-> t] \in Message
      BY DEF Message
    <3>2. messages[ChatOf[t]] \in Seq(Message)
      BY ChatOfTurn DEF StoreTypeOK
    <3>3. Append(messages[ChatOf[t]], [role |-> "user", turn |-> t]) \in Seq(Message)
      BY <3>1, <3>2
    <3> QED
      BY <1>2, <3>3, ChatOfTurn DEF StoreTypeOK, ClaimTurn
  <2> QED
    BY <1>2, <2>1, <2>2, <2>3 DEF StoreTypeOK, ClaimTurn
<1> QED
  BY <1>1, <1>2 DEF ClaimTurn

LEMMA FinalizeType ==
  ASSUME StoreTypeOK, NEW t \in Turns, NEW w \in Workers, NEW s \in Final,
         NEW n \in 0 .. MaxEvents, NEW r \in Reply, FinalizeTurn(t, w, s, n, r)
  PROVE  StoreTypeOK'
<1>1. saved[t] \in 0 .. MaxEvents
  BY DEF StoreTypeOK
<1>2. CASE UNCHANGED storeVars
  BY <1>2 DEF StoreTypeOK, storeVars
<1>3. CASE /\ r = IF Stopped(t) THEN "aborted" ELSE s
           /\ Settle(t, r, IF Stopped(t) THEN saved[t] ELSE n)
  <2>1. r \in Final /\ (IF Stopped(t) THEN saved[t] ELSE n) \in 0 .. MaxEvents
    BY <1>1, <1>3 DEF Final
  <2> QED
    BY <1>3, <2>1, SettleType
<1>4. CASE r = "error" /\ Settle(t, r, saved[t])
  <2>1. r \in Final
    BY <1>4 DEF Final
  <2> QED
    BY <1>1, <1>4, <2>1, SettleType
<1> QED
  BY <1>2, <1>3, <1>4 DEF FinalizeTurn

LEMMA StepType == StoreTypeOK /\ [StoreNext]_storeVars => StoreTypeOK'
<1> SUFFICES ASSUME StoreTypeOK, [StoreNext]_storeVars
             PROVE  StoreTypeOK'
  OBVIOUS
<1>1. ASSUME NEW w \in Workers, RegisterLease(w) \/ EndLease(w)
      PROVE  StoreTypeOK'
  BY <1>1 DEF RegisterLease, EndLease, StoreTypeOK
<1>2. ASSUME NEW t \in Turns, CancelTurn(t)
      PROVE  StoreTypeOK'
  BY <1>2, ExecutionUpdates DEF CancelTurn, StoreTypeOK
<1>3. ASSUME NEW t \in Turns, RecoverTurn(t)
      PROVE  StoreTypeOK'
  <2>1. saved[t] \in 0 .. MaxEvents /\ "error" \in Final
    BY DEF StoreTypeOK, Final
  <2> QED
    BY <1>3, <2>1, SettleType DEF RecoverTurn
<1>4. ASSUME NEW t \in Turns, NEW w \in Workers, FinishTurnExecution(t, w)
      PROVE  StoreTypeOK'
  BY <1>4, ExecutionUpdates DEF FinishTurnExecution, StoreTypeOK
<1>5. ASSUME NEW t \in Turns, NEW w \in Workers, NEW r \in Reply, ClaimTurn(t, w, r)
      PROVE  StoreTypeOK'
  BY <1>5, ClaimType
<1>6. ASSUME NEW t \in Turns, NEW w \in Workers, NEW r \in Reply, NEW n \in 0 .. MaxEvents,
             SaveTurn(t, w, n, r)
      PROVE  StoreTypeOK'
  BY <1>6 DEF SaveTurn, StoreTypeOK, storeVars
<1>7. ASSUME NEW t \in Turns, NEW w \in Workers, NEW r \in Reply, NEW n \in 0 .. MaxEvents,
             NEW s \in Final, FinalizeTurn(t, w, s, n, r)
      PROVE  StoreTypeOK'
  BY <1>7, FinalizeType
<1>8. ASSUME NEW c \in Chats, DeleteChat(c)
      PROVE  StoreTypeOK'
  <2>1. row' \in [Turns -> RowStatus]
    BY <1>8 DEF DeleteChat, StoreTypeOK, RowStatus
  <2>2. exec' \in [Turns -> Execution]
    BY <1>8, ExecutionUpdates DEF DeleteChat, StoreTypeOK
  <2>3. messages' \in [Chats -> Seq(Message)]
    <3>1. << >> \in Seq(Message)
      OBVIOUS
    <3> QED
      BY <1>8, <3>1 DEF DeleteChat, StoreTypeOK
  <2> QED
    BY <1>8, <2>1, <2>2, <2>3 DEF DeleteChat, StoreTypeOK
<1>9. ASSUME NEW o \in Owners, BeginAccountDeletion(o)
      PROVE  StoreTypeOK'
  BY <1>9 DEF BeginAccountDeletion, StoreTypeOK
<1>10. ASSUME NEW o \in Owners, CancelOwnerTurns(o)
       PROVE  StoreTypeOK'
  BY <1>10, ExecutionUpdates DEF CancelOwnerTurns, StoreTypeOK
<1>11. CASE UNCHANGED storeVars
  BY <1>11 DEF StoreTypeOK, storeVars
<1> QED
  BY <1>1, <1>2, <1>3, <1>4, <1>5, <1>6, <1>7, <1>8, <1>9, <1>10, <1>11 DEF StoreNext

\* Every row keeps its type under every order of procedure calls.
THEOREM StoreTypes == StoreSpec => []StoreTypeOK
<1>1. StoreInit => StoreTypeOK
  <2>1. << >> \in Seq(Message)
    OBVIOUS
  <2> QED
    BY <2>1, ExecutionUpdates, StoreAssumption DEF StoreInit, StoreTypeOK, RowStatus
<1> QED
  BY <1>1, StepType, PTL DEF StoreSpec

-----------------------------------------------------------------------------
(* The inductive invariant.                                                 *)

\* What ties a turn to its execution.  A terminal row always has a finished
\* execution: that is what keeps a late save, a late completion and a second
\* recovery out.  An execution belongs to a registered worker.
ExecutionMatches(t) ==
  /\ row[t] \in Final => exec[t].finished
  /\ row[t] = "complete" => ~exec[t].cancel
  /\ row[t] \in {"absent", "deleted"} => exec[t] = NoExecution
  /\ row[t] = "open" => exec[t].worker \in Workers
  /\ exec[t].worker # NoWorker => lease[exec[t].worker] # "none"

ExecutionsMatch == \A t \in Turns : ExecutionMatches(t)
StoreInv == StoreTypeOK /\ ExecutionsMatch

LEMMA SettleMatch ==
  ASSUME StoreInv, NEW t \in Turns, NEW s \in Final, NEW n \in 0 .. MaxEvents,
         Settle(t, s, n), row[t] = "open", s = "complete" => ~exec[t].cancel
  PROVE  ExecutionsMatch'
<1> SUFFICES ASSUME NEW u \in Turns
             PROVE  ExecutionMatches(u)'
  BY DEF ExecutionsMatch
<1>1. ExecutionMatches(u)
  BY DEF StoreInv, ExecutionsMatch
<1>2. CASE u = t
  BY <1>1, <1>2 DEF ExecutionMatches, Settle, StoreInv, StoreTypeOK, Execution, Final
<1>3. CASE u # t
  BY <1>1, <1>3 DEF ExecutionMatches, Settle, StoreInv, StoreTypeOK
<1> QED
  BY <1>2, <1>3

LEMMA ClaimMatch ==
  ASSUME StoreInv, NEW t \in Turns, NEW w \in Workers, NEW r \in Reply, ClaimTurn(t, w, r)
  PROVE  ExecutionsMatch'
<1> SUFFICES ASSUME NEW u \in Turns
             PROVE  ExecutionMatches(u)'
  BY DEF ExecutionsMatch
<1>1. ExecutionMatches(u)
  BY DEF StoreInv, ExecutionsMatch
<1>2. CASE UNCHANGED storeVars
  BY <1>1, <1>2 DEF ExecutionMatches, storeVars
<1>3. CASE r = "created" /\ u = t
  BY <1>3 DEF ClaimTurn, MayClaim, LeaseLive, ExecutionMatches, StoreInv, StoreTypeOK, Final
<1>4. CASE r = "created" /\ u # t
  BY <1>1, <1>4 DEF ClaimTurn, ExecutionMatches, StoreInv, StoreTypeOK
<1> QED
  BY <1>2, <1>3, <1>4 DEF ClaimTurn

LEMMA FinalizeMatch ==
  ASSUME StoreInv, NEW t \in Turns, NEW w \in Workers, NEW s \in Final,
         NEW n \in 0 .. MaxEvents, NEW r \in Reply, FinalizeTurn(t, w, s, n, r)
  PROVE  ExecutionsMatch'
<1>1. saved[t] \in 0 .. MaxEvents
  BY DEF StoreInv, StoreTypeOK
<1>2. CASE UNCHANGED storeVars
  BY <1>2 DEF StoreInv, ExecutionsMatch, ExecutionMatches, storeVars
<1>3. CASE /\ row[t] = "open"
           /\ r = IF Stopped(t) THEN "aborted" ELSE s
           /\ Settle(t, r, IF Stopped(t) THEN saved[t] ELSE n)
  <2>1. r \in Final /\ (IF Stopped(t) THEN saved[t] ELSE n) \in 0 .. MaxEvents
    BY <1>1, <1>3 DEF Final
  <2>2. r = "complete" => ~exec[t].cancel
    BY <1>3 DEF Stopped
  <2> QED
    BY <1>3, <2>1, <2>2, SettleMatch
<1>4. CASE row[t] = "open" /\ r = "error" /\ Settle(t, r, saved[t])
  <2>1. r \in Final /\ r # "complete"
    BY <1>4 DEF Final
  <2> QED
    BY <1>1, <1>4, <2>1, SettleMatch
<1> QED
  BY <1>2, <1>3, <1>4 DEF FinalizeTurn

LEMMA StepMatch == StoreInv /\ [StoreNext]_storeVars => ExecutionsMatch'
<1> SUFFICES ASSUME StoreInv, [StoreNext]_storeVars
             PROVE  ExecutionsMatch'
  OBVIOUS
<1>0. \A u \in Turns : ExecutionMatches(u)
  BY DEF StoreInv, ExecutionsMatch
<1> USE DEF StoreInv, ExecutionMatches
<1>1. ASSUME NEW w \in Workers, RegisterLease(w) \/ EndLease(w)
      PROVE  ExecutionsMatch'
  <2> SUFFICES ASSUME NEW u \in Turns
               PROVE  ExecutionMatches(u)'
    BY DEF ExecutionsMatch
  <2>1. \A v \in Workers : lease[v] # "none" => lease'[v] # "none"
    BY <1>1 DEF RegisterLease, EndLease, StoreTypeOK
  <2>2. exec[u].worker \in Workers \cup {NoWorker}
    BY DEF StoreTypeOK, Execution
  <2> QED
    BY <1>0, <1>1, <2>1, <2>2 DEF RegisterLease, EndLease
<1>2. ASSUME NEW t \in Turns, CancelTurn(t)
      PROVE  ExecutionsMatch'
  <2> SUFFICES ASSUME NEW u \in Turns
               PROVE  ExecutionMatches(u)'
    BY DEF ExecutionsMatch
  <2>1. CASE u = t /\ ~exec[u].finished
    BY <1>0, <1>2, <2>1 DEF CancelTurn, StoreTypeOK, Exists, Execution, Final, RowStatus
  <2>2. CASE u # t \/ exec[u].finished
    <3>1. exec'[u] = exec[u]
      BY <1>2, <2>2 DEF CancelTurn, StoreTypeOK
    <3> QED
      BY <1>0, <1>2, <3>1 DEF CancelTurn
  <2> QED
    BY <2>1, <2>2
<1>3. ASSUME NEW t \in Turns, RecoverTurn(t)
      PROVE  ExecutionsMatch'
  <2>1. saved[t] \in 0 .. MaxEvents /\ "error" \in Final
    BY DEF StoreTypeOK, Final
  <2> QED
    BY <1>3, <2>1, SettleMatch DEF RecoverTurn, Recoverable
<1>4. ASSUME NEW t \in Turns, NEW w \in Workers, FinishTurnExecution(t, w)
      PROVE  ExecutionsMatch'
  <2> SUFFICES ASSUME NEW u \in Turns
               PROVE  ExecutionMatches(u)'
    BY DEF ExecutionsMatch
  <2>1. CASE u = t /\ exec[u].worker = w
    BY <1>0, <1>4, <2>1, StoreAssumption
    DEF FinishTurnExecution, StoreTypeOK, Execution, NoExecution
  <2>2. CASE u # t \/ exec[u].worker # w
    <3>1. exec'[u] = exec[u]
      BY <1>4, <2>2 DEF FinishTurnExecution, StoreTypeOK
    <3> QED
      BY <1>0, <1>4, <3>1 DEF FinishTurnExecution
  <2> QED
    BY <2>1, <2>2
<1>5. ASSUME NEW t \in Turns, NEW w \in Workers, NEW r \in Reply, ClaimTurn(t, w, r)
      PROVE  ExecutionsMatch'
  BY <1>5, ClaimMatch
<1>6. ASSUME NEW t \in Turns, NEW w \in Workers, NEW r \in Reply, NEW n \in 0 .. MaxEvents,
             SaveTurn(t, w, n, r)
      PROVE  ExecutionsMatch'
  BY <1>0, <1>6 DEF ExecutionsMatch, SaveTurn, storeVars
<1>7. ASSUME NEW t \in Turns, NEW w \in Workers, NEW r \in Reply, NEW n \in 0 .. MaxEvents,
             NEW s \in Final, FinalizeTurn(t, w, s, n, r)
      PROVE  ExecutionsMatch'
  BY <1>7, FinalizeMatch
<1>8. ASSUME NEW c \in Chats, DeleteChat(c)
      PROVE  ExecutionsMatch'
  BY <1>0, <1>8 DEF ExecutionsMatch, DeleteChat, StoreTypeOK, Exists, Final, NoExecution
<1>9. ASSUME NEW o \in Owners, BeginAccountDeletion(o)
      PROVE  ExecutionsMatch'
  BY <1>0, <1>9 DEF ExecutionsMatch, BeginAccountDeletion
<1>10. ASSUME NEW o \in Owners, CancelOwnerTurns(o)
       PROVE  ExecutionsMatch'
  <2> SUFFICES ASSUME NEW u \in Turns
               PROVE  ExecutionMatches(u)'
    BY DEF ExecutionsMatch
  <2>1. CASE Exists(u) /\ Owner(u) = o /\ ~exec[u].finished
    BY <1>0, <1>10, <2>1 DEF CancelOwnerTurns, StoreTypeOK, Exists, Execution, Final
  <2>2. CASE ~(Exists(u) /\ Owner(u) = o /\ ~exec[u].finished)
    BY <1>0, <1>10, <2>2 DEF CancelOwnerTurns
  <2> QED
    BY <2>1, <2>2
<1>11. CASE UNCHANGED storeVars
  BY <1>0, <1>11 DEF ExecutionsMatch, storeVars
<1> QED
  BY <1>1, <1>2, <1>3, <1>4, <1>5, <1>6, <1>7, <1>8, <1>9, <1>10, <1>11 DEF StoreNext

\* The inductive invariant holds in every behaviour of the store.
THEOREM StoreInvHolds == StoreSpec => []StoreInv
<1>1. StoreInit => ExecutionsMatch
  BY StoreAssumption DEF StoreInit, ExecutionsMatch, ExecutionMatches, Final, NoExecution
<1>2. StoreTypeOK /\ ExecutionsMatch <=> StoreInv
  BY DEF StoreInv
<1> QED
  BY StoreTypes, StepMatch, <1>1, <1>2, PTL DEF StoreSpec

\* A recorded stop wins over a completion: no completed turn was stopped.
THEOREM StopWinsHolds == StoreSpec => []StopWins
<1>1. StoreInv => StopWins
  BY DEF StoreInv, ExecutionsMatch, ExecutionMatches, StopWins
<1> QED
  BY StoreInvHolds, <1>1, PTL

-----------------------------------------------------------------------------
(* What no step may do.                                                     *)

\* Where a turn's row and snapshot can change at all.
Untouched(t) == row'[t] = row[t] /\ saved'[t] = saved[t]

LEMMA SettleTouchesOne ==
  ASSUME StoreInv, NEW t \in Turns, NEW s \in Final, NEW n \in 0 .. MaxEvents,
         Settle(t, s, n), NEW u \in Turns, u # t
  PROVE  Untouched(u)
BY DEF Settle, Untouched, StoreInv, StoreTypeOK

\* Every step leaves a turn alone, settles it, saves its progress, claims it
\* or deletes it with its chat.
LEMMA StepOnTurn ==
  ASSUME StoreInv, [StoreNext]_storeVars, NEW u \in Turns
  PROVE  \/ Untouched(u)
         \/ row[u] = "absent" /\ row'[u] = "open"
         \/ Exists(u) /\ row'[u] = "deleted" /\ saved'[u] = saved[u]
         \/ row[u] = "open" /\ row'[u] = "error" /\ saved'[u] = saved[u]
         \/ exec[u].worker \in Workers /\ LeaseLive(exec[u].worker) /\ ~exec[u].finished
<1> DEFINE Goal == \/ Untouched(u)
                   \/ row[u] = "absent" /\ row'[u] = "open"
                   \/ Exists(u) /\ row'[u] = "deleted" /\ saved'[u] = saved[u]
                   \/ row[u] = "open" /\ row'[u] = "error" /\ saved'[u] = saved[u]
                   \/ exec[u].worker \in Workers /\ LeaseLive(exec[u].worker) /\ ~exec[u].finished
<1>1. ASSUME NEW w \in Workers, RegisterLease(w) \/ EndLease(w)
      PROVE  Goal
  BY <1>1 DEF RegisterLease, EndLease, Untouched
<1>2. ASSUME NEW t \in Turns, CancelTurn(t)
      PROVE  Goal
  BY <1>2 DEF CancelTurn, Untouched
<1>3. ASSUME NEW t \in Turns, RecoverTurn(t)
      PROVE  Goal
  BY <1>3 DEF RecoverTurn, Recoverable, Settle, StoreInv, StoreTypeOK, Untouched
<1>4. ASSUME NEW t \in Turns, NEW w \in Workers, FinishTurnExecution(t, w)
      PROVE  Goal
  BY <1>4 DEF FinishTurnExecution, Untouched
<1>5. ASSUME NEW t \in Turns, NEW w \in Workers, NEW r \in Reply, ClaimTurn(t, w, r)
      PROVE  Goal
  BY <1>5 DEF ClaimTurn, StoreInv, StoreTypeOK, Untouched, storeVars
<1>6. ASSUME NEW t \in Turns, NEW w \in Workers, NEW r \in Reply, NEW n \in 0 .. MaxEvents,
             SaveTurn(t, w, n, r)
      PROVE  Goal
  BY <1>6 DEF SaveTurn, Fenced, StoreInv, StoreTypeOK, Untouched, storeVars
<1>7. ASSUME NEW t \in Turns, NEW w \in Workers, NEW r \in Reply, NEW n \in 0 .. MaxEvents,
             NEW s \in Final, FinalizeTurn(t, w, s, n, r)
      PROVE  Goal
  <2>1. CASE UNCHANGED storeVars
    BY <2>1 DEF storeVars, Untouched
  <2>2. CASE /\ ~Fenced(t, w) /\ ~exec[t].finished
             /\ \E a \in Final, k \in 0 .. MaxEvents : Settle(t, a, k)
    <3>1. CASE u = t
      BY <2>2, <3>1 DEF Fenced
    <3>2. CASE u # t
      BY <2>2, <3>2, SettleTouchesOne
    <3> QED
      BY <3>1, <3>2
  <2>3. saved[t] \in 0 .. MaxEvents
    BY DEF StoreInv, StoreTypeOK
  <2>4. UNCHANGED storeVars \/ \E a \in Final, k \in 0 .. MaxEvents : Settle(t, a, k)
    BY <1>7, <2>3 DEF FinalizeTurn, Final
  <2> QED
    BY <1>7, <2>1, <2>2, <2>4 DEF FinalizeTurn
<1>8. ASSUME NEW c \in Chats, DeleteChat(c)
      PROVE  Goal
  BY <1>8 DEF DeleteChat, Untouched
<1>9. ASSUME NEW o \in Owners, BeginAccountDeletion(o) \/ CancelOwnerTurns(o)
      PROVE  Goal
  BY <1>9 DEF BeginAccountDeletion, CancelOwnerTurns, Untouched
<1>10. CASE UNCHANGED storeVars
  BY <1>10 DEF storeVars, Untouched
<1> QED
  BY <1>1, <1>2, <1>3, <1>4, <1>5, <1>6, <1>7, <1>8, <1>9, <1>10 DEF StoreNext

\* A terminal turn stays as it is until its chat is deleted.
THEOREM FinalStaysFinal == StoreSpec => FinalIsFinal
<1> DEFINE Kept == \A t \in Turns : row[t] \in Final =>
                     /\ row'[t] \in {row[t], "deleted"}
                     /\ saved'[t] = saved[t]
<1>1. StoreInv /\ [StoreNext]_storeVars => Kept
  <2> SUFFICES ASSUME StoreInv, [StoreNext]_storeVars, NEW t \in Turns, row[t] \in Final
               PROVE  row'[t] \in {row[t], "deleted"} /\ saved'[t] = saved[t]
    OBVIOUS
  <2>1. exec[t].finished /\ row[t] # "open" /\ row[t] # "absent"
    BY DEF StoreInv, ExecutionsMatch, ExecutionMatches, Final
  <2> QED
    BY <2>1, StepOnTurn DEF Untouched
<1>2. StoreInv /\ [StoreNext]_storeVars => [Kept]_storeVars
  BY <1>1
<1> QED
  BY StoreInvHolds, <1>2, PTL DEF StoreSpec, FinalIsFinal

\* A worker whose lease is over changes no turn it claimed: what still happens
\* to such a turn is recovery or deletion.
THEOREM LostWorkersAreFenced == StoreSpec => LostWorkerIsFenced
<1> DEFINE Fence == \A t \in Turns : Exists(t) /\ ~LeaseLive(exec[t].worker) =>
                      row'[t] \in {row[t], "error", "deleted"} /\ saved'[t] = saved[t]
<1>1. StoreInv /\ [StoreNext]_storeVars => Fence
  <2> SUFFICES ASSUME StoreInv, [StoreNext]_storeVars, NEW t \in Turns,
                      Exists(t), ~LeaseLive(exec[t].worker)
               PROVE  row'[t] \in {row[t], "error", "deleted"} /\ saved'[t] = saved[t]
    OBVIOUS
  <2>1. row[t] # "absent"
    BY DEF Exists
  <2> QED
    BY <2>1, StepOnTurn DEF Untouched
<1>2. StoreInv /\ [StoreNext]_storeVars => [Fence]_storeVars
  BY <1>1
<1> QED
  BY StoreInvHolds, <1>2, PTL DEF StoreSpec, LostWorkerIsFenced

-----------------------------------------------------------------------------
(* One turn per request.                                                    *)

\* However often and from wherever a request is posted, one turn exists for it.
THEOREM RequestsAreAskedOnce == StoreSpec => []OneTurnPerRequest
<1>1. StoreInit => OneTurnPerRequest
  BY DEF StoreInit, OneTurnPerRequest, Exists
<1>2. StoreInv /\ OneTurnPerRequest /\ [StoreNext]_storeVars => OneTurnPerRequest'
  <2> SUFFICES ASSUME StoreInv, OneTurnPerRequest, [StoreNext]_storeVars
               PROVE  OneTurnPerRequest'
    OBVIOUS
  <2>1. CASE \A t \in Turns : Exists(t)' => Exists(t)
    BY <2>1 DEF OneTurnPerRequest, Owner
  <2>2. CASE \E t \in Turns : ~Exists(t) /\ Exists(t)'
    <3>1. PICK t \in Turns, w \in Workers : ClaimTurn(t, w, "created")
      <4>1. \A t \in Turns, w \in Workers, r \in Reply :
              ClaimTurn(t, w, r) => r = "created" \/ UNCHANGED storeVars
        BY DEF ClaimTurn
      <4>2. PICK t \in Turns : ~Exists(t) /\ Exists(t)'
        BY <2>2
      <4>3. ~UNCHANGED row
        BY <4>2 DEF Exists
      <4>4. (\E c \in Chats : DeleteChat(c)) => FALSE
        BY <4>2 DEF DeleteChat, Exists
      <4>5. (\E u \in Turns, s \in Final, n \in 0 .. MaxEvents : row[u] = "open" /\ Settle(u, s, n)) => FALSE
        BY <4>2 DEF Settle, Exists, StoreInv, StoreTypeOK
      <4>6. \A u \in Turns : saved[u] \in 0 .. MaxEvents
        BY DEF StoreInv, StoreTypeOK
      <4>7. \A u \in Turns : ~RecoverTurn(u)
        BY <4>5, <4>6 DEF RecoverTurn, Recoverable, Final
      <4>8. \A u \in Turns, w \in Workers, s \in Final, n \in 0 .. MaxEvents, r \in Reply :
              ~FinalizeTurn(u, w, s, n, r)
        BY <4>3, <4>5, <4>6 DEF FinalizeTurn, storeVars, Final
      <4>9. \A u \in Turns, w \in Workers, n \in 0 .. MaxEvents, r \in Reply : ~SaveTurn(u, w, n, r)
        BY <4>3 DEF SaveTurn, storeVars
      <4> QED
        BY <4>1, <4>3, <4>4, <4>7, <4>8, <4>9
        DEF StoreNext, storeVars, RegisterLease, EndLease, CancelTurn, FinishTurnExecution,
            BeginAccountDeletion, CancelOwnerTurns
    <3>2. \A u \in Turns : Exists(u)' => u = t \/ Exists(u)
      BY <3>1 DEF ClaimTurn, Exists, StoreInv, StoreTypeOK
    <3>3. \A u \in Turns : Exists(u) /\ Owner(u) = Owner(t) => RequestOf[u] # RequestOf[t]
      BY <3>1 DEF ClaimTurn, MayClaim, Prior
    <3> QED
      BY <3>2, <3>3 DEF OneTurnPerRequest, Owner
  <2> QED
    BY <2>1, <2>2
<1> QED
  BY <1>1, <1>2, StoreInvHolds, PTL DEF StoreSpec

-----------------------------------------------------------------------------
(* Only a claim adds an executing turn, and it adds one.                    *)

LEMMA SettleExecuting ==
  ASSUME StoreInv, NEW t \in Turns, NEW s \in Final, NEW n \in 0 .. MaxEvents, Settle(t, s, n)
  PROVE  \A u \in Turns : Executing(u)' => Executing(u)
<1> SUFFICES ASSUME NEW u \in Turns
             PROVE  Executing(u)' => Executing(u)
  OBVIOUS
<1>1. exec' = [exec EXCEPT ![t].finished = TRUE] /\ UNCHANGED lease
  BY DEF Settle
<1>2. exec[t] \in Execution /\ exec \in [Turns -> Execution]
  BY DEF StoreInv, StoreTypeOK
<1>3. CASE u = t
  BY <1>1, <1>2, <1>3 DEF Executing, Execution
<1>4. CASE u # t
  BY <1>1, <1>2, <1>4 DEF Executing, LeaseLive
<1> QED
  BY <1>3, <1>4

LEMMA LeaseExecuting ==
  ASSUME StoreInv, NEW w \in Workers, RegisterLease(w) \/ EndLease(w)
  PROVE  \A u \in Turns : Executing(u)' => Executing(u)
<1> SUFFICES ASSUME NEW u \in Turns, Executing(u)'
             PROVE  Executing(u)
  OBVIOUS
<1>1. UNCHANGED exec
  BY DEF RegisterLease, EndLease
<1>2. exec[u].worker # NoWorker /\ ~exec[u].finished /\ lease'[exec[u].worker] = "live"
  BY <1>1 DEF Executing, LeaseLive
<1>3. exec[u].worker \in Workers /\ lease[exec[u].worker] # "none"
  BY <1>2 DEF StoreInv, StoreTypeOK, Execution, ExecutionsMatch, ExecutionMatches
<1>4. lease[exec[u].worker] = "live"
  BY <1>2, <1>3 DEF RegisterLease, EndLease, LeaseLive, StoreInv, StoreTypeOK
<1> QED
  BY <1>2, <1>4 DEF Executing, LeaseLive

\* The two ways a step can change the set of executing turns.
Claims(t) ==
  /\ \E w \in Workers : MayClaim(t, w)
  /\ ExecutingTurns' = ExecutingTurns \cup {t}
  /\ UNCHANGED deleting
NoneStarts == ExecutingTurns' \subseteq ExecutingTurns /\ deleting \subseteq deleting'

LEMMA ClaimExecuting ==
  ASSUME StoreInv, NEW t \in Turns, NEW w \in Workers, NEW r \in Reply, ClaimTurn(t, w, r)
  PROVE  NoneStarts \/ Claims(t)
<1>1. CASE UNCHANGED storeVars
  BY <1>1 DEF NoneStarts, ExecutingTurns, Executing, LeaseLive, storeVars
<1>2. CASE r = "created"
  <2>1. /\ MayClaim(t, w) /\ UNCHANGED <<lease, deleting>>
        /\ exec' = [exec EXCEPT ![t] = [worker |-> w, cancel |-> FALSE, finished |-> FALSE]]
    BY <1>2 DEF ClaimTurn
  <2>2. Executing(t)'
    BY <2>1, StoreAssumption DEF Executing, LeaseLive, MayClaim, StoreInv, StoreTypeOK
  <2>3. \A u \in Turns : u # t => (Executing(u)' <=> Executing(u))
    BY <2>1 DEF Executing, LeaseLive, StoreInv, StoreTypeOK
  <2> QED
    BY <2>1, <2>2, <2>3 DEF Claims, ExecutingTurns
<1> QED
  BY <1>1, <1>2 DEF ClaimTurn

LEMMA StepExecuting ==
  ASSUME StoreInv, [StoreNext]_storeVars
  PROVE  NoneStarts \/ \E t \in Turns : Claims(t)
<1> DEFINE Fewer == \A u \in Turns : Executing(u)' => Executing(u)
<1>0. Fewer /\ deleting \subseteq deleting' => NoneStarts
  BY DEF NoneStarts, ExecutingTurns
<1>1. ASSUME NEW w \in Workers, RegisterLease(w) \/ EndLease(w)
      PROVE  NoneStarts
  BY <1>0, <1>1, LeaseExecuting DEF RegisterLease, EndLease
<1>2. ASSUME NEW t \in Turns, CancelTurn(t)
      PROVE  NoneStarts
  <2>1. \A u \in Turns : exec'[u].worker = exec[u].worker /\ exec'[u].finished = exec[u].finished
    BY <1>2 DEF CancelTurn, StoreInv, StoreTypeOK, Execution
  <2> QED
    BY <1>0, <1>2, <2>1 DEF CancelTurn, Executing, LeaseLive
<1>3. ASSUME NEW t \in Turns, RecoverTurn(t)
      PROVE  NoneStarts
  <2>1. saved[t] \in 0 .. MaxEvents /\ "error" \in Final
    BY DEF StoreInv, StoreTypeOK, Final
  <2> QED
    BY <1>0, <1>3, <2>1, SettleExecuting DEF RecoverTurn, Settle
<1>4. ASSUME NEW t \in Turns, NEW w \in Workers, FinishTurnExecution(t, w)
      PROVE  NoneStarts
  <2>1. \A u \in Turns : exec'[u].worker = exec[u].worker /\ (exec[u].finished => exec'[u].finished)
    BY <1>4 DEF FinishTurnExecution, StoreInv, StoreTypeOK, Execution
  <2> QED
    BY <1>0, <1>4, <2>1 DEF FinishTurnExecution, Executing, LeaseLive
<1>5. ASSUME NEW t \in Turns, NEW w \in Workers, NEW r \in Reply, ClaimTurn(t, w, r)
      PROVE  NoneStarts \/ Claims(t)
  BY <1>5, ClaimExecuting
<1>6. ASSUME NEW t \in Turns, NEW w \in Workers, NEW r \in Reply, NEW n \in 0 .. MaxEvents,
             SaveTurn(t, w, n, r)
      PROVE  NoneStarts
  BY <1>6 DEF NoneStarts, ExecutingTurns, Executing, LeaseLive, SaveTurn, storeVars
<1>7. ASSUME NEW t \in Turns, NEW w \in Workers, NEW r \in Reply, NEW n \in 0 .. MaxEvents,
             NEW s \in Final, FinalizeTurn(t, w, s, n, r)
      PROVE  NoneStarts
  <2>1. CASE UNCHANGED storeVars
    BY <2>1 DEF NoneStarts, ExecutingTurns, Executing, LeaseLive, storeVars
  <2>2. ASSUME NEW a \in Final, NEW k \in 0 .. MaxEvents, Settle(t, a, k)
        PROVE  NoneStarts
    BY <1>0, <2>2, SettleExecuting DEF Settle
  <2>3. saved[t] \in 0 .. MaxEvents /\ "error" \in Final /\ "aborted" \in Final
    BY DEF StoreInv, StoreTypeOK, Final
  <2> QED
    BY <1>7, <2>1, <2>2, <2>3 DEF FinalizeTurn
<1>8. ASSUME NEW c \in Chats, DeleteChat(c)
      PROVE  NoneStarts
  <2>1. \A u \in Turns : exec'[u] = exec[u] \/ exec'[u] = NoExecution
    BY <1>8 DEF DeleteChat
  <2>2. UNCHANGED <<lease, deleting>>
    BY <1>8 DEF DeleteChat
  <2> QED
    BY <1>0, <2>1, <2>2 DEF Executing, LeaseLive, NoExecution
<1>9. ASSUME NEW o \in Owners, BeginAccountDeletion(o)
      PROVE  NoneStarts
  BY <1>9 DEF NoneStarts, ExecutingTurns, Executing, LeaseLive, BeginAccountDeletion
<1>10. ASSUME NEW o \in Owners, CancelOwnerTurns(o)
       PROVE  NoneStarts
  <2>1. \A u \in Turns : exec'[u].worker = exec[u].worker /\ exec'[u].finished = exec[u].finished
    BY <1>10 DEF CancelOwnerTurns, StoreInv, StoreTypeOK, Execution
  <2> QED
    BY <1>0, <1>10, <2>1 DEF CancelOwnerTurns, Executing, LeaseLive
<1>11. CASE UNCHANGED storeVars
  BY <1>11 DEF NoneStarts, ExecutingTurns, Executing, LeaseLive, storeVars
<1> QED
  BY <1>1, <1>2, <1>3, <1>4, <1>5, <1>6, <1>7, <1>8, <1>9, <1>10, <1>11 DEF StoreNext

-----------------------------------------------------------------------------
(* Capacity.                                                                *)

\* The count is a count: only finitely many turns ever execute.
CapacityInv == IsFiniteSet(ExecutingTurns) /\ WithinCapacity

LEMMA OneMore ==
  ASSUME NEW S, NEW x, IsFiniteSet(S), NEW limit \in Nat, Cardinality(S) < limit
  PROVE  IsFiniteSet(S \cup {x}) /\ Cardinality(S \cup {x}) <= limit
<1>1. Cardinality(S) \in Nat
  BY FS_CardinalityType
<1>2. /\ IsFiniteSet(S \cup {x})
      /\ Cardinality(S \cup {x}) = IF x \in S THEN Cardinality(S) ELSE Cardinality(S) + 1
  BY FS_AddElement
<1> QED
  BY <1>1, <1>2

LEMMA NoneStartsKeepsCapacity ==
  ASSUME CapacityInv, NoneStarts
  PROVE  CapacityInv'
<1>1. ExecutingTurns' \in SUBSET ExecutingTurns
  BY DEF NoneStarts
<1>2. /\ IsFiniteSet(ExecutingTurns')
      /\ Cardinality(ExecutingTurns') <= Cardinality(ExecutingTurns)
  BY <1>1, FS_Subset DEF CapacityInv
<1>3. ASSUME NEW o \in Owners
      PROVE  Cardinality(ExecutingOf(o)') <= AccountActiveLimit
  <2>1. ExecutingOf(o) \in SUBSET ExecutingTurns
    BY DEF ExecutingOf
  <2>2. IsFiniteSet(ExecutingOf(o))
    BY <2>1, FS_Subset DEF CapacityInv
  <2>3. ExecutingOf(o)' \in SUBSET ExecutingOf(o)
    BY <1>1 DEF ExecutingOf, Owner
  <2>4. IsFiniteSet(ExecutingOf(o)') /\ Cardinality(ExecutingOf(o)') <= Cardinality(ExecutingOf(o))
    BY <2>2, <2>3, FS_Subset
  <2>5. Cardinality(ExecutingOf(o)) <= AccountActiveLimit
    BY DEF CapacityInv, WithinCapacity
  <2> QED
    BY <2>2, <2>4, <2>5, FS_CardinalityType, StoreAssumption
<1>4. Cardinality(ExecutingTurns) <= GlobalActiveLimit
  BY DEF CapacityInv, WithinCapacity
<1>5. Cardinality(ExecutingTurns)' <= GlobalActiveLimit
  BY <1>2, <1>4, FS_CardinalityType, StoreAssumption DEF CapacityInv
<1> QED
  BY <1>2, <1>3, <1>5 DEF CapacityInv, WithinCapacity

LEMMA ClaimKeepsCapacity ==
  ASSUME CapacityInv, NEW t \in Turns, Claims(t)
  PROVE  CapacityInv'
<1>1. /\ Cardinality(ExecutingTurns) < GlobalActiveLimit
      /\ Cardinality(ExecutingOf(Owner(t))) < AccountActiveLimit
  BY DEF Claims, MayClaim
<1>2. IsFiniteSet(ExecutingTurns') /\ Cardinality(ExecutingTurns') <= GlobalActiveLimit
  <2>1. IsFiniteSet(ExecutingTurns) /\ GlobalActiveLimit \in Nat
    BY StoreAssumption DEF CapacityInv
  <2>2. ExecutingTurns' = ExecutingTurns \cup {t}
    BY DEF Claims
  <2> QED
    BY <1>1, <2>1, <2>2, OneMore
<1>3. ASSUME NEW o \in Owners
      PROVE  Cardinality(ExecutingOf(o)') <= AccountActiveLimit
  <2>1. ExecutingOf(o) \in SUBSET ExecutingTurns
    BY DEF ExecutingOf
  <2>2. IsFiniteSet(ExecutingOf(o))
    BY <2>1, FS_Subset DEF CapacityInv
  <2>3. CASE o = Owner(t)
    <3>1. ExecutingOf(o)' = ExecutingOf(o) \cup {t}
      BY <2>3 DEF ExecutingOf, Claims, Owner
    <3>2. Cardinality(ExecutingOf(o)) < AccountActiveLimit /\ AccountActiveLimit \in Nat
      BY <1>1, <2>3, StoreAssumption
    <3> QED
      BY <2>2, <3>1, <3>2, OneMore
  <2>4. CASE o # Owner(t)
    <3>1. ExecutingOf(o)' = ExecutingOf(o)
      BY <2>4 DEF ExecutingOf, Claims, Owner
    <3> QED
      BY <3>1 DEF CapacityInv, WithinCapacity
  <2> QED
    BY <2>3, <2>4
<1> QED
  BY <1>2, <1>3 DEF CapacityInv, WithinCapacity

\* Over all workers together, no account and no service runs more turns than
\* its limit allows.
THEOREM CapacityHolds == StoreSpec => []WithinCapacity
<1>1. StoreInit => CapacityInv
  <2> SUFFICES ASSUME StoreInit
               PROVE  CapacityInv
    OBVIOUS
  <2>1. ExecutingTurns = {}
    BY DEF StoreInit, ExecutingTurns, Executing, NoExecution
  <2>2. \A o \in Owners : ExecutingOf(o) = {}
    BY <2>1 DEF ExecutingOf
  <2> QED
    BY <2>1, <2>2, FS_EmptySet, StoreAssumption DEF CapacityInv, WithinCapacity
<1>2. StoreInv /\ CapacityInv /\ [StoreNext]_storeVars => CapacityInv'
  BY StepExecuting, NoneStartsKeepsCapacity, ClaimKeepsCapacity
<1>3. CapacityInv => WithinCapacity
  BY DEF CapacityInv
<1> QED
  BY <1>1, <1>2, <1>3, StoreInvHolds, PTL DEF StoreSpec

-----------------------------------------------------------------------------
(* Account deletion.                                                        *)

\* An account behind the deletion gate whose turns have stopped gets no turn
\* again, so deleting its rows and files cannot overtake an answer.
THEOREM DrainedAccountsStayDrained == StoreSpec => DrainedStaysDrained
<1> DEFINE Keeps == \A o \in Owners : Drained(o) => Drained(o)'
<1>1. StoreInv /\ [StoreNext]_storeVars => Keeps
  <2> SUFFICES ASSUME StoreInv, [StoreNext]_storeVars, NEW o \in Owners, Drained(o)
               PROVE  Drained(o)'
    OBVIOUS
  <2>1. CASE NoneStarts
    BY <2>1 DEF NoneStarts, Drained, ExecutingOf, Owner
  <2>2. ASSUME NEW t \in Turns, Claims(t)
        PROVE  Drained(o)'
    <3>1. Owner(t) # o
      BY <2>2 DEF Claims, MayClaim, Drained
    <3> QED
      BY <2>2, <3>1 DEF Claims, Drained, ExecutingOf, Owner
  <2> QED
    BY <2>1, <2>2, StepExecuting
<1>2. Keeps => [\A o \in Owners : Drained(o) => Drained(o)']_storeVars
  OBVIOUS
<1> QED
  BY <1>1, StoreInvHolds, PTL DEF StoreSpec, DrainedStaysDrained

-----------------------------------------------------------------------------
(* The history of a chat.                                                   *)

\* All that a step can do to what users see: ask a question, answer the open
\* one, delete a chat, stop turns, close an account, or nothing.
Settled(t) ==
  /\ row[t] = "open"
  /\ \E a \in Final, n \in 0 .. MaxEvents :
       /\ Settle(t, a, n)
       /\ Stopped(t) => a # "complete"
Kept ==
  /\ UNCHANGED <<row, messages, chats, deleting>>
  /\ \A t \in Turns : exec'[t].cancel = exec[t].cancel

LEMMA StepCases ==
  ASSUME StoreInv, [StoreNext]_storeVars
  PROVE  \/ Kept
         \/ \E t \in Turns, w \in Workers : ClaimTurn(t, w, "created")
         \/ \E t \in Turns : Settled(t) \/ CancelTurn(t)
         \/ \E c \in Chats : DeleteChat(c)
         \/ \E o \in Owners : BeginAccountDeletion(o) \/ CancelOwnerTurns(o)
<1>1. \A t \in Turns : saved[t] \in 0 .. MaxEvents
  BY DEF StoreInv, StoreTypeOK
<1>2. \A w \in Workers : RegisterLease(w) \/ EndLease(w) => Kept
  BY DEF RegisterLease, EndLease, Kept
<1>3. \A t \in Turns : RecoverTurn(t) => Settled(t)
  BY <1>1 DEF RecoverTurn, Recoverable, Settled, Final
<1>4. \A t \in Turns, w \in Workers : FinishTurnExecution(t, w) => Kept
  BY DEF FinishTurnExecution, Kept, StoreInv, StoreTypeOK, Execution
<1>5. \A t \in Turns, w \in Workers, r \in Reply : ClaimTurn(t, w, r) => r = "created" \/ Kept
  BY DEF ClaimTurn, Kept, storeVars
<1>6. \A t \in Turns, w \in Workers, n \in 0 .. MaxEvents, r \in Reply : SaveTurn(t, w, n, r) => Kept
  BY DEF SaveTurn, Kept, storeVars
<1>7. ASSUME NEW t \in Turns, NEW w \in Workers, NEW s \in Final, NEW n \in 0 .. MaxEvents,
             NEW r \in Reply, FinalizeTurn(t, w, s, n, r)
      PROVE  Settled(t) \/ Kept
  <2>1. CASE UNCHANGED storeVars
    BY <2>1 DEF Kept, storeVars
  <2>2. CASE /\ row[t] = "open"
             /\ r = IF Stopped(t) THEN "aborted" ELSE s
             /\ Settle(t, r, IF Stopped(t) THEN saved[t] ELSE n)
    <3>1. r \in Final /\ (IF Stopped(t) THEN saved[t] ELSE n) \in 0 .. MaxEvents
      BY <1>1, <2>2 DEF Final
    <3>2. Stopped(t) => r # "complete"
      BY <2>2
    <3> QED
      BY <2>2, <3>1, <3>2 DEF Settled
  <2>3. CASE row[t] = "open" /\ r = "error" /\ Settle(t, r, saved[t])
    BY <1>1, <2>3 DEF Settled, Final
  <2> QED
    BY <1>7, <2>1, <2>2, <2>3 DEF FinalizeTurn
<1>8. UNCHANGED storeVars => Kept
  BY DEF Kept, storeVars
<1> QED
  BY <1>2, <1>3, <1>4, <1>5, <1>6, <1>7, <1>8 DEF StoreNext

\* Questions stand at odd positions.
Odd(i) == i % 2 = 1

LEMMA Parity == ~Odd(0) /\ \A i \in Nat : Odd(i) => i \in 1 .. i
BY DEF Odd

LEMMA Evenness == \A i \in Nat : i % 2 = 0 <=> ~Odd(i)
BY DEF Odd

LEMMA PreviousParity == \A i \in Nat \ {0} : ~Odd(i) => i - 1 \in 1 .. i
BY DEF Odd

LEMMA NextParity == \A i \in Nat : Odd(i + 1) <=> ~Odd(i)
BY DEF Odd

\* Which rows the message at position i may be about.
Told(c, i) == IF Odd(i) /\ i = Len(messages[c]) THEN {"open"} ELSE Final

MessageTold(c, i) ==
  LET h == messages[c] IN
  /\ h[i].role = IF Odd(i) THEN "user" ELSE "assistant"
  /\ ChatOf[h[i].turn] = c
  /\ row[h[i].turn] \in Told(c, i)
  /\ ~Odd(i) => h[i].turn = h[i - 1].turn

OpenIsLast(c) ==
  \A t \in Turns : ChatOf[t] = c /\ row[t] = "open" =>
    Odd(Len(messages[c])) /\ messages[c][Len(messages[c])].turn = t

\* The inductive invariant behind the history: messages and rows tell the
\* same, and an open turn is the last question of its chat.
History(c) == (\A i \in 1 .. Len(messages[c]) : MessageTold(c, i)) /\ OpenIsLast(c)
Histories == \A c \in Chats : History(c)

LEMMA MessageTypes ==
  ASSUME StoreTypeOK, NEW c \in Chats
  PROVE  /\ messages[c] \in Seq(Message)
         /\ Len(messages[c]) \in Nat
         /\ \A i \in 1 .. Len(messages[c]) :
              messages[c][i] \in Message /\ messages[c][i].turn \in Turns
<1>1. messages[c] \in Seq(Message)
  BY DEF StoreTypeOK
<1>2. \A i \in 1 .. Len(messages[c]) : messages[c][i] \in Message
  BY <1>1
<1> QED
  BY <1>1, <1>2 DEF Message

LEMMA ClaimHistory ==
  ASSUME StoreInv, Histories, NEW t \in Turns, NEW w \in Workers, ClaimTurn(t, w, "created")
  PROVE  Histories'
<1> SUFFICES ASSUME NEW c \in Chats
             PROVE  History(c)'
  BY DEF Histories
<1> DEFINE h == messages[c]
           m == [role |-> "user", turn |-> t]
<1>1. History(c) /\ StoreTypeOK
  BY DEF Histories, StoreInv
<1>2. /\ h \in Seq(Message) /\ Len(h) \in Nat
      /\ \A i \in 1 .. Len(h) : h[i] \in Message /\ h[i].turn \in Turns
  BY <1>1, MessageTypes
<1>3. PICK n \in Nat : n = Len(h)
  BY <1>2
<1>4. row[t] = "absent" /\ row' = [row EXCEPT ![t] = "open"] /\ OpenIn(ChatOf[t]) = {}
  BY DEF ClaimTurn, MayClaim
<1>5. \A u \in Turns : row'[u] = IF u = t THEN "open" ELSE row[u]
  BY <1>1, <1>4 DEF StoreTypeOK
<1>6. CASE ChatOf[t] # c
  <2>1. messages'[c] = h
    BY <1>1, <1>6 DEF ClaimTurn, StoreTypeOK
  <2>2. \A i \in 1 .. Len(h) : h[i].turn # t
    BY <1>1, <1>6 DEF History, MessageTold
  <2> QED
    BY <1>1, <1>2, <1>5, <1>6, <2>1, <2>2 DEF History, MessageTold, Told, OpenIsLast
<1>7. CASE ChatOf[t] = c
  <2>1. messages'[c] = Append(h, m)
    BY <1>1, <1>7 DEF ClaimTurn, StoreTypeOK
  <2>2. m \in Message /\ m.role = "user" /\ m.turn = t
    BY DEF Message
  <2>3. /\ Len(messages'[c]) = n + 1
        /\ messages'[c][n + 1] = m
        /\ \A i \in 1 .. Len(h) : messages'[c][i] = h[i]
    BY <1>2, <1>3, <2>1, <2>2
  <2>4. \A u \in Turns : ~(ChatOf[u] = c /\ row[u] = "open")
    BY <1>4, <1>7 DEF OpenIn
  <2>5. ~Odd(Len(h))
    <3> SUFFICES ASSUME Odd(Len(h))
                 PROVE  FALSE
      BY <1>2, Parity
    <3>1. Len(h) \in 1 .. Len(h)
      BY <1>2, Parity
    <3>2. MessageTold(c, Len(h))
      BY <1>1, <3>1 DEF History
    <3>3. row[h[Len(h)].turn] = "open" /\ ChatOf[h[Len(h)].turn] = c
      BY <3>2 DEF MessageTold, Told
    <3> QED
      BY <1>2, <2>4, <3>1, <3>3
  <2>6. \A i \in 1 .. Len(h) : h[i].turn # t /\ row[h[i].turn] \in Final
    <3> SUFFICES ASSUME NEW i \in 1 .. Len(h)
                 PROVE  h[i].turn # t /\ row[h[i].turn] \in Final
      OBVIOUS
    <3>1. MessageTold(c, i)
      BY <1>1 DEF History
    <3>2. row[h[i].turn] \in Final
      BY <1>2, <2>5, <3>1 DEF MessageTold, Told
    <3> QED
      BY <1>4, <3>2 DEF Final
  <2>7. ASSUME NEW i \in 1 .. Len(h)
        PROVE  MessageTold(c, i)'
    <3>1. MessageTold(c, i)
      BY <1>1 DEF History
    <3>2. row'[h[i].turn] \in Final
      BY <1>2, <1>5, <2>6
    <3>3. i # n + 1 /\ i \in Nat /\ messages'[c][i] = h[i]
      BY <1>2, <1>3, <2>3
    <3>4. ~Odd(i) => messages'[c][i - 1] = h[i - 1]
      <4>1. ~Odd(i) => i - 1 \in 1 .. i
        BY <1>3, PreviousParity
      <4> QED
        BY <1>2, <1>3, <2>3, <4>1
    <3> QED
      BY <2>3, <3>1, <3>2, <3>3, <3>4 DEF MessageTold, Told
  <2>8. Odd(n + 1)
    BY <1>3, <2>5, NextParity
  <2>9. MessageTold(c, n + 1)'
    BY <1>5, <1>7, <2>2, <2>3, <2>8 DEF MessageTold, Told
  <2>10. OpenIsLast(c)'
    BY <1>5, <2>2, <2>3, <2>4, <2>8 DEF OpenIsLast
  <2>11. \A i \in 1 .. n + 1 : MessageTold(c, i)'
    BY <1>3, <2>7, <2>9
  <2>12. \A i \in 1 .. Len(messages[c])' : MessageTold(c, i)'
    BY <1>3, <2>3, <2>11
  <2> QED
    BY <2>10, <2>12 DEF History
<1> QED
  BY <1>6, <1>7

LEMMA SettleHistory ==
  ASSUME StoreInv, Histories, NEW t \in Turns, Settled(t)
  PROVE  Histories'
<1> SUFFICES ASSUME NEW c \in Chats
             PROVE  History(c)'
  BY DEF Histories
<1> DEFINE h == messages[c]
           m == [role |-> "assistant", turn |-> t]
<1>1. History(c) /\ StoreTypeOK
  BY DEF Histories, StoreInv
<1>2. /\ h \in Seq(Message) /\ Len(h) \in Nat
      /\ \A i \in 1 .. Len(h) : h[i] \in Message /\ h[i].turn \in Turns
  BY <1>1, MessageTypes
<1>3. PICK n \in Nat : n = Len(h)
  BY <1>2
<1>4. PICK a \in Final, k \in 0 .. MaxEvents : Settle(t, a, k)
  BY DEF Settled
<1>5. \A u \in Turns : row'[u] = IF u = t THEN a ELSE row[u]
  BY <1>1, <1>4 DEF Settle, StoreTypeOK
<1>6. row[t] = "open" /\ \A u \in Turns : row'[u] = "open" => row[u] = "open" /\ u # t
  BY <1>5 DEF Settled, Final
<1>7. CASE ChatOf[t] # c
  <2>1. messages'[c] = h
    BY <1>1, <1>4, <1>7 DEF Settle, StoreTypeOK
  <2>2. ASSUME NEW i \in 1 .. Len(h)
        PROVE  MessageTold(c, i)'
    <3>1. MessageTold(c, i)
      BY <1>1 DEF History
    <3>2. row'[h[i].turn] = row[h[i].turn]
      BY <1>2, <1>5, <1>7, <3>1 DEF MessageTold
    <3> QED
      BY <2>1, <3>1, <3>2 DEF MessageTold, Told
  <2>3. OpenIsLast(c)'
    BY <1>1, <1>6, <2>1 DEF History, OpenIsLast
  <2> QED
    BY <2>1, <2>2, <2>3 DEF History
<1>8. CASE ChatOf[t] = c
  <2>1. messages'[c] = Append(h, m)
    BY <1>1, <1>4, <1>8 DEF Settle, StoreTypeOK
  <2>2. m \in Message /\ m.role = "assistant" /\ m.turn = t
    BY DEF Message
  <2>3. /\ Len(messages'[c]) = n + 1
        /\ messages'[c][n + 1] = m
        /\ \A i \in 1 .. Len(h) : messages'[c][i] = h[i]
    BY <1>2, <1>3, <2>1, <2>2
  <2>4. Odd(n) /\ h[n].turn = t
    BY <1>1, <1>3, <1>6, <1>8 DEF History, OpenIsLast
  <2>5. ASSUME NEW i \in 1 .. Len(h)
        PROVE  MessageTold(c, i)'
    <3>1. MessageTold(c, i)
      BY <1>1 DEF History
    <3>2. i # n + 1 /\ i \in Nat /\ messages'[c][i] = h[i]
      BY <1>2, <1>3, <2>3
    <3>3. row'[h[i].turn] \in Final
      <4>1. CASE h[i].turn = t
        BY <1>4, <1>5, <4>1
      <4>2. CASE h[i].turn # t
        <5>1. i # n
          BY <2>4, <4>2
        <5>2. row[h[i].turn] \in Final
          BY <1>3, <3>1, <5>1 DEF MessageTold, Told
        <5> QED
          BY <1>2, <1>5, <4>2, <5>2
      <4> QED
        BY <4>1, <4>2
    <3>4. ~Odd(i) => messages'[c][i - 1] = h[i - 1]
      <4>1. ~Odd(i) => i - 1 \in 1 .. i
        BY <1>3, PreviousParity
      <4> QED
        BY <1>2, <1>3, <2>3, <4>1
    <3> QED
      BY <2>3, <3>1, <3>2, <3>3, <3>4 DEF MessageTold, Told
  <2>6. ~Odd(n + 1)
    BY <1>3, <2>4, NextParity
  <2>7. messages'[c][(n + 1) - 1].turn = t
    <3>1. n \in 1 .. Len(h) /\ (n + 1) - 1 = n
      BY <1>3, <2>4, Parity
    <3> QED
      BY <2>3, <2>4, <3>1
  <2>8. MessageTold(c, n + 1)'
    BY <1>4, <1>5, <1>8, <2>2, <2>3, <2>6, <2>7 DEF MessageTold, Told
  <2>9. \A u \in Turns : ~(ChatOf[u] = c /\ row'[u] = "open")
    BY <1>1, <1>3, <1>6, <2>4 DEF History, OpenIsLast
  <2>10. OpenIsLast(c)'
    BY <2>9 DEF OpenIsLast
  <2>11. \A i \in 1 .. n + 1 : MessageTold(c, i)'
    BY <1>3, <2>5, <2>8
  <2>12. \A i \in 1 .. Len(messages[c])' : MessageTold(c, i)'
    BY <1>3, <2>3, <2>11
  <2> QED
    BY <2>10, <2>12 DEF History
<1> QED
  BY <1>7, <1>8

LEMMA DeleteHistory ==
  ASSUME StoreInv, Histories, NEW d \in Chats, DeleteChat(d)
  PROVE  Histories'
<1> SUFFICES ASSUME NEW c \in Chats
             PROVE  History(c)'
  BY DEF Histories
<1>1. History(c) /\ StoreTypeOK
  BY DEF Histories, StoreInv
<1>2. \A u \in Turns : row'[u] = IF ChatOf[u] = d /\ Exists(u) THEN "deleted" ELSE row[u]
  BY DEF DeleteChat
<1>3. CASE c = d
  <2>1. messages'[c] = << >> /\ Len(<< >>) = 0
    BY <1>1, <1>3 DEF DeleteChat, StoreTypeOK
  <2>2. \A u \in Turns : ~(ChatOf[u] = c /\ row'[u] = "open")
    BY <1>2, <1>3 DEF Exists
  <2>3. \A i \in 1 .. 0 : FALSE
    OBVIOUS
  <2> QED
    BY <2>1, <2>2, <2>3 DEF History, OpenIsLast
<1>4. CASE c # d
  <2>1. messages'[c] = messages[c]
    BY <1>1, <1>4 DEF DeleteChat, StoreTypeOK
  <2>2. ASSUME NEW i \in 1 .. Len(messages[c])
        PROVE  MessageTold(c, i)'
    <3>1. MessageTold(c, i)
      BY <1>1 DEF History
    <3>2. row'[messages[c][i].turn] = row[messages[c][i].turn]
      BY <1>1, <1>2, <1>4, <3>1, MessageTypes DEF MessageTold
    <3> QED
      BY <2>1, <3>1, <3>2 DEF MessageTold, Told
  <2>3. OpenIsLast(c)'
    BY <1>1, <1>2, <1>4, <2>1 DEF History, OpenIsLast
  <2> QED
    BY <2>1, <2>2, <2>3 DEF History
<1> QED
  BY <1>3, <1>4

LEMMA StepHistory == StoreInv /\ Histories /\ [StoreNext]_storeVars => Histories'
<1> SUFFICES ASSUME StoreInv, Histories, [StoreNext]_storeVars
             PROVE  Histories'
  OBVIOUS
<1>1. UNCHANGED <<row, messages>> => Histories'
  BY DEF Histories, History, MessageTold, Told, OpenIsLast
<1>2. CASE Kept
  BY <1>1, <1>2 DEF Kept
<1>3. CASE \E t \in Turns : CancelTurn(t)
  BY <1>1, <1>3 DEF CancelTurn
<1>4. CASE \E o \in Owners : BeginAccountDeletion(o) \/ CancelOwnerTurns(o)
  BY <1>1, <1>4 DEF BeginAccountDeletion, CancelOwnerTurns
<1> QED
  BY <1>2, <1>3, <1>4, StepCases, ClaimHistory, SettleHistory, DeleteHistory

\* Rows and messages tell the same in every behaviour of the store.
THEOREM HistoriesHold == StoreSpec => []Histories
<1>1. StoreInit => Histories
  <2>1. \A i \in 1 .. 0 : FALSE
    OBVIOUS
  <2> QED
    BY <2>1 DEF StoreInit, Histories, History, OpenIsLast
<1> QED
  BY <1>1, StepHistory, StoreInvHolds, PTL DEF StoreSpec

\* The history of a chat is question, answer, question, answer, and only the
\* last question may be open.
THEOREM ConversationsAreInTurns == StoreSpec => []ConversationInTurns
<1>1. StoreInv /\ Histories => ConversationInTurns
  <2> SUFFICES ASSUME StoreInv, Histories, NEW c \in Chats
               PROVE  LET h == messages[c] IN
                      /\ \A i \in 1 .. Len(h) : h[i].role = IF i % 2 = 1 THEN "user" ELSE "assistant"
                      /\ \A i \in 2 .. Len(h) : i % 2 = 0 => h[i].turn = h[i - 1].turn
                      /\ Cardinality(OpenIn(c)) = Len(h) % 2
    BY DEF ConversationInTurns
  <2> DEFINE h == messages[c]
  <2>1. History(c) /\ StoreTypeOK
    BY DEF Histories, StoreInv
  <2>2. PICK n \in Nat : n = Len(h)
    BY <2>1, MessageTypes
  <2>3. \A i \in 1 .. Len(h) : h[i].role = IF i % 2 = 1 THEN "user" ELSE "assistant"
    BY <2>1 DEF History, MessageTold, Odd
  <2>4. \A i \in 2 .. Len(h) : i % 2 = 0 => h[i].turn = h[i - 1].turn
    <3> SUFFICES ASSUME NEW i \in 2 .. Len(h), i % 2 = 0
                 PROVE  h[i].turn = h[i - 1].turn
      OBVIOUS
    <3>1. i \in 1 .. Len(h) /\ ~Odd(i)
      BY <2>2, Evenness
    <3> QED
      BY <2>1, <3>1 DEF History, MessageTold
  <2>5. CASE Odd(n)
    <3>1. n \in 1 .. Len(h)
      BY <2>2, <2>5, Parity
    <3>2. h[n].turn \in Turns
      BY <2>1, <3>1, MessageTypes
    <3>3. row[h[n].turn] = "open" /\ ChatOf[h[n].turn] = c
      BY <2>1, <2>2, <2>5, <3>1 DEF History, MessageTold, Told
    <3>4. OpenIn(c) = {h[n].turn}
      BY <2>1, <2>2, <3>2, <3>3 DEF OpenIn, History, OpenIsLast
    <3>5. Cardinality(OpenIn(c)) = 1
      BY <3>4, FS_Singleton
    <3>6. n % 2 = 1
      BY <2>5 DEF Odd
    <3> QED
      BY <2>2, <2>3, <2>4, <3>5, <3>6
  <2>6. CASE ~Odd(n)
    <3>1. OpenIn(c) = {}
      BY <2>1, <2>2, <2>6 DEF OpenIn, History, OpenIsLast
    <3>2. Cardinality(OpenIn(c)) = 0
      BY <3>1, FS_EmptySet
    <3>3. n % 2 = 0
      BY <2>2, <2>6, Evenness
    <3> QED
      BY <2>2, <2>3, <2>4, <3>2, <3>3
  <2> QED
    BY <2>5, <2>6
<1> QED
  BY <1>1, StoreInvHolds, HistoriesHold, PTL

-----------------------------------------------------------------------------
(* The store implements the contract.                                       *)

Half(n) == (n + 1) \div 2

LEMMA HalfFacts ==
  /\ Half(0) = 0
  /\ \A n \in Nat : Half(n) \in Nat
  /\ \A n \in Nat : Odd(n) => Half(n) > 0 /\ Half(n + 1) = Half(n) /\ 2 * Half(n) - 1 = n
  /\ \A n \in Nat : ~Odd(n) => Half(n + 1) = Half(n) + 1 /\ 2 * (Half(n) + 1) - 1 = n + 1
BY DEF Half, Odd

LEMMA QuestionPositions ==
  \A n \in Nat : \A i \in 1 .. Half(n) :
    2 * i - 1 \in 1 .. n /\ Odd(2 * i - 1)
BY DEF Half, Odd

Shown(t) == IF row[t] = "open" THEN "pending" ELSE row[t]

\* What is read off a chat: as many entries as questions, each about a turn of
\* this chat that is told by its row.
LEMMA TranscriptFacts ==
  ASSUME StoreInv, Histories, NEW c \in Chats
  PROVE  /\ DOMAIN Transcript[c] = 1 .. Half(Len(messages[c]))
         /\ Transcript[c] \in Seq(Contract!Entry)
         /\ Len(Transcript[c]) = Half(Len(messages[c]))
         /\ \A i \in 1 .. Half(Len(messages[c])) :
              /\ Transcript[c][i] = EntryAt(c, i)
              /\ Transcript[c][i].turn = messages[c][2 * i - 1].turn
              /\ Transcript[c][i].turn \in Turns
              /\ ChatOf[Transcript[c][i].turn] = c
              /\ row[Transcript[c][i].turn] \in Final \cup {"open"}
              /\ Transcript[c][i].answer = Shown(Transcript[c][i].turn)
              /\ row[Transcript[c][i].turn] = "open" => Odd(Len(messages[c])) /\ i = Half(Len(messages[c]))
<1> DEFINE h == messages[c]
           T == [i \in 1 .. Half(Len(h)) |-> [turn |-> h[2 * i - 1].turn, answer |-> Shown(h[2 * i - 1].turn)]]
<1>1. Transcript[c] = T
  BY DEF Transcript, ChatTranscript, EntryAt, Half, Shown
<1>2. History(c) /\ StoreTypeOK
  BY DEF Histories, StoreInv
<1>3. PICK n \in Nat : n = Len(h)
  BY <1>2, MessageTypes
<1>4. PICK k \in Nat : k = Half(n)
  BY HalfFacts
<1>5. ASSUME NEW i \in 1 .. k
      PROVE  /\ h[2 * i - 1].turn \in Turns
             /\ ChatOf[h[2 * i - 1].turn] = c
             /\ row[h[2 * i - 1].turn] \in Final \cup {"open"}
             /\ row[h[2 * i - 1].turn] = "open" => Odd(n) /\ i = k
  <2>1. PICK j \in 1 .. n : j = 2 * i - 1 /\ Odd(j)
    BY <1>3, <1>4, QuestionPositions
  <2>2. MessageTold(c, j) /\ h[j].turn \in Turns
    BY <1>2, <1>3, <2>1, MessageTypes DEF History
  <2>3. row[h[j].turn] = "open" => j = n
    BY <1>3, <2>2 DEF MessageTold, Told, Final
  <2>4. j = n => i = k
    BY <1>4, <2>1, HalfFacts
  <2> QED
    BY <1>3, <2>1, <2>2, <2>3, <2>4 DEF MessageTold, Told
<1>6. \A i \in 1 .. k : T[i] = [turn |-> h[2 * i - 1].turn, answer |-> Shown(h[2 * i - 1].turn)]
  BY <1>3, <1>4
<1>7. \A i \in 1 .. k : T[i] = EntryAt(c, i)
  BY <1>6 DEF EntryAt, Shown
<1>8. ASSUME NEW i \in 1 .. k
      PROVE  T[i] \in Contract!Entry
  <2>1. PICK t \in Turns : t = h[2 * i - 1].turn /\ row[t] \in Final \cup {"open"}
    BY <1>5
  <2>2. T[i] = [turn |-> t, answer |-> Shown(t)]
    BY <1>6, <2>1
  <2>3. Shown(t) \in Contract!Answers \cup {"pending"}
    BY <2>1 DEF Contract!Answers, Final, Shown
  <2> HIDE DEF T
  <2> QED
    BY <2>2, <2>3 DEF Contract!Entry
<1>9. T \in [1 .. k -> Contract!Entry]
  BY <1>3, <1>4, <1>8
<1> HIDE DEF T
<1>10. T \in Seq(Contract!Entry) /\ Len(T) = k
  BY <1>4, <1>9
<1> QED
  BY <1>1, <1>3, <1>4, <1>5, <1>6, <1>7, <1>10 DEF T

LEMMA TranscriptKept ==
  ASSUME StoreInv, Histories, NEW c \in Chats, messages'[c] = messages[c],
         \A t \in Turns : ChatOf[t] = c => row'[t] = row[t]
  PROVE  Transcript'[c] = Transcript[c]
<1> DEFINE n == Half(Len(messages[c]))
<1>1. \A i \in 1 .. n : /\ Transcript[c][i] = EntryAt(c, i)
                        /\ Transcript[c][i].turn = messages[c][2 * i - 1].turn
                        /\ messages[c][2 * i - 1].turn \in Turns
                        /\ ChatOf[messages[c][2 * i - 1].turn] = c
  BY TranscriptFacts
<1>2. \A i \in 1 .. n : EntryAt(c, i)' = EntryAt(c, i)
  BY <1>1 DEF EntryAt
<1>3. Transcript'[c] = [i \in 1 .. n |-> EntryAt(c, i)']
  BY DEF Transcript, ChatTranscript, Half
<1>4. Transcript[c] = [i \in 1 .. n |-> EntryAt(c, i)]
  BY DEF Transcript, ChatTranscript, Half
<1> QED
  BY <1>2, <1>3, <1>4

LEMMA TranscriptChanges ==
  ASSUME NEW c \in Chats, NEW X, Transcript'[c] = X,
         \A d \in Chats : d # c => Transcript'[d] = Transcript[d]
  PROVE  Transcript' = [Transcript EXCEPT ![c] = X]
BY DEF Transcript

\* A claim asks a question nobody asked before, in a chat with none open.
LEMMA ClaimAsks ==
  ASSUME StoreInv, Histories, NEW t \in Turns, NEW w \in Workers, ClaimTurn(t, w, "created")
  PROVE  Contract!Ask(t)
<1> DEFINE c == ChatOf[t]
           e == [turn |-> t, answer |-> "pending"]
<1>1. c \in Chats /\ StoreTypeOK
  BY ChatOfTurn DEF StoreInv
<1>2. PICK n \in Nat : n = Len(messages[c])
  BY <1>1, MessageTypes
<1>3. row[t] = "absent" /\ OpenIn(c) = {} /\ Prior(t) = {} /\ c \in chats /\ Owner(t) \notin deleting
  BY DEF ClaimTurn, MayClaim
<1>4. \A u \in Turns : row'[u] = IF u = t THEN "open" ELSE row[u]
  BY <1>1 DEF ClaimTurn, StoreTypeOK
<1>5. \A d \in Chats : \A i \in 1 .. Half(Len(messages[d])) :
        /\ Transcript[d][i].turn \in Turns
        /\ row[Transcript[d][i].turn] \in Final \cup {"open"}
        /\ ChatOf[Transcript[d][i].turn] = d
        /\ Transcript[d][i].answer = Shown(Transcript[d][i].turn)
  BY TranscriptFacts
<1>6. \A d \in Chats : DOMAIN Transcript[d] = 1 .. Half(Len(messages[d]))
  BY TranscriptFacts
<1>7. Contract!Pending(c) = {}
  <2> SUFFICES ASSUME NEW u \in Turns, [turn |-> u, answer |-> "pending"] \in Contract!Entries(c)
               PROVE  FALSE
    BY DEF Contract!Pending
  <2>1. PICK i \in 1 .. Half(Len(messages[c])) : Transcript[c][i] = [turn |-> u, answer |-> "pending"]
    BY <1>1, <1>6 DEF Contract!Entries
  <2>2. row[u] = "open" /\ ChatOf[u] = c
    BY <1>1, <1>5, <2>1 DEF Shown, Final
  <2> QED
    BY <1>3, <2>2 DEF OpenIn
<1>8. \A u \in Contract!Asked : ~Contract!SameRequest(t, u)
  <2> SUFFICES ASSUME NEW u \in Turns, NEW x \in Contract!Entries(ChatOf[u]), x.turn = u
               PROVE  ~Contract!SameRequest(t, u)
    BY DEF Contract!Asked
  <2>1. PICK i \in 1 .. Half(Len(messages[ChatOf[u]])) : Transcript[ChatOf[u]][i] = x
    BY <1>6, ChatOfTurn DEF Contract!Entries
  <2>2. row[u] \in Final \cup {"open"}
    BY <1>5, <2>1, ChatOfTurn
  <2>3. Exists(u)
    BY <2>2 DEF Exists, Final
  <2> QED
    BY <1>3, <2>3 DEF Prior, Owner, Contract!SameRequest
<1>9. Transcript' = [Transcript EXCEPT ![c] = Append(@, e)]
  <2>1. ~Odd(n)
    <3> SUFFICES ASSUME Odd(n)
                 PROVE  FALSE
      OBVIOUS
    <3>1. n \in 1 .. n /\ MessageTold(c, n)
      BY <1>1, <1>2, Parity DEF Histories, History
    <3>2. messages[c][n].turn \in Turns
      BY <1>1, <1>2, <3>1, MessageTypes
    <3>3. row[messages[c][n].turn] = "open" /\ ChatOf[messages[c][n].turn] = c
      BY <1>2, <3>1 DEF MessageTold, Told
    <3> QED
      BY <1>3, <3>2, <3>3 DEF OpenIn
  <2>2. PICK k \in Nat : k = Half(n) /\ Half(n + 1) = k + 1 /\ 2 * (k + 1) - 1 = n + 1
    BY <2>1, HalfFacts
  <2>3. /\ messages'[c] = Append(messages[c], [role |-> "user", turn |-> t])
        /\ \A d \in Chats : d # c => messages'[d] = messages[d]
    BY <1>1 DEF ClaimTurn, StoreTypeOK
  <2>4. /\ Len(messages'[c]) = n + 1
        /\ messages'[c][n + 1].turn = t
        /\ \A i \in 1 .. n : messages'[c][i] = messages[c][i]
    <3>1. [role |-> "user", turn |-> t] \in Message /\ messages[c] \in Seq(Message)
      BY <1>1 DEF Message, StoreTypeOK
    <3> QED
      BY <1>2, <2>3, <3>1
  <2>5. \A d \in Chats : d # c => Transcript'[d] = Transcript[d]
    BY <1>4, <2>3, TranscriptKept
  <2>6. Transcript'[c] = [i \in 1 .. k + 1 |-> EntryAt(c, i)']
    BY <1>1, <2>2, <2>4 DEF Transcript, ChatTranscript, Half
  <2>7. ASSUME NEW i \in 1 .. k
        PROVE  EntryAt(c, i)' = Transcript[c][i]
    <3>1. 2 * i - 1 \in 1 .. n
      BY <2>2, QuestionPositions
    <3>2. messages'[c][2 * i - 1] = messages[c][2 * i - 1]
      BY <2>4, <3>1
    <3>3. /\ Transcript[c][i] = EntryAt(c, i)
          /\ Transcript[c][i].turn = messages[c][2 * i - 1].turn
      BY <1>1, <1>2, <2>2, TranscriptFacts
    <3>4. Transcript[c][i].turn \in Turns /\ row[Transcript[c][i].turn] \in Final \cup {"open"}
      BY <1>1, <1>2, <1>5, <2>2
    <3>5. messages[c][2 * i - 1].turn # t /\ messages[c][2 * i - 1].turn \in Turns
      BY <1>3, <3>3, <3>4 DEF Final
    <3> QED
      BY <1>4, <3>2, <3>3, <3>5 DEF EntryAt
  <2>8. EntryAt(c, k + 1)' = e
    BY <1>4, <2>2, <2>4 DEF EntryAt
  <2>9. Transcript[c] \in Seq(Contract!Entry) /\ Len(Transcript[c]) = k
    BY <1>1, <1>2, <2>2, TranscriptFacts
  <2>10. Transcript'[c] = Append(Transcript[c], e)
    <3> DEFINE A == Append(Transcript[c], e)
    <3>1. e \in Contract!Entry
      BY DEF Contract!Entry
    <3>2. /\ A = [i \in 1 .. k + 1 |-> A[i]]
          /\ \A i \in 1 .. k : A[i] = Transcript[c][i]
          /\ A[k + 1] = e
      BY <2>9, <3>1
    <3> HIDE DEF A
    <3>3. \A i \in 1 .. k + 1 : EntryAt(c, i)' = A[i]
      <4>1. \A i \in 1 .. k + 1 : i \in 1 .. k \/ i = k + 1
        BY <2>2
      <4>2. \A i \in 1 .. k : EntryAt(c, i)' = A[i]
        BY <2>7, <3>2
      <4>3. EntryAt(c, k + 1)' = A[k + 1]
        BY <2>8, <3>2
      <4> QED
        BY <4>1, <4>2, <4>3
    <3>4. Transcript'[c] = A
      BY <2>6, <3>2, <3>3
    <3> QED
      BY <3>4 DEF A
  <2> QED
    BY <1>1, <2>5, <2>10, TranscriptChanges
<1>10. StoppedTurns' = StoppedTurns
  <2>1. exec[t] = NoExecution
    BY <1>3 DEF StoreInv, ExecutionsMatch, ExecutionMatches
  <2>2. \A u \in Turns : exec'[u] =
          IF u = t THEN [worker |-> w, cancel |-> FALSE, finished |-> FALSE] ELSE exec[u]
    BY <1>1 DEF ClaimTurn, StoreTypeOK
  <2>3. exec[t].cancel = FALSE
    BY <2>1 DEF NoExecution
  <2>4. exec'[t].cancel = FALSE
    BY <2>2
  <2>5. \A u \in Turns : exec'[u].cancel = exec[u].cancel
    BY <2>2, <2>3, <2>4
  <2> QED
    BY <2>5 DEF StoppedTurns
<1>11. UNCHANGED <<chats, deleting>>
  BY DEF ClaimTurn
<1> QED
  BY <1>1, <1>3, <1>7, <1>8, <1>9, <1>10, <1>11 DEF Contract!Ask, Owner

\* A terminal row answers the last question of its chat, and a stopped one is
\* not answered "complete".
LEMMA SettleAnswers ==
  ASSUME StoreInv, Histories, NEW t \in Turns, Settled(t)
  PROVE  \E a \in Contract!Answers : Contract!Answer(t, a)
<1> DEFINE c == ChatOf[t]
<1>1. c \in Chats /\ StoreTypeOK /\ row[t] = "open"
  BY ChatOfTurn DEF StoreInv, Settled
<1>2. PICK a \in Final, z \in 0 .. MaxEvents : Settle(t, a, z) /\ (Stopped(t) => a # "complete")
  BY DEF Settled
<1> DEFINE e == [turn |-> t, answer |-> a]
<1>3. PICK n \in Nat : n = Len(messages[c])
  BY <1>1, MessageTypes
<1>4. Odd(n) /\ messages[c][n].turn = t
  BY <1>1, <1>3 DEF Histories, History, OpenIsLast
<1>5. PICK k \in Nat : k = Half(n) /\ k > 0 /\ Half(n + 1) = k /\ 2 * k - 1 = n
  BY <1>4, HalfFacts
<1>6. \A u \in Turns : row'[u] = IF u = t THEN a ELSE row[u]
  BY <1>1, <1>2 DEF Settle, StoreTypeOK
<1>7. a # "open" /\ a \in Contract!Answers
  BY DEF Final, Contract!Answers
<1>8. /\ messages'[c] = Append(messages[c], [role |-> "assistant", turn |-> t])
      /\ \A d \in Chats : d # c => messages'[d] = messages[d]
  BY <1>1, <1>2 DEF Settle, StoreTypeOK
<1>9. /\ Len(messages'[c]) = n + 1
      /\ \A i \in 1 .. n : messages'[c][i] = messages[c][i]
  <2>1. [role |-> "assistant", turn |-> t] \in Message /\ messages[c] \in Seq(Message)
    BY <1>1 DEF Message, StoreTypeOK
  <2> QED
    BY <1>3, <1>8, <2>1
<1>10. /\ Transcript[c] \in Seq(Contract!Entry) /\ Len(Transcript[c]) = k
       /\ DOMAIN Transcript[c] = 1 .. k
       /\ \A i \in 1 .. k :
            /\ Transcript[c][i] = EntryAt(c, i)
            /\ Transcript[c][i].turn = messages[c][2 * i - 1].turn
            /\ Transcript[c][i].turn \in Turns
            /\ row[Transcript[c][i].turn] = "open" => i = k
  <2>1. Half(Len(messages[c])) = k
    BY <1>3, <1>5
  <2> QED
    BY <1>1, <2>1, TranscriptFacts
<1>11. Transcript[c][k] = [turn |-> t, answer |-> "pending"]
  <2>1. k \in 1 .. k
    BY <1>5
  <2> QED
    BY <1>1, <1>4, <1>5, <1>10, <2>1 DEF EntryAt
<1>12. Transcript'[c] = [Transcript[c] EXCEPT ![k] = e]
  <2>1. Transcript'[c] = [i \in 1 .. k |-> EntryAt(c, i)']
    BY <1>1, <1>5, <1>9 DEF Transcript, ChatTranscript, Half
  <2>2. \A i \in 1 .. k : messages'[c][2 * i - 1] = messages[c][2 * i - 1]
    BY <1>5, <1>9, QuestionPositions
  <2>3. ASSUME NEW i \in 1 .. k, i # k
        PROVE  EntryAt(c, i)' = Transcript[c][i]
    <3>1. messages[c][2 * i - 1].turn # t /\ messages[c][2 * i - 1].turn \in Turns
      BY <1>1, <1>10, <2>3
    <3>2. row'[messages'[c][2 * i - 1].turn] = row[messages[c][2 * i - 1].turn]
      BY <1>6, <2>2, <3>1
    <3>3. EntryAt(c, i)' = EntryAt(c, i)
      BY <2>2, <3>2 DEF EntryAt
    <3> QED
      BY <1>10, <3>3
  <2>4. EntryAt(c, k)' = e
    <3>1. k \in 1 .. k
      BY <1>5
    <3>2. messages'[c][2 * k - 1].turn = t /\ row'[t] = a
      BY <1>4, <1>5, <1>6, <2>2, <3>1
    <3> QED
      BY <1>7, <3>2 DEF EntryAt
  <2>5. \A i \in 1 .. k : EntryAt(c, i)' = IF i = k THEN e ELSE Transcript[c][i]
    BY <2>3, <2>4
  <2>6. Transcript'[c] = [i \in 1 .. k |-> IF i = k THEN e ELSE Transcript[c][i]]
    BY <2>1, <2>5
  <2> QED
    BY <1>10, <2>6
<1>13. Transcript' = [Transcript EXCEPT ![c] = [Transcript[c] EXCEPT ![k] = e]]
  <2>1. \A d \in Chats : d # c => Transcript'[d] = Transcript[d]
    BY <1>6, <1>8, TranscriptKept
  <2> QED
    BY <1>1, <1>12, <2>1, TranscriptChanges
<1>14. t \in StoppedTurns \/ OwnerOf[c] \in deleting => a # "complete"
  BY <1>2 DEF Stopped, Owner, StoppedTurns
<1>15. StoppedTurns' = StoppedTurns
  <2>1. \A u \in Turns : exec'[u].cancel = exec[u].cancel
    BY <1>1, <1>2 DEF Settle, StoreTypeOK, Execution
  <2> QED
    BY <2>1 DEF StoppedTurns
<1>16. UNCHANGED <<chats, deleting>>
  BY <1>2 DEF Settle
<1> QED
  BY <1>5, <1>7, <1>10, <1>11, <1>13, <1>14, <1>15, <1>16 DEF Contract!Answer

\* An open turn is a pending entry of its chat.
LEMMA OpenIsPending ==
  ASSUME StoreInv, Histories, NEW t \in Turns, row[t] = "open"
  PROVE  t \in Contract!Pending(ChatOf[t])
<1> DEFINE c == ChatOf[t]
<1>1. c \in Chats /\ StoreTypeOK
  BY ChatOfTurn DEF StoreInv
<1>2. PICK n \in Nat : n = Len(messages[c])
  BY <1>1, MessageTypes
<1>3. Odd(n) /\ messages[c][n].turn = t
  BY <1>1, <1>2 DEF Histories, History, OpenIsLast
<1>4. PICK k \in Nat : k = Half(n) /\ k \in 1 .. k /\ 2 * k - 1 = n
  BY <1>3, HalfFacts
<1>5. DOMAIN Transcript[c] = 1 .. k /\ Transcript[c][k] = EntryAt(c, k)
  BY <1>1, <1>2, <1>4, TranscriptFacts
<1>6. EntryAt(c, k) = [turn |-> t, answer |-> "pending"]
  BY <1>3, <1>4 DEF EntryAt
<1> QED
  BY <1>4, <1>5, <1>6 DEF Contract!Pending, Contract!Entries

\* Only turns that are still open have an execution that can be stopped.
LEMMA UnfinishedIsOpen ==
  ASSUME StoreInv, NEW t \in Turns, Exists(t), ~exec[t].finished
  PROVE  row[t] = "open"
BY DEF StoreInv, StoreTypeOK, RowStatus, ExecutionsMatch, ExecutionMatches, Exists

LEMMA SeenKept ==
  ASSUME UNCHANGED <<row, messages>>
  PROVE  Transcript' = Transcript
BY DEF Transcript, ChatTranscript, EntryAt

LEMMA CancelStops ==
  ASSUME StoreInv, Histories, NEW t \in Turns, CancelTurn(t)
  PROVE  [Contract!Next]_Contract!contractVars
<1>1. Transcript' = Transcript /\ UNCHANGED <<chats, deleting>>
  BY SeenKept DEF CancelTurn
<1>2. CASE exec[t].finished
  <2>1. StoppedTurns' = StoppedTurns
    BY <1>2 DEF CancelTurn, StoppedTurns
  <2> QED
    BY <1>1, <2>1 DEF Contract!contractVars
<1>3. CASE ~exec[t].finished
  <2>1. \A u \in Turns : exec'[u].cancel = IF u = t THEN TRUE ELSE exec[u].cancel
    BY <1>3 DEF CancelTurn, StoreInv, StoreTypeOK, Execution
  <2>2. StoppedTurns' = StoppedTurns \cup {t}
    BY <2>1 DEF StoppedTurns
  <2>3. t \in Contract!Pending(ChatOf[t])
    BY <1>3, OpenIsPending, UnfinishedIsOpen DEF CancelTurn
  <2>4. Contract!Stop({t})
    BY <1>1, <2>2, <2>3 DEF Contract!Stop
  <2> QED
    BY <2>4 DEF Contract!Next
<1> QED
  BY <1>2, <1>3

LEMMA OwnerCancelStops ==
  ASSUME StoreInv, Histories, NEW o \in Owners, CancelOwnerTurns(o)
  PROVE  [Contract!Next]_Contract!contractVars
<1> DEFINE T == {t \in Turns : Exists(t) /\ Owner(t) = o /\ ~exec[t].finished}
<1>1. Transcript' = Transcript /\ UNCHANGED <<chats, deleting>>
  BY SeenKept DEF CancelOwnerTurns
<1>2. \A u \in Turns : exec'[u].cancel = IF u \in T THEN TRUE ELSE exec[u].cancel
  BY DEF CancelOwnerTurns, StoreInv, StoreTypeOK, Execution
<1>3. StoppedTurns' = StoppedTurns \cup T
  BY <1>2 DEF StoppedTurns
<1>4. \A t \in T : t \in Contract!Pending(ChatOf[t])
  BY OpenIsPending, UnfinishedIsOpen
<1>5. T \in SUBSET Turns
  OBVIOUS
<1> HIDE DEF T
<1>6. Contract!Stop(T)
  BY <1>1, <1>3, <1>4 DEF Contract!Stop
<1> QED
  BY <1>5, <1>6 DEF Contract!Next

LEMMA DeleteErases ==
  ASSUME StoreInv, Histories, NEW c \in Chats, DeleteChat(c)
  PROVE  Contract!Erase(c)
<1>1. \A u \in Turns : ChatOf[u] # c => row'[u] = row[u]
  BY DEF DeleteChat
<1>2. StoreTypeOK
  BY DEF StoreInv
<1>3. messages'[c] = << >> /\ \A d \in Chats : d # c => messages'[d] = messages[d]
  BY <1>2 DEF DeleteChat, StoreTypeOK
<1>4. \A d \in Chats : d # c => Transcript'[d] = Transcript[d]
  BY <1>1, <1>3, TranscriptKept
<1>5. Transcript'[c] = << >>
  <2>1. Transcript'[c] = [i \in 1 .. Half(Len(messages'[c])) |-> EntryAt(c, i)']
    BY DEF Transcript, ChatTranscript, Half
  <2>2. Half(Len(messages'[c])) = 0
    BY <1>3, HalfFacts
  <2>3. \A i \in 1 .. 0 : FALSE
    OBVIOUS
  <2> QED
    BY <2>1, <2>2, <2>3
<1>6. Transcript' = [Transcript EXCEPT ![c] = << >>]
  BY <1>4, <1>5, TranscriptChanges
<1>7. \A u \in Turns : exec'[u].cancel <=> ChatOf[u] # c /\ exec[u].cancel
  BY DEF DeleteChat, NoExecution
<1>8. StoppedTurns' = {t \in StoppedTurns : ChatOf[t] # c}
  BY <1>7 DEF StoppedTurns
<1>9. (Chats \ chats)' = (Chats \ chats) \cup {c} /\ UNCHANGED deleting
  BY DEF DeleteChat
<1> QED
  BY <1>6, <1>8, <1>9 DEF Contract!Erase

LEMMA StepContract ==
  ASSUME StoreInv, Histories, [StoreNext]_storeVars
  PROVE  [Contract!Next]_Contract!contractVars
<1>1. CASE Kept
  <2>1. Transcript' = Transcript
    BY <1>1, SeenKept DEF Kept
  <2>2. StoppedTurns' = StoppedTurns
    BY <1>1 DEF Kept, StoppedTurns
  <2> QED
    BY <1>1, <2>1, <2>2 DEF Kept, Contract!contractVars
<1>2. ASSUME NEW t \in Turns, NEW w \in Workers, ClaimTurn(t, w, "created")
      PROVE  [Contract!Next]_Contract!contractVars
  BY <1>2, ClaimAsks DEF Contract!Next
<1>3. ASSUME NEW t \in Turns, Settled(t)
      PROVE  [Contract!Next]_Contract!contractVars
  BY <1>3, SettleAnswers DEF Contract!Next
<1>4. ASSUME NEW t \in Turns, CancelTurn(t)
      PROVE  [Contract!Next]_Contract!contractVars
  BY <1>4, CancelStops
<1>5. ASSUME NEW c \in Chats, DeleteChat(c)
      PROVE  [Contract!Next]_Contract!contractVars
  BY <1>5, DeleteErases DEF Contract!Next
<1>6. ASSUME NEW o \in Owners, BeginAccountDeletion(o)
      PROVE  [Contract!Next]_Contract!contractVars
  <2>1. Transcript' = Transcript
    BY <1>6, SeenKept DEF BeginAccountDeletion
  <2>2. Contract!Close(o)
    BY <1>6, <2>1 DEF BeginAccountDeletion, StoppedTurns, Contract!Close
  <2> QED
    BY <2>2 DEF Contract!Next
<1>7. ASSUME NEW o \in Owners, CancelOwnerTurns(o)
      PROVE  [Contract!Next]_Contract!contractVars
  BY <1>7, OwnerCancelStops
<1> QED
  BY <1>1, <1>2, <1>3, <1>4, <1>5, <1>6, <1>7, StepCases

\* In whatever order the procedures run, users see questions answered once and
\* in turn: every step of the store is a step of the contract or invisible.
THEOREM StoreImplementsContract == StoreSpec => ImplementsContract
<1>1. StoreInit => Contract!Init
  <2> SUFFICES ASSUME StoreInit
               PROVE  Contract!Init
    OBVIOUS
  <2>1. ASSUME NEW c \in Chats
        PROVE  Transcript[c] = << >>
    <3>1. Transcript[c] = [i \in 1 .. Half(Len(messages[c])) |-> EntryAt(c, i)]
      BY DEF Transcript, ChatTranscript, Half
    <3>2. Half(Len(messages[c])) = 0
      BY HalfFacts DEF StoreInit
    <3>3. \A i \in 1 .. 0 : FALSE
      OBVIOUS
    <3> QED
      BY <3>1, <3>2, <3>3
  <2>2. Transcript = [c \in Chats |-> << >>]
    BY <2>1 DEF Transcript
  <2>3. StoppedTurns = {}
    BY DEF StoreInit, StoppedTurns, NoExecution
  <2> QED
    BY <2>2, <2>3 DEF StoreInit, Contract!Init
<1>2. StoreInv /\ Histories /\ [StoreNext]_storeVars => [Contract!Next]_Contract!contractVars
  BY StepContract
<1> QED
  BY <1>1, <1>2, StoreInvHolds, HistoriesHold, PTL DEF StoreSpec, ImplementsContract, Contract!Spec

-----------------------------------------------------------------------------
(* Types of the workers' state.                                              *)

NodeTypeOK ==
  /\ coord \in [Workers -> CoordState]
  /\ pc \in [Turns -> PC]
  /\ host \in [Turns -> Workers \cup {NoWorker}]
  /\ signal \in [Turns -> Signal]
  /\ events \in [Turns -> 0 .. MaxEvents]
  /\ calls \in [Turns -> SUBSET Call]
  /\ reply \in [Turns -> Reply]
DirtyOK == dirty \in [Turns -> BOOLEAN]

\* A turn somebody submitted has a host, and only such a turn has calls out.
HostsKnown ==
  \A t \in Turns :
    /\ pc[t] = "idle" => calls[t] = {}
    /\ pc[t] # "idle" => host[t] \in Workers

NodeInv == NodeTypeOK /\ HostsKnown

LEMMA InitNode == Init => NodeInv /\ DirtyOK
BY StoreAssumption DEF Init, NodeInv, NodeTypeOK, HostsKnown, DirtyOK,
   CoordState, PC, Signal, Reply

LEMMA AwaitKeeps ==
  ASSUME NodeInv, NEW t \in Turns, NEW p \in PC \ {"idle"}, NEW op \in Ops,
         Await(t, p, op), UNCHANGED <<coord, events>>,
         signal' \in [Turns -> Signal],
         host' \in [Turns -> Workers \cup {NoWorker}],
         host'[t] \in Workers,
         \A u \in Turns : u # t => host'[u] = host[u]
  PROVE  NodeInv'
<1>1. [op |-> op, events |-> events[t]] \in Call
  BY DEF Call, NodeInv, NodeTypeOK
<1>2. NodeTypeOK'
  BY <1>1 DEF Await, Goto, Issue, NodeInv, NodeTypeOK, Reply
<1>3. HostsKnown'
  BY DEF Await, Goto, Issue, NodeInv, NodeTypeOK, HostsKnown
<1> QED
  BY <1>2, <1>3 DEF NodeInv

LEMMA AwaitHere ==
  ASSUME NodeInv, NEW t \in Turns, NEW p \in PC \ {"idle"}, NEW op \in Ops,
         Await(t, p, op), pc[t] # "idle",
         UNCHANGED <<coord, host, events>>, signal' \in [Turns -> Signal]
  PROVE  NodeInv'
<1>1. host \in [Turns -> Workers \cup {NoWorker}] /\ host[t] \in Workers
  BY DEF NodeInv, NodeTypeOK, HostsKnown
<1> QED
  BY <1>1, AwaitKeeps

LEMMA AbortKeeps ==
  ASSUME NodeInv, NEW T, AbortAll(T)
  PROVE  signal' \in [Turns -> Signal]
BY DEF AbortAll, Aborted, NodeInv, NodeTypeOK, Signal

LEMMA StatusIsOp == \A sig \in Signal : StopStatus(sig) \in Ops
BY DEF StopStatus, Ops

-----------------------------------------------------------------------------
(* Every step keeps them.                                                    *)

LEMMA WorkerStepsKeepNode ==
  ASSUME NodeInv, NEW w \in Workers,
         \/ StartWorker(w) \/ Heartbeat(w) \/ LoseLease(w) \/ ExpireLease(w)
         \/ Drain(w) \/ StopWorker(w) \/ CrashWorker(w)
         \/ \E t \in Turns : Submit(w, t) \/ Recover(w, t)
  PROVE  NodeInv'
<1> USE DEF NodeInv, NodeTypeOK, HostsKnown
<1>1. ASSUME StartWorker(w) \/ StopWorker(w)
      PROVE  NodeInv'
  BY <1>1 DEF StartWorker, StopWorker, CoordState
<1>2. ASSUME Heartbeat(w)
      PROVE  NodeInv'
  BY <1>2, AbortKeeps DEF Heartbeat
<1>3. ASSUME LoseLease(w) \/ Drain(w)
      PROVE  NodeInv'
  BY <1>3, AbortKeeps DEF LoseLease, Drain, CoordState
<1>4. ASSUME CrashWorker(w)
      PROVE  NodeInv'
  BY <1>4 DEF CrashWorker, CoordState, PC
<1>5. ASSUME NEW t \in Turns, Submit(w, t)
      PROVE  NodeInv'
  <2>1. "claiming" \in PC \ {"idle"} /\ "claim" \in Ops
    BY DEF PC, Ops
  <2>2. /\ host' \in [Turns -> Workers \cup {NoWorker}] /\ host'[t] \in Workers
        /\ \A u \in Turns : u # t => host'[u] = host[u]
    BY <1>5 DEF Submit
  <2>3. Await(t, "claiming", "claim") /\ UNCHANGED <<coord, events>> /\ signal' \in [Turns -> Signal]
    BY <1>5 DEF Submit
  <2> QED
    BY <2>1, <2>2, <2>3, AwaitKeeps
<1>6. ASSUME NEW t \in Turns, Recover(w, t)
      PROVE  NodeInv'
  BY <1>6 DEF Recover, nodeVars
<1>7. ASSUME ExpireLease(w)
      PROVE  NodeInv'
  BY <1>7 DEF ExpireLease, nodeVars
<1> QED
  BY <1>1, <1>2, <1>3, <1>4, <1>5, <1>6, <1>7

LEMMA TurnStepsKeepNode ==
  ASSUME NodeInv, NEW t \in Turns,
         \/ ReceiveClaim(t) \/ ReceiveFirstSave(t) \/ Publish(t)
         \/ SaveProgress(t) \/ ReceiveSave(t) \/ TimeOut(t) \/ Commit(t) \/ Fail(t)
         \/ ReceiveCommit(t) \/ ReceiveStop(t) \/ ReceiveFinish(t)
  PROVE  NodeInv'
<1>0. /\ {"starting", "running", "saving", "committing", "stopping", "finishing", "done"}
           \subseteq PC \ {"idle"}
      /\ {"save", "complete", "finish"} \subseteq Ops
      /\ {"cancelled", "timedOut", "saveError"} \subseteq Signal
      /\ "none" \in Reply
  BY DEF PC, Ops, Signal, Reply
<1>a. signal \in [Turns -> Signal]
  BY DEF NodeInv, NodeTypeOK
<1>1. ASSUME ReceiveClaim(t)
      PROVE  NodeInv'
  <2>1. CASE reply[t] = "refused"
    BY <1>0, <1>1, <2>1 DEF ReceiveClaim, Goto, NodeInv, NodeTypeOK, HostsKnown
  <2>2. CASE reply[t] = "created"
    <3>1. signal' \in [Turns -> Signal]
      BY <1>0, <1>a, <1>1, <2>2 DEF ReceiveClaim
    <3>2. StopStatus(signal'[t]) \in Ops
      BY <3>1, StatusIsOp
    <3>3. UNCHANGED <<coord, host, events>> /\ pc[t] # "idle"
      BY <1>1 DEF ReceiveClaim
    <3>4. Await(t, "starting", "save") \/ Await(t, "stopping", StopStatus(signal'[t]))
      BY <1>1, <2>2 DEF ReceiveClaim
    <3>5. CASE Await(t, "starting", "save")
      BY <1>0, <3>1, <3>3, <3>5, AwaitHere
    <3>6. CASE Await(t, "stopping", StopStatus(signal'[t]))
      BY <1>0, <3>1, <3>2, <3>3, <3>6, AwaitHere
    <3> QED
      BY <3>4, <3>5, <3>6
  <2> QED
    BY <1>1, <2>1, <2>2 DEF ReceiveClaim
<1>2. ASSUME NEW op \in Ops, NEW p \in PC \ {"idle"}, Await(t, p, op), pc[t] # "idle",
             UNCHANGED <<coord, host, signal, events>>
      PROVE  NodeInv'
  <2>1. signal' \in [Turns -> Signal]
    BY <1>a, <1>2
  <2> QED
    BY <1>2, <2>1, AwaitHere
<1>b. StopStatus(signal[t]) \in Ops
  BY <1>a, StatusIsOp
<1>3. ASSUME ReceiveFirstSave(t)
      PROVE  NodeInv'
  <2>1. CASE reply[t] = "ok" /\ signal[t] = "none"
    BY <1>0, <1>3, <2>1 DEF ReceiveFirstSave, Goto, NodeInv, NodeTypeOK, HostsKnown
  <2>2. CASE ~(reply[t] = "ok" /\ signal[t] = "none")
    BY <1>0, <1>2, <1>3, <1>b, <2>2 DEF ReceiveFirstSave
  <2> QED
    BY <2>1, <2>2
<1>4. ASSUME Publish(t)
      PROVE  NodeInv'
  <2>1. events[t] + 1 \in 0 .. MaxEvents
    BY <1>4, StoreAssumption DEF Publish, NodeInv, NodeTypeOK
  <2> QED
    BY <1>4, <2>1 DEF Publish, NodeInv, NodeTypeOK, HostsKnown
<1>5. ASSUME SaveProgress(t) \/ Commit(t)
      PROVE  NodeInv'
  BY <1>0, <1>2, <1>5 DEF SaveProgress, Commit
<1>6. ASSUME ReceiveSave(t)
      PROVE  NodeInv'
  BY <1>0, <1>6 DEF ReceiveSave, Goto, NodeInv, NodeTypeOK, HostsKnown
<1>7. ASSUME TimeOut(t)
      PROVE  NodeInv'
  BY <1>0, <1>7 DEF TimeOut, NodeInv, NodeTypeOK, HostsKnown
<1>8. ASSUME Fail(t)
      PROVE  NodeInv'
  BY <1>0, <1>2, <1>8, <1>b DEF Fail
<1>9. ASSUME ReceiveCommit(t)
      PROVE  NodeInv'
  BY <1>0, <1>2, <1>9, <1>b DEF ReceiveCommit
<1>10. ASSUME ReceiveStop(t)
       PROVE  NodeInv'
  BY <1>0, <1>2, <1>10 DEF ReceiveStop
<1>11. ASSUME ReceiveFinish(t)
       PROVE  NodeInv'
  BY <1>0, <1>11 DEF ReceiveFinish, Goto, NodeInv, NodeTypeOK, HostsKnown
<1> QED
  BY <1>1, <1>3, <1>4, <1>5, <1>6, <1>7, <1>8, <1>9, <1>10, <1>11

LEMMA CallStepsKeepNode ==
  ASSUME NodeInv, NEW t \in Turns,
         \/ \E call \in calls[t] : Execute(t, call)
         \/ LoseAnswer(t) \/ RequestStop(t) \/ AbortHere(t)
  PROVE  NodeInv'
<1>1. ASSUME NEW call \in calls[t], Execute(t, call)
      PROVE  NodeInv'
  <2>1. reply' \in [Turns -> Reply]
    BY <1>1 DEF Execute, NodeInv, NodeTypeOK
  <2>2. calls' \in [Turns -> SUBSET Call] /\ \A u \in Turns : calls'[u] \subseteq calls[u]
    BY <1>1 DEF Execute, NodeInv, NodeTypeOK
  <2> QED
    BY <1>1, <2>1, <2>2 DEF Execute, NodeInv, NodeTypeOK, HostsKnown
<1>2. ASSUME LoseAnswer(t)
      PROVE  NodeInv'
  BY <1>2 DEF LoseAnswer, NodeInv, NodeTypeOK, HostsKnown, Reply
<1>3. ASSUME RequestStop(t)
      PROVE  NodeInv'
  BY <1>3 DEF RequestStop, nodeVars, NodeInv, NodeTypeOK, HostsKnown
<1>4. ASSUME AbortHere(t)
      PROVE  NodeInv'
  BY <1>4, AbortKeeps DEF AbortHere, NodeInv, NodeTypeOK, HostsKnown
<1> QED
  BY <1>1, <1>2, <1>3, <1>4

LEMMA StepNode == NodeInv /\ [Next]_vars => NodeInv'
<1> SUFFICES ASSUME NodeInv, [Next]_vars
             PROVE  NodeInv'
  OBVIOUS
<1>1. CASE UNCHANGED nodeVars
  BY <1>1 DEF nodeVars, NodeInv, NodeTypeOK, HostsKnown
<1>2. CASE UNCHANGED vars
  BY <1>1, <1>2 DEF vars
<1>3. ASSUME NEW c \in Chats, EraseChat(c)
      PROVE  NodeInv'
  BY <1>1, <1>3 DEF EraseChat
<1>4. ASSUME NEW o \in Owners, DeleteAccount(o) \/ DrainOwner(o)
      PROVE  NodeInv'
  BY <1>1, <1>4 DEF DeleteAccount, DrainOwner
<1> QED
  BY <1>2, <1>3, <1>4, WorkerStepsKeepNode, TurnStepsKeepNode, CallStepsKeepNode DEF Next

-----------------------------------------------------------------------------
(* The workers implement the store's specification.                          *)

LEMMA CallIsStoreStep ==
  ASSUME NodeInv, NEW t \in Turns, NEW call \in calls[t], Execute(t, call)
  PROVE  [StoreNext]_storeVars
<1>1. host[t] \in Workers
  BY DEF NodeInv, HostsKnown
<1>2. call.op \in Ops /\ call.events \in 0 .. MaxEvents
  BY DEF NodeInv, NodeTypeOK, Call
<1>3. PICK r \in Reply : Perform(t, call, r)
  BY DEF Execute
<1>4. CASE call.op = "claim" /\ ClaimTurn(t, host[t], r)
  BY <1>1, <1>4 DEF StoreNext
<1>5. CASE call.op = "save" /\ SaveTurn(t, host[t], call.events, r)
  BY <1>1, <1>2, <1>5 DEF StoreNext
<1>6. CASE call.op \in Final /\ FinalizeTurn(t, host[t], call.op, call.events, r)
  BY <1>1, <1>2, <1>6 DEF StoreNext
<1>7. CASE call.op = "finish" /\ FinishTurnExecution(t, host[t])
  BY <1>1, <1>7 DEF StoreNext
<1> QED
  BY <1>3, <1>4, <1>5, <1>6, <1>7 DEF Perform

LEMMA StepIsStoreStep == NodeInv /\ [Next]_vars => [StoreNext]_storeVars
<1> SUFFICES ASSUME NodeInv, [Next]_vars
             PROVE  [StoreNext]_storeVars
  OBVIOUS
<1>1. CASE UNCHANGED storeVars
  BY <1>1
<1>2. CASE UNCHANGED vars
  BY <1>1, <1>2 DEF vars
<1>3. ASSUME NEW w \in Workers, StartWorker(w) \/ ExpireLease(w) \/ StopWorker(w)
      PROVE  [StoreNext]_storeVars
  BY <1>1, <1>3 DEF StartWorker, ExpireLease, StopWorker, StoreNext
<1>4. ASSUME NEW w \in Workers, Heartbeat(w) \/ LoseLease(w) \/ Drain(w) \/ CrashWorker(w)
      PROVE  [StoreNext]_storeVars
  BY <1>1, <1>4 DEF Heartbeat, LoseLease, Drain, CrashWorker
<1>5. ASSUME NEW w \in Workers, NEW t \in Turns, Submit(w, t) \/ Recover(w, t)
      PROVE  [StoreNext]_storeVars
  BY <1>1, <1>5 DEF Submit, Recover, StoreNext
<1>6. ASSUME NEW t \in Turns,
             \/ ReceiveClaim(t) \/ ReceiveFirstSave(t) \/ Publish(t)
             \/ SaveProgress(t) \/ ReceiveSave(t) \/ TimeOut(t) \/ Commit(t) \/ Fail(t)
             \/ ReceiveCommit(t) \/ ReceiveStop(t) \/ ReceiveFinish(t)
             \/ LoseAnswer(t) \/ AbortHere(t)
      PROVE  [StoreNext]_storeVars
  BY <1>1, <1>6 DEF ReceiveClaim, ReceiveFirstSave, Publish, SaveProgress, ReceiveSave,
     TimeOut, Commit, Fail, ReceiveCommit, ReceiveStop, ReceiveFinish, LoseAnswer, AbortHere
<1>7. ASSUME NEW t \in Turns, RequestStop(t)
      PROVE  [StoreNext]_storeVars
  BY <1>7 DEF RequestStop, StoreNext
<1>8. ASSUME NEW c \in Chats, EraseChat(c)
      PROVE  [StoreNext]_storeVars
  BY <1>8 DEF EraseChat, StoreNext
<1>9. ASSUME NEW o \in Owners, DeleteAccount(o) \/ DrainOwner(o)
      PROVE  [StoreNext]_storeVars
  BY <1>9 DEF DeleteAccount, DrainOwner, StoreNext
<1> QED
  BY <1>2, <1>3, <1>4, <1>5, <1>6, <1>7, <1>8, <1>9, CallIsStoreStep DEF Next

LEMMA NodeInvHolds == Spec => []NodeInv
<1>1. Init => NodeInv
  BY InitNode
<1> QED
  BY <1>1, StepNode, PTL DEF Spec

\* Workers, timeouts, lost answers and late calls do nothing to the database
\* that the store's specification does not allow.
THEOREM WorkersImplementStore == Spec => StoreSpec
<1>1. Init => StoreInit
  BY DEF Init
<1> QED
  BY <1>1, NodeInvHolds, StepIsStoreStep, PTL DEF Spec, StoreSpec

-----------------------------------------------------------------------------
(* Types.                                                                    *)

LEMMA StepDirty == DirtyOK /\ [Next]_vars => DirtyOK'
<1> SUFFICES ASSUME DirtyOK, [Next]_vars
             PROVE  DirtyOK'
  OBVIOUS
<1>1. CASE UNCHANGED dirty
  BY <1>1 DEF DirtyOK
<1>2. ASSUME NEW t \in Turns, Publish(t) \/ SaveProgress(t)
      PROVE  DirtyOK'
  BY <1>2 DEF Publish, SaveProgress, DirtyOK
<1>3. ASSUME ~UNCHANGED dirty
      PROVE  \E t \in Turns : Publish(t) \/ SaveProgress(t)
  <2>1. ~UNCHANGED vars /\ ~UNCHANGED nodeVars
    BY <1>3 DEF vars, nodeVars
  <2>2. \A w \in Workers :
          /\ ~StartWorker(w) /\ ~Heartbeat(w) /\ ~LoseLease(w) /\ ~ExpireLease(w)
          /\ ~Drain(w) /\ ~StopWorker(w) /\ ~CrashWorker(w)
          /\ \A t \in Turns : ~Submit(w, t) /\ ~Recover(w, t)
    BY <1>3, <2>1 DEF StartWorker, Heartbeat, LoseLease, ExpireLease, Drain, StopWorker,
       CrashWorker, Submit, Recover
  <2>3. \A t \in Turns :
          /\ ~ReceiveClaim(t) /\ ~ReceiveFirstSave(t) /\ ~ReceiveSave(t) /\ ~TimeOut(t)
          /\ ~Commit(t) /\ ~Fail(t) /\ ~ReceiveCommit(t) /\ ~ReceiveStop(t)
          /\ ~ReceiveFinish(t) /\ ~LoseAnswer(t) /\ ~RequestStop(t) /\ ~AbortHere(t)
          /\ \A call \in calls[t] : ~Execute(t, call)
    BY <1>3, <2>1 DEF ReceiveClaim, ReceiveFirstSave, ReceiveSave, TimeOut, Commit, Fail,
       ReceiveCommit, ReceiveStop, ReceiveFinish, LoseAnswer, RequestStop, AbortHere, Execute
  <2>4. /\ \A c \in Chats : ~EraseChat(c)
        /\ \A o \in Owners : ~DeleteAccount(o) /\ ~DrainOwner(o)
    BY <2>1 DEF EraseChat, DeleteAccount, DrainOwner
  <2> QED
    BY <2>1, <2>2, <2>3, <2>4 DEF Next
<1> QED
  BY <1>1, <1>2, <1>3

\* Every variable of the store and of the workers keeps its type.
THEOREM CoordinationTypes == Spec => []TypeOK
<1>1. Spec => []StoreTypeOK
  BY WorkersImplementStore, StoreTypes, PTL
<1>2. Spec => []DirtyOK
  <2>1. Init => DirtyOK
    BY InitNode
  <2> QED
    BY <2>1, StepDirty, PTL DEF Spec
<1>3. StoreTypeOK /\ NodeInv /\ DirtyOK => TypeOK
  BY DEF NodeInv, NodeTypeOK, DirtyOK, TypeOK
<1> QED
  BY <1>1, <1>2, <1>3, NodeInvHolds, PTL

-----------------------------------------------------------------------------
(* What a worker is told is what is saved.                                   *)

LEMMA SettledStays ==
  ASSUME StoreInv, [StoreNext]_storeVars, NEW u \in Turns
  PROVE  /\ row[u] \in Final => row'[u] \in {row[u], "deleted"}
         /\ row[u] = "deleted" => row'[u] = "deleted"
<1>1. row[u] \in Final => exec[u].finished /\ row[u] # "open" /\ row[u] # "absent"
  BY DEF StoreInv, ExecutionsMatch, ExecutionMatches, Final
<1>2. row[u] = "deleted" => exec[u].worker \notin Workers
  BY StoreAssumption DEF StoreInv, ExecutionsMatch, ExecutionMatches, NoExecution
<1> QED
  BY <1>1, <1>2, StepOnTurn DEF Untouched, Exists

LEMMA PerformTellsSaved ==
  ASSUME StoreInv, NEW t \in Turns, NEW call \in Call, NEW r \in Reply,
         Perform(t, call, r), r \in Final
  PROVE  row'[t] = r
<1>1. FinalizeTurn(t, host[t], call.op, call.events, r)
  BY DEF Perform, ClaimTurn, SaveTurn, Final
<1>2. CASE r = row[t] /\ UNCHANGED storeVars
  BY <1>2 DEF storeVars
<1>3. CASE \E n \in {saved[t], call.events} : Settle(t, r, n)
  BY <1>3 DEF Settle, StoreInv, StoreTypeOK
<1> QED
  BY <1>1, <1>2, <1>3 DEF FinalizeTurn, Final

\* A terminal answer that reaches a worker, and that it publishes, is the one
\* in the database, however many terminal writes were tried, lost or late.
THEOREM AnswersAreSaved == Spec => []AnswerIsSaved
<1>1. Init => AnswerIsSaved
  BY DEF Init, AnswerIsSaved, Final
<1>2. StoreInv /\ NodeInv /\ AnswerIsSaved /\ [Next]_vars => AnswerIsSaved'
  <2> SUFFICES ASSUME StoreInv, NodeInv, AnswerIsSaved, [Next]_vars,
                      NEW u \in Turns, reply'[u] \in Final
               PROVE  row'[u] \in {reply'[u], "deleted"}
    BY DEF AnswerIsSaved
  <2>1. [StoreNext]_storeVars
    BY StepIsStoreStep
  <2>2. CASE reply'[u] = reply[u]
    BY <2>1, <2>2, SettledStays DEF AnswerIsSaved
  <2>3. CASE reply'[u] # reply[u]
    <3>1. PICK t \in Turns : \E call \in calls[t] : Execute(t, call)
      <4>1. ~UNCHANGED reply /\ reply'[u] \notin {"none", "refused"}
        BY <2>3 DEF Final
      <4>2. ~UNCHANGED vars /\ ~UNCHANGED nodeVars
        BY <4>1 DEF vars, nodeVars
      <4>3. reply \in [Turns -> Reply]
        BY DEF NodeInv, NodeTypeOK
      <4>4. \A t \in Turns : \A p, op : ~Await(t, p, op)
        BY <2>3, <4>1, <4>3 DEF Await
      <4>5. \A w \in Workers :
              /\ ~StartWorker(w) /\ ~Heartbeat(w) /\ ~LoseLease(w) /\ ~ExpireLease(w)
              /\ ~Drain(w) /\ ~StopWorker(w) /\ ~CrashWorker(w)
              /\ \A t \in Turns : ~Submit(w, t) /\ ~Recover(w, t)
        BY <4>1, <4>2, <4>4 DEF StartWorker, Heartbeat, LoseLease, ExpireLease, Drain,
           StopWorker, CrashWorker, Submit, Recover
      <4>6. \A t \in Turns :
              /\ ~ReceiveClaim(t) /\ ~SaveProgress(t) /\ ~Publish(t) /\ ~TimeOut(t)
              /\ ~Commit(t) /\ ~Fail(t) /\ ~ReceiveCommit(t) /\ ~ReceiveStop(t)
              /\ ~ReceiveFinish(t) /\ ~RequestStop(t) /\ ~AbortHere(t)
        BY <4>1, <4>2, <4>4 DEF ReceiveClaim, SaveProgress, Publish, TimeOut, Commit, Fail,
           ReceiveCommit, ReceiveStop, ReceiveFinish, RequestStop, AbortHere
      <4>7. \A t \in Turns : ~ReceiveFirstSave(t) /\ ~ReceiveSave(t) /\ ~LoseAnswer(t)
        BY <2>3, <4>1, <4>3, <4>4 DEF ReceiveFirstSave, ReceiveSave, LoseAnswer
      <4>8. /\ \A c \in Chats : ~EraseChat(c)
            /\ \A o \in Owners : ~DeleteAccount(o) /\ ~DrainOwner(o)
        BY <4>2 DEF EraseChat, DeleteAccount, DrainOwner
      <4> QED
        BY <4>2, <4>5, <4>6, <4>7, <4>8 DEF Next
    <3>2. PICK call \in calls[t] : Execute(t, call)
      BY <3>1
    <3>3. PICK r \in Reply :
            /\ Perform(t, call, r)
            /\ reply' = IF call.op \in Awaited(pc[t]) /\ reply[t] = "none"
                        THEN [reply EXCEPT ![t] = r] ELSE reply
      BY <3>2 DEF Execute
    <3>4. u = t /\ reply'[u] = r
      BY <2>3, <3>3 DEF NodeInv, NodeTypeOK
    <3>5. call \in Call
      BY DEF NodeInv, NodeTypeOK
    <3> QED
      BY <3>3, <3>4, <3>5, PerformTellsSaved
  <2> QED
    BY <2>2, <2>3
<1> QED
  BY <1>1, <1>2, NodeInvHolds, WorkersImplementStore, StoreInvHolds, PTL DEF Spec

-----------------------------------------------------------------------------
(* Saved progress.                                                           *)

\* What is known of the snapshots under way: none is ahead of the turn; a
\* terminal write carries all of it; at most one progress save is out, it is
\* not behind what is saved, and no other save starts before it is answered.
Snapshots(t) ==
  /\ saved[t] <= events[t]
  /\ \A call \in calls[t] : call.events <= events[t]
  /\ \A call \in calls[t] : call.op \in Final =>
       /\ call.events = events[t]
       /\ pc[t] \notin {"idle", "claiming", "starting", "running", "saving"}
  /\ \A call, other \in calls[t] : call.op = "save" /\ other.op = "save" => call = other
  /\ \A call \in calls[t] : call.op = "save" =>
       /\ row[t] \in {"absent", "open"} => saved[t] <= call.events
       /\ pc[t] \notin {"idle", "claiming", "committing"}
       /\ pc[t] \in {"starting", "saving"} => reply[t] \in {"none", "refused"}
       /\ pc[t] = "running" => signal[t] = "saveError"
SnapshotsOrdered == \A t \in Turns : Snapshots(t)

LEMMA RowsAdvance ==
  ASSUME StoreInv, [StoreNext]_storeVars, NEW u \in Turns, row'[u] \in {"absent", "open"}
  PROVE  row[u] \in {"absent", "open"}
<1>1. CASE UNCHANGED row
  BY <1>1
<1>2. ASSUME NEW t \in Turns, NEW w \in Workers, ClaimTurn(t, w, "created")
      PROVE  row[u] \in {"absent", "open"}
  BY <1>2 DEF ClaimTurn, StoreInv, StoreTypeOK
<1>3. ASSUME NEW t \in Turns, Settled(t)
      PROVE  row[u] \in {"absent", "open"}
  BY <1>3 DEF Settled, Settle, StoreInv, StoreTypeOK
<1>4. ASSUME NEW c \in Chats, DeleteChat(c)
      PROVE  row[u] \in {"absent", "open"}
  BY <1>4 DEF DeleteChat
<1> QED
  BY <1>1, <1>2, <1>3, <1>4, StepCases
  DEF Kept, CancelTurn, BeginAccountDeletion, CancelOwnerTurns

\* What a step does to a turn whose own code does not run.
Quiet(u) ==
  /\ saved'[u] = saved[u]
  /\ row'[u] \in {"absent", "open"} => row[u] \in {"absent", "open"}
  /\ events'[u] = events[u] /\ calls'[u] = calls[u] /\ reply'[u] = reply[u]
  /\ signal[u] = "saveError" => signal'[u] = "saveError"
  /\ pc'[u] = pc[u] \/ pc'[u] \in {"done", "dead"}

LEMMA QuietKeeps ==
  ASSUME NEW u \in Turns, Snapshots(u), Quiet(u)
  PROVE  Snapshots(u)'
BY DEF Snapshots, Quiet, Final

LEMMA AbortsKeepError ==
  ASSUME NEW T, AbortAll(T), NEW u \in Turns, signal[u] = "saveError"
  PROVE  signal'[u] = "saveError"
BY DEF AbortAll, Aborted

\* Steps of workers, of users and of the clock.
LEMMA QuietSteps ==
  ASSUME StoreInv, NodeInv, [Next]_vars, NEW u \in Turns,
         \/ UNCHANGED vars
         \/ \E w \in Workers :
              \/ StartWorker(w) \/ Heartbeat(w) \/ LoseLease(w) \/ ExpireLease(w)
              \/ Drain(w) \/ StopWorker(w) \/ CrashWorker(w)
              \/ \E t \in Turns : Recover(w, t)
         \/ \E t \in Turns : TimeOut(t) \/ ReceiveFinish(t) \/ RequestStop(t) \/ AbortHere(t)
         \/ \E c \in Chats : EraseChat(c)
         \/ \E o \in Owners : DeleteAccount(o) \/ DrainOwner(o)
  PROVE  Quiet(u)
<1>1. row'[u] \in {"absent", "open"} => row[u] \in {"absent", "open"}
  BY RowsAdvance, StepIsStoreStep
<1>2. pc \in [Turns -> PC] /\ signal \in [Turns -> Signal] /\ saved \in [Turns -> 0 .. MaxEvents]
  BY DEF NodeInv, NodeTypeOK, StoreInv, StoreTypeOK
<1>3. CASE UNCHANGED saved /\ UNCHANGED nodeVars
  BY <1>1, <1>3 DEF Quiet, nodeVars
<1>4. CASE UNCHANGED vars
  BY <1>3, <1>4 DEF vars, storeVars
<1>5. ASSUME NEW w \in Workers, StartWorker(w) \/ StopWorker(w)
      PROVE  Quiet(u)
  BY <1>1, <1>5 DEF Quiet, StartWorker, StopWorker, RegisterLease, EndLease, storeVars
<1>6. ASSUME NEW w \in Workers, Heartbeat(w) \/ LoseLease(w) \/ Drain(w)
      PROVE  Quiet(u)
  BY <1>1, <1>6, AbortsKeepError DEF Quiet, Heartbeat, LoseLease, Drain, storeVars
<1>7. ASSUME NEW w \in Workers, CrashWorker(w)
      PROVE  Quiet(u)
  BY <1>1, <1>7 DEF Quiet, CrashWorker, storeVars
<1>8. ASSUME NEW w \in Workers, ExpireLease(w)
      PROVE  Quiet(u)
  BY <1>3, <1>8 DEF ExpireLease, EndLease
<1>9. ASSUME NEW w \in Workers, NEW t \in Turns, Recover(w, t)
      PROVE  Quiet(u)
  <2>1. saved' = saved
    BY <1>2, <1>9 DEF Recover, RecoverTurn, Settle
  <2> QED
    BY <1>3, <1>9, <2>1 DEF Recover
<1>10. ASSUME NEW t \in Turns, TimeOut(t)
       PROVE  Quiet(u)
  BY <1>1, <1>2, <1>10 DEF Quiet, TimeOut, storeVars
<1>11. ASSUME NEW t \in Turns, ReceiveFinish(t)
       PROVE  Quiet(u)
  BY <1>1, <1>2, <1>11 DEF Quiet, ReceiveFinish, Goto, storeVars
<1>12. ASSUME NEW t \in Turns, AbortHere(t)
       PROVE  Quiet(u)
  BY <1>1, <1>12, AbortsKeepError DEF Quiet, AbortHere, storeVars
<1>13. ASSUME NEW t \in Turns, RequestStop(t)
       PROVE  Quiet(u)
  BY <1>3, <1>13 DEF RequestStop, CancelTurn
<1>14. ASSUME NEW c \in Chats, EraseChat(c)
       PROVE  Quiet(u)
  BY <1>3, <1>14 DEF EraseChat, DeleteChat
<1>15. ASSUME NEW o \in Owners, DeleteAccount(o) \/ DrainOwner(o)
       PROVE  Quiet(u)
  BY <1>3, <1>15 DEF DeleteAccount, DrainOwner, BeginAccountDeletion, CancelOwnerTurns
<1> QED
  BY <1>4, <1>5, <1>6, <1>7, <1>8, <1>9, <1>10, <1>11, <1>12, <1>13, <1>14, <1>15

\* A turn's code issues a call and waits for it: a terminal write when it
\* stops for good, a progress save when none is out.
LEMMA IssueKeeps ==
  ASSUME NodeInv, NEW u \in Turns, Snapshots(u), NEW p \in PC, NEW op \in Ops,
         Await(u, p, op), saved'[u] = saved[u], row'[u] = row[u], events'[u] = events[u],
         op \in Final => p \in {"committing", "stopping"},
         op = "save" => /\ p \in {"starting", "saving"}
                        /\ \A call \in calls[u] : call.op # "save",
         p = "committing" => \A call \in calls[u] : call.op # "save",
         p \in {"claiming", "starting", "saving"} => pc[u] \in {"idle", "claiming", "running"},
         p = "claiming" => calls[u] = {},
         p # "idle" /\ p # "running"
  PROVE  Snapshots(u)'
<1> DEFINE new == [op |-> op, events |-> events[u]]
<1>1. /\ pc'[u] = p /\ reply'[u] = "none"
      /\ calls'[u] = calls[u] \cup {new}
  BY DEF Await, Goto, Issue, NodeInv, NodeTypeOK
<1>2. new.op = op /\ new.events = events[u]
  OBVIOUS
<1>3. events[u] \in Nat
  BY StoreAssumption DEF NodeInv, NodeTypeOK
<1> HIDE DEF new
<1>4. \A call \in calls'[u] : call.events <= events[u]
  BY <1>1, <1>2, <1>3 DEF Snapshots
<1>5. ASSUME NEW call \in calls'[u], call.op \in Final
      PROVE  call.events = events[u] /\ p \notin {"idle", "claiming", "starting", "running", "saving"}
  <2>1. CASE call \in calls[u]
    BY <1>5, <2>1 DEF Snapshots
  <2>2. CASE call = new
    BY <1>2, <1>5, <2>2
  <2> QED
    BY <1>1, <2>1, <2>2
<1>6. \A call, other \in calls'[u] : call.op = "save" /\ other.op = "save" => call = other
  BY <1>1, <1>2 DEF Snapshots
<1>7. ASSUME NEW call \in calls'[u], call.op = "save"
      PROVE  /\ row[u] \in {"absent", "open"} => saved[u] <= call.events
             /\ p \notin {"idle", "claiming", "committing"}
  <2>1. CASE call \in calls[u]
    BY <1>7, <2>1 DEF Snapshots
  <2>2. CASE call = new
    BY <1>2, <1>7, <2>2 DEF Snapshots
  <2> QED
    BY <1>1, <2>1, <2>2
<1> QED
  BY <1>1, <1>4, <1>5, <1>6, <1>7 DEF Snapshots

LEMMA TurnStepsKeepSnapshots ==
  ASSUME StoreInv, NodeInv, SnapshotsOrdered, NEW t \in Turns, NEW u \in Turns,
         \/ \E w \in Workers : Submit(w, t)
         \/ ReceiveClaim(t) \/ ReceiveFirstSave(t) \/ Publish(t)
         \/ SaveProgress(t) \/ ReceiveSave(t) \/ Commit(t) \/ Fail(t)
         \/ ReceiveCommit(t) \/ ReceiveStop(t) \/ LoseAnswer(t)
  PROVE  Snapshots(u)' /\ saved' = saved
<1>1. Snapshots(u) /\ Snapshots(t)
  BY DEF SnapshotsOrdered
<1>2. UNCHANGED storeVars
  BY DEF Submit, ReceiveClaim, ReceiveFirstSave, Publish, SaveProgress, ReceiveSave,
     Commit, Fail, ReceiveCommit, ReceiveStop, LoseAnswer
<1>3. UNCHANGED <<saved, row>>
  BY <1>2 DEF storeVars
<1>4. NodeTypeOK
  BY DEF NodeInv
<1>5. CASE u # t
  <2>1. /\ events'[u] = events[u] /\ calls'[u] = calls[u] /\ reply'[u] = reply[u]
        /\ signal'[u] = signal[u] /\ pc'[u] = pc[u]
    BY <1>4, <1>5 DEF NodeTypeOK, Await, Goto, Issue, Submit, ReceiveClaim, ReceiveFirstSave,
       Publish, SaveProgress, ReceiveSave, Commit, Fail, ReceiveCommit, ReceiveStop, LoseAnswer
  <2>2. Quiet(u)
    BY <1>3, <2>1 DEF Quiet
  <2> QED
    BY <1>1, <1>3, <2>2, QuietKeeps
<1>6. CASE u = t
  <2> SUFFICES Snapshots(t)'
    BY <1>3, <1>6
  <2>0. /\ {"starting", "running", "saving", "committing", "stopping", "finishing", "claiming"} \subseteq PC
        /\ {"claim", "save", "complete", "finish", "error", "aborted"} \subseteq Ops
        /\ {"claim", "save", "finish"} \cap Final = {}
    BY DEF PC, Ops, Final
  <2>a. \A sig : StopStatus(sig) \in Ops \cap Final /\ StopStatus(sig) # "save"
    BY DEF StopStatus, Ops, Final
  <2>b. ASSUME NEW sig, Await(t, "stopping", StopStatus(sig)), events' = events
        PROVE  Snapshots(t)'
    BY <1>1, <1>3, <2>0, <2>a, <2>b, IssueKeeps
  <2>c. ASSUME Await(t, "finishing", "finish"), events' = events
        PROVE  Snapshots(t)'
    BY <1>1, <1>3, <2>0, <2>c, IssueKeeps
  <2>1. ASSUME NEW w \in Workers, Submit(w, t)
        PROVE  Snapshots(t)'
    <3>1. pc[t] = "idle" /\ calls[t] = {} /\ Await(t, "claiming", "claim") /\ events' = events
      BY <2>1 DEF Submit, NodeInv, HostsKnown
    <3> QED
      BY <1>1, <1>3, <2>0, <3>1, IssueKeeps
  <2>2. CASE ReceiveClaim(t)
    <3>1. pc[t] = "claiming" /\ events' = events
      BY <2>2 DEF ReceiveClaim
    <3>2. \A call \in calls[t] : call.op # "save"
      BY <1>1, <3>1 DEF Snapshots
    <3>3. CASE Await(t, "starting", "save")
      BY <1>1, <1>3, <2>0, <3>1, <3>2, <3>3, IssueKeeps
    <3>4. CASE reply[t] = "refused"
      <4>1. Quiet(t)
        BY <1>3, <1>4, <2>2, <3>4 DEF ReceiveClaim, Goto, Quiet, NodeTypeOK
      <4> QED
        BY <1>1, <4>1, QuietKeeps
    <3> QED
      BY <2>2, <2>b, <3>1, <3>3, <3>4 DEF ReceiveClaim
  <2>3. CASE ReceiveFirstSave(t)
    <3>1. pc[t] = "starting" /\ events' = events
      BY <2>3 DEF ReceiveFirstSave
    <3>2. CASE reply[t] = "ok" /\ signal[t] = "none"
      <4>1. \A call \in calls[t] : call.op # "save" /\ call.op \notin Final
        BY <1>1, <3>1, <3>2 DEF Snapshots
      <4>2. calls' = calls
        BY <2>3, <3>2 DEF ReceiveFirstSave
      <4> QED
        BY <1>1, <1>3, <3>1, <4>1, <4>2 DEF Snapshots
    <3> QED
      BY <2>3, <2>b, <3>1, <3>2 DEF ReceiveFirstSave
  <2>4. CASE Publish(t)
    <3>1. pc[t] \in {"running", "saving"} /\ events'[t] = events[t] + 1
          /\ UNCHANGED <<pc, signal, calls, reply>>
      BY <1>4, <2>4 DEF Publish, NodeTypeOK
    <3>2. saved[t] \in Nat /\ events[t] \in Nat /\ \A call \in calls[t] : call.events \in Nat
      BY <1>4, StoreAssumption DEF NodeTypeOK, StoreInv, StoreTypeOK, Call
    <3>3. \A call \in calls[t] : call.op \notin Final
      BY <1>1, <3>1 DEF Snapshots
    <3> QED
      BY <1>1, <1>3, <3>1, <3>2, <3>3 DEF Snapshots
  <2>5. CASE SaveProgress(t)
    <3>1. /\ pc[t] = "running" /\ signal[t] # "saveError"
          /\ Await(t, "saving", "save") /\ events' = events
      BY <2>5 DEF SaveProgress
    <3>2. \A call \in calls[t] : call.op # "save"
      BY <1>1, <3>1 DEF Snapshots
    <3> QED
      BY <1>1, <1>3, <2>0, <3>1, <3>2, IssueKeeps
  <2>6. CASE ReceiveSave(t)
    <3>1. pc[t] = "saving" /\ reply[t] # "none" /\ pc'[t] = "running" /\ UNCHANGED <<events, calls>>
      BY <1>4, <2>6 DEF ReceiveSave, Goto, NodeTypeOK
    <3>2. reply[t] # "ok" => signal'[t] = "saveError"
      BY <1>4, <2>6 DEF ReceiveSave, NodeTypeOK
    <3>3. reply[t] = "ok" => \A call \in calls[t] : call.op # "save"
      BY <1>1, <3>1 DEF Snapshots
    <3>4. \A call \in calls[t] : call.op \notin Final
      BY <1>1, <3>1 DEF Snapshots
    <3> QED
      BY <1>1, <1>3, <3>1, <3>2, <3>3, <3>4 DEF Snapshots
  <2>7. CASE Commit(t)
    <3>1. /\ pc[t] = "running" /\ signal[t] = "none"
          /\ Await(t, "committing", "complete") /\ events' = events
      BY <2>7 DEF Commit
    <3>2. \A call \in calls[t] : call.op # "save"
      BY <1>1, <3>1 DEF Snapshots
    <3> QED
      BY <1>1, <1>3, <2>0, <3>1, <3>2, IssueKeeps
  <2>8. CASE Fail(t)
    BY <2>8, <2>b DEF Fail
  <2>9. CASE ReceiveCommit(t)
    BY <2>9, <2>b, <2>c DEF ReceiveCommit
  <2>10. CASE ReceiveStop(t)
    BY <2>10, <2>c DEF ReceiveStop
  <2>11. CASE LoseAnswer(t)
    <3>1. reply'[t] = "refused" /\ UNCHANGED <<pc, signal, events, calls>>
      BY <1>4, <2>11 DEF LoseAnswer, NodeTypeOK
    <3> QED
      BY <1>1, <1>3, <3>1 DEF Snapshots
  <2> QED
    BY <1>6, <2>1, <2>2, <2>3, <2>4, <2>5, <2>6, <2>7, <2>8, <2>9, <2>10, <2>11
<1> QED
  BY <1>5, <1>6

\* What the database executes, whenever it does: a save not behind what is
\* saved, or a terminal write with all of it.
LEMMA CallsKeepSnapshots ==
  ASSUME StoreInv, NodeInv, SnapshotsOrdered, [Next]_vars,
         NEW t \in Turns, NEW call \in calls[t], Execute(t, call), NEW u \in Turns
  PROVE  Snapshots(u)' /\ saved'[u] >= saved[u]
<1>1. Snapshots(u) /\ Snapshots(t) /\ NodeTypeOK /\ StoreTypeOK
  BY DEF SnapshotsOrdered, NodeInv, StoreInv
<1>2. row'[u] \in {"absent", "open"} => row[u] \in {"absent", "open"}
  BY RowsAdvance, StepIsStoreStep
<1>3. PICK r \in Reply :
        /\ Perform(t, call, r)
        /\ reply' = IF call.op \in Awaited(pc[t]) /\ reply[t] = "none"
                    THEN [reply EXCEPT ![t] = r] ELSE reply
  BY DEF Execute
<1>4. /\ UNCHANGED <<pc, signal, events>>
      /\ calls'[t] = calls[t] \ {call}
      /\ u # t => calls'[u] = calls[u] /\ reply'[u] = reply[u]
  BY <1>1, <1>3 DEF Execute, NodeTypeOK
<1>5. call.op \in Ops /\ call.events \in 0 .. MaxEvents
  BY <1>1 DEF NodeTypeOK, Call
<1>6. saved[t] \in Nat /\ saved[u] \in Nat /\ events[t] \in Nat /\ call.events \in Nat
  BY <1>1, <1>5, StoreAssumption DEF StoreTypeOK, NodeTypeOK
<1>7. u # t => saved'[u] = saved[u]
  BY <1>1, <1>3 DEF Perform, ClaimTurn, SaveTurn, FinalizeTurn, FinishTurnExecution, Settle,
     StoreTypeOK, storeVars
<1>8. \/ saved'[t] = saved[t]
      \/ row[t] \in {"absent", "open"} /\ call.op \in {"save"} \cup Final /\ saved'[t] = call.events
  <2>1. CASE call.op = "claim" /\ ClaimTurn(t, host[t], r)
    BY <2>1 DEF ClaimTurn, storeVars
  <2>2. CASE call.op = "save" /\ SaveTurn(t, host[t], call.events, r)
    <3>1. CASE r = "ok"
      <4>1. ~Fenced(t, host[t]) /\ ~exec[t].finished
        BY <2>2, <3>1 DEF SaveTurn
      <4>2. host[t] # NoWorker
        <5>1. pc[t] # "idle"
          BY DEF NodeInv, HostsKnown
        <5> QED
          BY <5>1, StoreAssumption DEF NodeInv, HostsKnown
      <4>3. exec[t] # NoExecution
        BY <4>1, <4>2 DEF Fenced, NoExecution
      <4>4. row[t] = "open"
        BY <1>1, <4>1, <4>3
        DEF StoreInv, ExecutionsMatch, ExecutionMatches, StoreTypeOK, RowStatus
      <4>5. saved'[t] = saved[t] \/ saved'[t] = call.events
        BY <1>1, <2>2, <3>1 DEF SaveTurn, StoreTypeOK
      <4> QED
        BY <2>2, <4>4, <4>5
    <3>2. CASE r = "refused"
      BY <2>2, <3>2 DEF SaveTurn, storeVars
    <3> QED
      BY <2>2, <3>1, <3>2 DEF SaveTurn
  <2>3. CASE call.op \in Final /\ FinalizeTurn(t, host[t], call.op, call.events, r)
    BY <1>1, <2>3 DEF FinalizeTurn, Settle, StoreTypeOK, storeVars
  <2>4. CASE call.op = "finish" /\ FinishTurnExecution(t, host[t])
    BY <2>4 DEF FinishTurnExecution
  <2> QED
    BY <1>3, <2>1, <2>2, <2>3, <2>4 DEF Perform
<1>9. saved'[t] >= saved[t] /\ saved'[t] <= events[t]
  BY <1>1, <1>6, <1>8 DEF Snapshots
<1>10. CASE u # t
  <2>1. Quiet(u)
    BY <1>2, <1>4, <1>7, <1>10 DEF Quiet
  <2> QED
    BY <1>1, <1>6, <1>7, <1>10, <2>1, QuietKeeps
<1>11. CASE u = t
  <2>1. ASSUME NEW c \in calls'[t], c.op = "save"
        PROVE  /\ row'[t] \in {"absent", "open"} => saved'[t] <= c.events
               /\ pc[t] \in {"starting", "saving"} => reply'[t] \in {"none", "refused"}
    <3>1. c \in calls[t] /\ c # call /\ call.op # "save"
      BY <1>1, <1>4, <2>1 DEF Snapshots
    <3>2. ASSUME row'[t] \in {"absent", "open"}
          PROVE  saved'[t] <= c.events
      <4>1. row[t] \in {"absent", "open"}
        BY <1>2, <1>11, <3>2
      <4>2. saved[t] <= c.events
        BY <1>1, <2>1, <3>1, <4>1 DEF Snapshots
      <4>3. CASE saved'[t] = saved[t]
        BY <4>2, <4>3
      <4>4. CASE call.op \in Final /\ saved'[t] # saved[t]
        <5>1. row'[t] \in Final
          BY <1>1, <1>3, <4>4 DEF Perform, FinalizeTurn, Settle, StoreTypeOK, storeVars, Final,
             ClaimTurn, SaveTurn, FinishTurnExecution
        <5> QED
          BY <3>2, <5>1 DEF Final
      <4> QED
        BY <1>8, <3>1, <4>3, <4>4
    <3>3. ASSUME pc[t] \in {"starting", "saving"}
          PROVE  reply'[t] \in {"none", "refused"}
      <4>1. Awaited(pc[t]) = {"save"}
        BY <3>3 DEF Awaited
      <4>2. reply' = reply
        BY <1>3, <3>1, <4>1
      <4> QED
        BY <1>1, <2>1, <3>1, <3>3, <4>2 DEF Snapshots
    <3> QED
      BY <3>2, <3>3
  <2> QED
    BY <1>1, <1>4, <1>9, <1>11, <2>1 DEF Snapshots
<1> QED
  BY <1>10, <1>11

LEMMA StepSnapshots ==
  ASSUME StoreInv, NodeInv, SnapshotsOrdered, [Next]_vars, NEW u \in Turns
  PROVE  Snapshots(u)' /\ saved'[u] >= saved[u]
<1>1. saved[u] \in Nat /\ Snapshots(u)
  BY DEF StoreInv, StoreTypeOK, SnapshotsOrdered
<1>2. CASE Quiet(u)
  BY <1>1, <1>2, QuietKeeps DEF Quiet
<1>3. ASSUME NEW t \in Turns,
             \/ \E w \in Workers : Submit(w, t)
             \/ ReceiveClaim(t) \/ ReceiveFirstSave(t) \/ Publish(t)
             \/ SaveProgress(t) \/ ReceiveSave(t) \/ Commit(t) \/ Fail(t)
             \/ ReceiveCommit(t) \/ ReceiveStop(t) \/ LoseAnswer(t)
      PROVE  Snapshots(u)' /\ saved'[u] >= saved[u]
  BY <1>1, <1>3, TurnStepsKeepSnapshots
<1>4. ASSUME NEW t \in Turns, NEW call \in calls[t], Execute(t, call)
      PROVE  Snapshots(u)' /\ saved'[u] >= saved[u]
  BY <1>4, CallsKeepSnapshots
<1> QED
  BY <1>2, <1>3, <1>4, QuietSteps DEF Next

\* The saved events of a turn never get fewer, whatever is lost, given up or
\* committed late.
THEOREM ProgressIsKept == Spec => ProgressNeverRegresses
<1>1. Init => SnapshotsOrdered
  BY StoreAssumption DEF Init, StoreInit, SnapshotsOrdered, Snapshots
<1>2. StoreInv /\ NodeInv /\ SnapshotsOrdered /\ [Next]_vars => SnapshotsOrdered'
  BY StepSnapshots DEF SnapshotsOrdered
<1>3. StoreInv /\ NodeInv /\ SnapshotsOrdered /\ [Next]_vars
        => [\A t \in Turns : saved'[t] >= saved[t]]_vars
  BY StepSnapshots
<1>4. Spec => []StoreInv
  BY WorkersImplementStore, StoreInvHolds, PTL
<1> QED
  BY <1>1, <1>2, <1>3, <1>4, NodeInvHolds, PTL DEF Spec, ProgressNeverRegresses

\* What users see of the workers is the contract of the store: questions
\* answered once and in turn, histories without gaps.
THEOREM WorkersKeepContract == Spec => ImplementsContract /\ []ConversationInTurns
BY WorkersImplementStore, StoreImplementsContract, ConversationsAreInTurns, PTL

=================================================================================
