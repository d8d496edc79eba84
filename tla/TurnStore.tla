------------------------------ MODULE TurnStore ------------------------------
(***************************************************************************)
(* The Postgres side of turn coordination (supabase/migrations).  Every    *)
(* procedure below is one transaction that takes the account lock and the  *)
(* 'dbchat-turn-coordination' lock, so each is one atomic action.          *)
(*                                                                         *)
(* A procedure has its reply r as a parameter: "refused" stands for an     *)
(* exception or for any answer on which the caller gives up.  The saved    *)
(* snapshot of a turn is abstracted to the number of events it holds.      *)
(*                                                                         *)
(* StoreSpec lets any caller call any procedure at any time, in any order  *)
(* and as often as it likes: a stale worker, a call that was given up and  *)
(* commits late, a retry, a second recovery are all among its behaviours.  *)
(***************************************************************************)
EXTENDS Naturals, Sequences, FiniteSets

CONSTANTS
  Workers, Turns, Chats, Owners, Requests,
  ChatOf,              \* the chat each attempt (turn id) is posted to
  RequestOf,           \* its clientRequestId; a retry has the same one
  OwnerOf,             \* the account a chat belongs to
  AccountActiveLimit,  \* maxActiveTurnsPerUser
  GlobalActiveLimit,   \* maxActiveTurns
  MaxEvents,           \* bound of this model on the events of one turn
  NoWorker             \* the worker of an absent execution row

ASSUME StoreAssumption ==
  /\ ChatOf \in [Turns -> Chats]
  /\ RequestOf \in [Turns -> Requests]
  /\ OwnerOf \in [Chats -> Owners]
  /\ AccountActiveLimit \in Nat \ {0}
  /\ GlobalActiveLimit \in Nat \ {0}
  /\ MaxEvents \in Nat
  /\ NoWorker \notin Workers

VARIABLES
  lease,     \* dbchat_workers.lease_until: "none" (no row), "live", "over"
  row,       \* dbchat_turns: status and finalized flag of each turn
  saved,     \* dbchat_turns.snapshot: events in the saved snapshot
  exec,      \* dbchat_turn_executions
  chats,     \* dbchat_chats: the chats that exist
  messages,  \* dbchat_messages of each chat, in position order
  deleting   \* dbchat_account_deletions: accounts behind the deletion gate

storeVars == <<lease, row, saved, exec, chats, messages, deleting>>

Final == {"complete", "error", "aborted"}
RowStatus == {"absent", "open", "deleted"} \cup Final
Reply == {"none", "created", "ok", "refused"} \cup Final
Execution == [worker : Workers \cup {NoWorker}, cancel : BOOLEAN, finished : BOOLEAN]
NoExecution == [worker |-> NoWorker, cancel |-> FALSE, finished |-> FALSE]
Message == [role : {"user", "assistant"}, turn : Turns]

StoreTypeOK ==
  /\ lease \in [Workers -> {"none", "live", "over"}]
  /\ row \in [Turns -> RowStatus]
  /\ saved \in [Turns -> 0 .. MaxEvents]
  /\ exec \in [Turns -> Execution]
  /\ chats \subseteq Chats
  /\ messages \in [Chats -> Seq(Message)]
  /\ deleting \subseteq Owners

StoreInit ==
  /\ lease = [w \in Workers |-> "none"]
  /\ row = [t \in Turns |-> "absent"]
  /\ saved = [t \in Turns |-> 0]
  /\ exec = [t \in Turns |-> NoExecution]
  /\ chats = Chats
  /\ messages = [c \in Chats |-> <<>>]
  /\ deleting = {}

-----------------------------------------------------------------------------
(* What the procedures read.                                               *)

Owner(t) == OwnerOf[ChatOf[t]]
Exists(t) == row[t] \notin {"absent", "deleted"}
LeaseLive(w) == lease[w] = "live"

\* The join of executions and workers that counts against capacity.
Executing(t) ==
  /\ exec[t].worker # NoWorker
  /\ ~exec[t].finished
  /\ LeaseLive(exec[t].worker)
ExecutingTurns == {t \in Turns : Executing(t)}
ExecutingOf(o) == {t \in ExecutingTurns : Owner(t) = o}

\* The row unique(user_id, request_id) finds for the request of attempt t.
Prior(t) ==
  {p \in Turns : Exists(p) /\ RequestOf[p] = RequestOf[t] /\ Owner(p) = Owner(t)}
OpenIn(c) == {t \in Turns : ChatOf[t] = c /\ row[t] = "open"}

\* Mutant of Fenced: the claiming worker is compared, its lease is not.
FencedByWorkerOnly(t, w) == exec[t].worker # w

\* dbchat_save_turn_fenced and dbchat_finalize_turn_fenced accept only the
\* worker that claimed the turn, while its lease is live.
Fenced(t, w) == exec[t].worker # w \/ ~LeaseLive(w)

-----------------------------------------------------------------------------
(* Leases.  The clock behind them is module WorkerLease; here a live lease *)
(* may be over at any moment, and is never live again.                     *)

RegisterLease(w) ==
  /\ lease[w] = "none"
  /\ lease' = [lease EXCEPT ![w] = "live"]
  /\ UNCHANGED <<row, saved, exec, chats, messages, deleting>>

EndLease(w) ==
  /\ LeaseLive(w)
  /\ lease' = [lease EXCEPT ![w] = "over"]
  /\ UNCHANGED <<row, saved, exec, chats, messages, deleting>>

-----------------------------------------------------------------------------
(* Claiming.                                                               *)

\* Mutant of MayClaim: one turn too many.
ClaimAtAccountLimit(t, w) ==
  /\ Owner(t) \notin deleting /\ LeaseLive(w) /\ Prior(t) = {}
  /\ Cardinality(ExecutingOf(Owner(t))) <= AccountActiveLimit
  /\ Cardinality(ExecutingTurns) < GlobalActiveLimit
  /\ ChatOf[t] \in chats /\ OpenIn(ChatOf[t]) = {}

\* The admission checks of dbchat_claim_turn_coordinated, of the claim with
\* limits and of the original claim, in one transaction.  Daily quota,
\* retained-data quota and message identity are data left out here: they are
\* further reasons for "refused".
MayClaim(t, w) ==
  /\ Owner(t) \notin deleting
  /\ LeaseLive(w)
  /\ Prior(t) = {}
  /\ Cardinality(ExecutingOf(Owner(t))) < AccountActiveLimit
  /\ Cardinality(ExecutingTurns) < GlobalActiveLimit
  /\ ChatOf[t] \in chats
  /\ OpenIn(ChatOf[t]) = {}

ClaimTurn(t, w, r) ==
  \/ /\ r = "created"
     /\ row[t] = "absent"
     /\ MayClaim(t, w)
     /\ row' = [row EXCEPT ![t] = "open"]
     /\ exec' = [exec EXCEPT ![t] = [worker |-> w, cancel |-> FALSE, finished |-> FALSE]]
     /\ messages' = [messages EXCEPT ![ChatOf[t]] = Append(@, [role |-> "user", turn |-> t])]
     /\ UNCHANGED <<lease, saved, chats, deleting>>
  \/ /\ r = "refused"
     /\ UNCHANGED storeVars

-----------------------------------------------------------------------------
(* Writing progress and the terminal answer.                               *)

\* An account behind the gate has its progress silently dropped; a snapshot
\* over the size or retention limit is refused.
SaveTurn(t, w, n, r) ==
  \/ /\ r = "ok"
     /\ ~Fenced(t, w) /\ ~exec[t].finished
     /\ saved' = IF Owner(t) \in deleting THEN saved ELSE [saved EXCEPT ![t] = n]
     /\ UNCHANGED <<lease, row, exec, chats, messages, deleting>>
  \/ /\ r = "refused"
     /\ UNCHANGED storeVars

\* dbchat_finalize_turn_internal and the storage routine under it: terminal
\* row, one assistant message, execution finished, in one transaction.
Settle(t, s, n) ==
  /\ row' = [row EXCEPT ![t] = s]
  /\ saved' = [saved EXCEPT ![t] = n]
  /\ exec' = [exec EXCEPT ![t].finished = TRUE]
  /\ messages' = [messages EXCEPT ![ChatOf[t]] = Append(@, [role |-> "assistant", turn |-> t])]
  /\ UNCHANGED <<lease, chats, deleting>>

\* Mutants of Stopped: one of the two reasons is forgotten.
StoppedByGateOnly(t) == Owner(t) \in deleting
StoppedByUserOnly(t) == exec[t].cancel

\* A recorded stop or a deletion gate turns any answer into "aborted".
Stopped(t) == exec[t].cancel \/ Owner(t) \in deleting

\* Mutant of FinalizeTurn: a repeated call is told what it asked for.
FinalizeEchoes(t, w, s, n, r) ==
  /\ ~Fenced(t, w) /\ r = s
  /\ \/ row[t] \in Final /\ UNCHANGED storeVars
     \/ row[t] = "open" /\ ~exec[t].finished /\ Settle(t, s, n)

FinalizeTurn(t, w, s, n, r) ==
  \/ /\ r = "refused"
     /\ Fenced(t, w) \/ (row[t] = "open" /\ exec[t].finished)
     /\ UNCHANGED storeVars
  \/ /\ r = row[t]
     /\ ~Fenced(t, w) /\ row[t] \in Final
     /\ UNCHANGED storeVars
  \/ /\ ~Fenced(t, w) /\ row[t] = "open" /\ ~exec[t].finished
     /\ \/ /\ r = IF Stopped(t) THEN "aborted" ELSE s
           /\ Settle(t, r, IF Stopped(t) THEN saved[t] ELSE n)
        \* DBCHAT_RETENTION_COMPLETION_LIMIT: keep the saved events, end in error
        \/ /\ r = "error"
           /\ Settle(t, r, saved[t])

\* The runner's acknowledgement that it has stopped; it needs no lease.
FinishTurnExecution(t, w) ==
  /\ exec' = IF exec[t].worker = w THEN [exec EXCEPT ![t].finished = TRUE] ELSE exec
  /\ UNCHANGED <<lease, row, saved, chats, messages, deleting>>

-----------------------------------------------------------------------------
(* Stopping, recovery and deletion.                                        *)

CancelTurn(t) ==
  /\ Exists(t)
  /\ exec' = IF exec[t].finished THEN exec ELSE [exec EXCEPT ![t].cancel = TRUE]
  /\ UNCHANGED <<lease, row, saved, chats, messages, deleting>>

CancelOwnerTurns(o) ==
  /\ exec' = [t \in Turns |->
       IF Exists(t) /\ Owner(t) = o /\ ~exec[t].finished
       THEN [exec[t] EXCEPT !.cancel = TRUE] ELSE exec[t]]
  /\ UNCHANGED <<lease, row, saved, chats, messages, deleting>>

\* Mutant of Recoverable: terminal rows are listed too.
RecoverableTwice(t) == Exists(t) /\ ~Executing(t)

\* The turns dbchat_recoverable_turns lists and dbchat_recover_turn rechecks.
Recoverable(t) == row[t] = "open" /\ ~Executing(t)

RecoverTurn(t) ==
  /\ Recoverable(t)
  /\ Settle(t, "error", saved[t])

\* The chat row cascades to its messages, turns and executions.
DeleteChat(c) ==
  /\ c \in chats /\ OwnerOf[c] \notin deleting
  /\ chats' = chats \ {c}
  /\ messages' = [messages EXCEPT ![c] = <<>>]
  /\ row' = [t \in Turns |-> IF ChatOf[t] = c /\ Exists(t) THEN "deleted" ELSE row[t]]
  /\ exec' = [t \in Turns |-> IF ChatOf[t] = c THEN NoExecution ELSE exec[t]]
  /\ UNCHANGED <<lease, saved, deleting>>

BeginAccountDeletion(o) ==
  /\ o \notin deleting
  /\ deleting' = deleting \cup {o}
  /\ UNCHANGED <<lease, row, saved, exec, chats, messages>>

-----------------------------------------------------------------------------
StoreNext ==
  \/ \E w \in Workers : RegisterLease(w) \/ EndLease(w)
  \/ \E t \in Turns :
       \/ CancelTurn(t) \/ RecoverTurn(t)
       \/ \E w \in Workers :
            \/ FinishTurnExecution(t, w)
            \/ \E r \in Reply :
                 \/ ClaimTurn(t, w, r)
                 \/ \E n \in 0 .. MaxEvents :
                      \/ SaveTurn(t, w, n, r)
                      \/ \E s \in Final : FinalizeTurn(t, w, s, n, r)
  \/ \E c \in Chats : DeleteChat(c)
  \/ \E o \in Owners : BeginAccountDeletion(o) \/ CancelOwnerTurns(o)

StoreSpec == StoreInit /\ [][StoreNext]_storeVars

-----------------------------------------------------------------------------
(* Safety.                                                                 *)

\* The history of a chat is question, answer, question, answer: every
\* question is followed by exactly one answer to it, and only the last one
\* may still be open (one unfinalized turn per chat, one assistant message
\* per turn), whatever claims, finalizations, recoveries and retries race.
ConversationInTurns ==
  \A c \in Chats :
    LET h == messages[c] IN
    /\ \A i \in 1 .. Len(h) : h[i].role = IF i % 2 = 1 THEN "user" ELSE "assistant"
    /\ \A i \in 2 .. Len(h) : i % 2 = 0 => h[i].turn = h[i - 1].turn
    /\ Cardinality(OpenIn(c)) = Len(h) % 2

\* A retry with the same clientRequestId never creates a second turn, also
\* when the answer to the first claim was lost or the claim commits late.
OneTurnPerRequest ==
  \A t, u \in Turns :
    t # u /\ Exists(t) /\ Exists(u) /\ Owner(t) = Owner(u) => RequestOf[t] # RequestOf[u]

\* A stop recorded while the turn was executing wins over a completion that
\* was decided before or is committed late: the saved answer is not complete.
StopWins == \A t \in Turns : row[t] = "complete" => ~exec[t].cancel

\* Turns that execute under live leases never exceed the account limit and the
\* global limit, counted over all workers.
WithinCapacity ==
  /\ Cardinality(ExecutingTurns) <= GlobalActiveLimit
  /\ \A o \in Owners : Cardinality(ExecutingOf(o)) <= AccountActiveLimit

-----------------------------------------------------------------------------
(* What no step may do.                                                    *)

\* A terminal turn stays as it is until its chat goes, whatever stale worker,
\* late call or second recovery reaches the database.
FinalIsFinal ==
  [][\A t \in Turns : row[t] \in Final =>
       /\ row'[t] \in {row[t], "deleted"}
       /\ saved'[t] = saved[t]]_storeVars

\* Once the turns of an account behind the gate have drained they stay
\* drained: no claim, late call or other worker brings one back.
Drained(o) == o \in deleting /\ ExecutingOf(o) = {}
DrainedStaysDrained ==
  [][\A o \in Owners : Drained(o) => Drained(o)']_storeVars

\* A worker that lost its lease changes no saved turn again: whatever it
\* still does, its turns change only by recovery, by a stop, or with the chat.
LostWorkerIsFenced ==
  [][\A t \in Turns :
       Exists(t) /\ ~LeaseLive(exec[t].worker) =>
         row'[t] \in {row[t], "error", "deleted"} /\ saved'[t] = saved[t]]_storeVars

-----------------------------------------------------------------------------
(* What the store promises: TurnContract.                                  *)

\* The entry of question i of a chat, read off its messages and turn rows.
EntryAt(c, i) ==
  LET t == messages[c][2 * i - 1].turn
  IN  [turn |-> t, answer |-> IF row[t] = "open" THEN "pending" ELSE row[t]]

\* A chat as its user sees it, and the turns with a recorded stop.
ChatTranscript(c) == [i \in 1 .. (Len(messages[c]) + 1) \div 2 |-> EntryAt(c, i)]
Transcript == [c \in Chats |-> ChatTranscript(c)]
StoppedTurns == {t \in Turns : exec[t].cancel}

Contract == INSTANCE TurnContract WITH
  transcript <- Transcript, stopped <- StoppedTurns, erased <- Chats \ chats, closed <- deleting

\* Whatever order the procedures run in, users see questions answered once
\* and in turn: the store implements the contract.
ImplementsContract == Contract!Spec
=============================================================================
