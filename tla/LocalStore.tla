------------------------------ MODULE LocalStore ------------------------------
(***************************************************************************)
(* The chat turns of the store of a single process: class AccountStore of  *)
(* src/server/accountStore.ts.  Its maps are memory; after every change    *)
(* persist writes all of them to a new file that replaces the old one.     *)
(* The leases of workers and the executions are in memory only.            *)
(*                                                                         *)
(* A call runs to its end on the one Node thread: it is one action, after  *)
(* which memory and file agree.  A crash before the file is replaced is a  *)
(* crash before the call, but for finalizeTurn, which persists twice.  As  *)
(* in TurnStore any caller may call any method at any time.                *)
(***************************************************************************)
EXTENDS Naturals, Sequences, FiniteSets, Filters

CONSTANTS
  Turns, Chats, Owners,
  ChatOf, RequestOf, OwnerOf,  \* as in TurnStore
  AccountActiveLimit, GlobalActiveLimit,
  MaxStarts                    \* bound of this model on starts of the process

ASSUME LocalAssumption ==
  /\ ChatOf \in [Turns -> Chats] /\ OwnerOf \in [Chats -> Owners]
  /\ DOMAIN RequestOf = Turns
  /\ AccountActiveLimit \in Nat \ {0} /\ GlobalActiveLimit \in Nat \ {0} /\ MaxStarts \in Nat

VARIABLES
  book,    \* the maps chats and turns, and the file
  exec,    \* executions, while the process is up
  lease,   \* of the worker of this process: "down", "live", "over"
  starts,
  stops    \* history: turns whose cancellation was recorded

vars == <<book, exec, lease, starts, stops>>

Final == {"complete", "error", "aborted"}
Message ==
  [role : {"user"}, turn : Turns] \cup [role : {"assistant"}, turn : Turns, answer : Final]
Execution == [claimed : BOOLEAN, cancelled : BOOLEAN, finished : BOOLEAN]

TypeOK ==
  /\ book \in [chats : SUBSET Chats, talk : [Chats -> Seq(Message)],
               turn : [Turns -> Final \cup {"absent", "open", "deleted"}], named : SUBSET Turns]
  /\ exec \in [Turns -> Execution]
  /\ lease \in {"down", "live", "over"} /\ starts \in 0 .. MaxStarts /\ stops \in SUBSET Turns

NoExecution == [claimed |-> FALSE, cancelled |-> FALSE, finished |-> FALSE]

\* talk: the messages of each chat, an answer with the status it was saved
\* under; turn: the snapshot of each turn, "deleted" once taken out of the
\* map; named: the turns found by their clientRequestId.
Empty ==
  [chats |-> Chats, talk |-> [c \in Chats |-> <<>>],
   turn |-> [t \in Turns |-> "absent"], named |-> {}]

Init ==
  /\ book = Empty
  /\ exec = [t \in Turns |-> NoExecution]
  /\ lease = "down"
  /\ starts = 0
  /\ stops = {}

Up == lease # "down"
Owner(t) == OwnerOf[ChatOf[t]]
Exists(t) == book.turn[t] \notin {"absent", "deleted"}
Unfinished == {t \in Turns : exec[t].claimed /\ ~exec[t].finished}
Executing == IF lease = "live" THEN Unfinished ELSE {}

-----------------------------------------------------------------------------
(* The process.                                                            *)

\* load, and the registration of a new worker.
Start ==
  /\ ~Up /\ starts < MaxStarts
  /\ lease' = "live"
  /\ starts' = starts + 1
  /\ UNCHANGED <<book, exec, stops>>

\* A stalled event loop outlives the lease; releaseWorker ends it.
EndLease ==
  /\ lease = "live"
  /\ lease' = "over"
  /\ UNCHANGED <<book, exec, starts, stops>>

Crash ==
  /\ Up
  /\ lease' = "down"
  /\ exec' = [t \in Turns |-> NoExecution]
  /\ UNCHANGED <<book, starts, stops>>

-----------------------------------------------------------------------------
(* Turns.                                                                  *)

Prior(t) == {p \in book.named : Exists(p) /\ Owner(p) = Owner(t) /\ RequestOf[p] = RequestOf[t]}

MayClaim(t) ==
  /\ lease = "live" /\ Prior(t) = {}
  /\ Cardinality(Executing) < GlobalActiveLimit
  /\ Cardinality({u \in Executing : Owner(u) = Owner(t)}) < AccountActiveLimit
  /\ ChatOf[t] \in book.chats
  /\ \A u \in Turns : ChatOf[u] = ChatOf[t] => book.turn[u] # "open"

ClaimTurn(t) ==
  /\ book.turn[t] = "absent" /\ MayClaim(t)
  /\ book' = [book EXCEPT !.turn[t] = "open", !.named = @ \cup {t},
                         !.talk[ChatOf[t]] = Append(@, [role |-> "user", turn |-> t])]
  /\ exec' = [exec EXCEPT ![t].claimed = TRUE]
  /\ UNCHANGED <<lease, starts, stops>>

\* assertExecution.
Fenced(t) == lease # "live" \/ ~exec[t].claimed

\* A turn that is no longer in the map is put there again, under its own id
\* as its request.
SaveTurn(t) ==
  /\ ~Fenced(t) /\ ~exec[t].finished
  /\ book.turn[t] \notin Final
  /\ book' = [book EXCEPT !.turn[t] = "open"]
  /\ UNCHANGED <<exec, lease, starts, stops>>

\* Mutant of AnswerIn: the answer is only added.
AnswerAdded(t, s) ==
  IF ChatOf[t] \notin book.chats THEN book
  ELSE [book EXCEPT !.talk[ChatOf[t]] = Append(@, [role |-> "assistant", turn |-> t, answer |-> s])]

\* The answer replaces what is saved under its id and comes last.
AnswerIn(t, s) ==
  IF ChatOf[t] \notin book.chats THEN book
  ELSE [book EXCEPT !.talk[ChatOf[t]] =
         Append(Filter(@, {m \in Message : ~(m.role = "assistant" /\ m.turn = t)}),
                [role |-> "assistant", turn |-> t, answer |-> s])]

\* updateChat persists the answer, then the turn is closed and everything
\* persisted again.
Settled(t, s) == [AnswerIn(t, s) EXCEPT !.turn[t] = s]
Finalize(t, s) ==
  \/ /\ book' = Settled(t, s)
     /\ exec' = [exec EXCEPT ![t].finished = exec[t].claimed]
     /\ UNCHANGED <<lease, starts, stops>>
  \/ /\ book' = AnswerIn(t, s)
     /\ lease' = "down"
     /\ exec' = [u \in Turns |-> NoExecution]
     /\ UNCHANGED <<starts, stops>>

\* Mutant of Outcome: what the runner asks for.
OutcomeAsked(t, s) == s

\* A recorded stop turns any answer into "aborted".
Outcome(t, s) == IF exec[t].cancelled THEN "aborted" ELSE s

FinalizeTurn(t, s) ==
  /\ ~Fenced(t) /\ ~exec[t].finished
  /\ book.turn[t] = "open"
  /\ Finalize(t, Outcome(t, s))

FinishTurnExecution(t) ==
  /\ Up /\ exec[t].claimed
  /\ exec' = [exec EXCEPT ![t].finished = TRUE]
  /\ UNCHANGED <<book, lease, starts, stops>>

\* recoverExpiredTurns, one turn of its loop.
RecoverTurn(t) ==
  /\ Up /\ book.turn[t] = "open" /\ t \notin Executing
  /\ Finalize(t, "error")

\* cancelTurn and cancelOwnerTurns: nothing is persisted.
Cancel(T) ==
  /\ Up
  /\ exec' = [t \in Turns |-> IF t \in T \cap Unfinished
                              THEN [exec[t] EXCEPT !.cancelled = TRUE] ELSE exec[t]]
  /\ stops' = stops \cup (T \cap Unfinished)
  /\ UNCHANGED <<book, lease, starts>>
CancelTurn(t) == Exists(t) /\ Cancel({t})
CancelOwnerTurns(o) == Cancel({t \in Turns : Owner(t) = o})

\* The executions are left alone.
DeleteChat(c) ==
  /\ Up /\ c \in book.chats
  /\ book' = [book EXCEPT !.chats = @ \ {c}, !.talk[c] = <<>>,
       !.turn = [t \in Turns |-> IF ChatOf[t] = c /\ Exists(t) THEN "deleted" ELSE @[t]],
       !.named = {t \in @ : ChatOf[t] # c}]
  /\ UNCHANGED <<exec, lease, starts, stops>>

-----------------------------------------------------------------------------
Next ==
  \/ Start \/ EndLease \/ Crash
  \/ \E t \in Turns :
       \/ ClaimTurn(t) \/ SaveTurn(t) \/ FinishTurnExecution(t) \/ RecoverTurn(t) \/ CancelTurn(t)
       \/ \E s \in Final : FinalizeTurn(t, s)
  \/ \E o \in Owners : CancelOwnerTurns(o)
  \/ \E c \in Chats : DeleteChat(c)

Spec == Init /\ [][Next]_vars

-----------------------------------------------------------------------------
(* Properties.                                                             *)

\* Questions stand at the odd places of a chat's messages.
EntryOf(t, turn) == [turn |-> t, answer |-> IF turn[t] = "open" THEN "pending" ELSE turn[t]]
Told(h, turn) == [i \in 1 .. (Len(h) + 1) \div 2 |-> EntryOf(h[2 * i - 1].turn, turn)]
Transcript == [c \in Chats |-> Told(book.talk[c], book.turn)]

Contract == INSTANCE TurnContract WITH
  transcript <- Transcript,
  stopped <- {t \in stops : ChatOf[t] \in book.chats},
  erased <- Chats \ book.chats,
  closed <- {}

\* The store of a single process keeps the promises that the Postgres
\* procedures keep: across crashes at any point, also between the two writes
\* of finalizeTurn, restarts, lost leases and recoveries.
KeepsContract == Contract!Spec

\* The saved conversation tells of every finished turn what the turn itself
\* tells, once and right after its question, also when an answer that a crash
\* left half saved is replaced by a recovery.  The page is drawn from the one
\* and a retry is decided by the other.
AnswersMatchTurns ==
  \A c \in book.chats : \A t \in Turns :
    LET answers == {i \in DOMAIN book.talk[c] :
                      book.talk[c][i].role = "assistant" /\ book.talk[c][i].turn = t} IN
    ChatOf[t] = c /\ book.turn[t] \in Final =>
      /\ Cardinality(answers) = 1
      /\ \A i \in answers : i > 1 /\ book.talk[c][i].answer = book.turn[t]
                                  /\ book.talk[c][i - 1] = [role |-> "user", turn |-> t]

\* "will be permanently deleted" (App.tsx, the confirmation of a deletion): no
\* turn of a deleted chat is found in the store or its file again.
DeletedForGood ==
  \A t \in Turns : ChatOf[t] \notin book.chats => book.turn[t] \in {"absent", "deleted"}
==============================================================================
