------------------------------- MODULE Composer -------------------------------
(***************************************************************************)
(* Asking in a browser tab: submit, cancel and detachTurn of ChatWorkspace *)
(* (src/web/App.tsx) against POST /chats, POST /chat/turns and its abort   *)
(* (src/server/server.ts).  A request may be answered late or not at all,  *)
(* be carried out after the tab gave it up, or be answered to a tab that   *)
(* has moved on; a question is sent again under its old request id.        *)
(*                                                                         *)
(* Reading a chat and following a stream are one step here; they are the   *)
(* matter of ChatPages and Viewing.                                        *)
(***************************************************************************)
EXTENDS Naturals, Sequences, FiniteSets

CONSTANTS
  Questions,
  Requests,   \* clientRequestIds, also a bound on submissions under new ones
  Saved,      \* chats that exist before
  New,        \* chats that may be created
  None,
  MaxVisits   \* bound on generations

VARIABLES
  chats,      \* the chats of the server
  turns,      \* its turns, in order: request, chat, open
  tab,        \* the tab, see Init
  cancelled,  \* cancelledSubmissionsRef: the generation that each request was cancelled in
  posts,      \* submissions under way
  aborts,     \* aborts under way, by turn
  wish, wishes,  \* history: the current wish of the viewer, the wish of each request
  stopped, missed \* history: requests the tab called cancelled, and those whose
                  \* answer was lost after that, or the abort of whose turn was

vars == <<chats, turns, tab, cancelled, posts, aborts, wish, wishes, stopped, missed>>

\* visit: generationRef; starting: startingRef; turn: turnRef; request and
\* question: retryRequestRef; failed: the question of the error that is shown.
Init ==
  /\ chats = Saved
  /\ turns = <<>>
  /\ tab = [chat |-> None, visit |-> 0, starting |-> FALSE, turn |-> None,
            request |-> None, question |-> None, failed |-> None]
  /\ cancelled = [r \in Requests |-> None]
  /\ posts = {}
  /\ aborts = {}
  /\ wish = 0 /\ wishes = [r \in Requests |-> None]
  /\ stopped = {} /\ missed = {}

OpenIn(c) == {t \in DOMAIN turns : turns[t].chat = c /\ turns[t].open}
TurnsOf(r) == {t \in DOMAIN turns : turns[t].request = r}
Move(p, q) == posts' = (posts \ {p}) \cup {q}

-----------------------------------------------------------------------------
(* The viewer.                                                             *)

\* Mutant of Retry: a question is always sent under a new id.
RetryNever(q) == FALSE

\* The request of the last attempt is used again for the same question.
Retry(q) == tab.request # None /\ tab.question = q

\* randomUUID: an id not used before.
Unused == {r \in Requests : wishes[r] = None}
Fresh == IF Unused = {} THEN {} ELSE {CHOOSE r \in Unused : TRUE}

Submit(q) ==
  /\ ~tab.starting /\ tab.turn = None
  /\ \E r \in IF Retry(q) THEN {tab.request} ELSE Fresh :
       /\ tab' = [tab EXCEPT !.starting = TRUE, !.request = r, !.question = q, !.failed = None]
       /\ posts' = posts \cup {[request |-> r, visit |-> tab.visit, chat |-> tab.chat, turn |-> None,
                                step |-> IF tab.chat = None THEN "create" ELSE "send"]}
       /\ wish' = IF tab.failed = q THEN wish ELSE wish + 1
       /\ wishes' = [wishes EXCEPT ![r] = wish']
  /\ UNCHANGED <<chats, turns, cancelled, aborts, stopped, missed>>

Detached(t) ==
  [t EXCEPT !.visit = @ + 1, !.starting = FALSE, !.turn = None, !.request = None,
            !.question = None, !.failed = None]

\* cancel, before there is a turn: "Question cancelled."
CancelStarting ==
  /\ tab.starting /\ tab.visit < MaxVisits
  /\ cancelled' = [cancelled EXCEPT ![tab.request] = tab.visit + 1]
  /\ stopped' = stopped \cup {tab.request}
  /\ tab' = Detached(tab)
  /\ UNCHANGED <<chats, turns, posts, aborts, wish, wishes, missed>>

\* cancel of a turn: the tab keeps listening.
CancelTurn ==
  /\ tab.turn # None
  /\ aborts' = aborts \cup {tab.turn}
  /\ UNCHANGED <<chats, turns, tab, cancelled, posts, wish, wishes, stopped, missed>>

\* Another chat, or a new one: detachTurn; an open turn is resumed.
Visit(c) ==
  /\ c # tab.chat /\ tab.visit < MaxVisits
  /\ tab' = [Detached(tab) EXCEPT !.chat = c,
               !.turn = IF OpenIn(c) = {} THEN None ELSE CHOOSE t \in OpenIn(c) : TRUE]
  /\ UNCHANGED <<chats, turns, cancelled, posts, aborts, wish, wishes, stopped, missed>>

\* The terminal event of the turn that is followed.
AnswerEnds ==
  /\ tab.turn # None /\ ~turns[tab.turn].open
  /\ tab' = [tab EXCEPT !.turn = None]
  /\ UNCHANGED <<chats, turns, cancelled, posts, aborts, wish, wishes, stopped, missed>>

-----------------------------------------------------------------------------
(* The server.                                                             *)

CreateChat(p) ==
  /\ p.step = "create"
  /\ \E c \in New \ chats :
       /\ chats' = chats \cup {c}
       /\ Move(p, [p EXCEPT !.step = "created", !.chat = c])
  /\ UNCHANGED <<turns, tab, cancelled, aborts, wish, wishes, stopped, missed>>

Prior(p) == TurnsOf(p.request)

Answer(p, t) == IF p.step = "late" THEN posts' = posts \ {p}
                ELSE Move(p, [p EXCEPT !.step = "answered", !.turn = t])

\* getTurnByRequestId, or what claimTurn finds: the request has its turn.
FindPrior(p) ==
  /\ p.step \in {"send", "late"}
  /\ \E t \in Prior(p) : turns[t].chat = p.chat /\ Answer(p, t)
  /\ UNCHANGED <<chats, turns, tab, cancelled, aborts, wish, wishes, stopped, missed>>

\* claimTurn: one open turn in a chat.
Claim(p) ==
  /\ p.step \in {"send", "late"} /\ Prior(p) = {} /\ OpenIn(p.chat) = {}
  /\ turns' = Append(turns, [request |-> p.request, chat |-> p.chat, open |-> TRUE])
  /\ Answer(p, Len(turns'))
  /\ UNCHANGED <<chats, tab, cancelled, aborts, wish, wishes, stopped, missed>>

EndTurn(t) ==
  /\ turns[t].open
  /\ turns' = [turns EXCEPT ![t].open = FALSE]
  /\ UNCHANGED <<chats, tab, cancelled, posts, aborts, wish, wishes, stopped, missed>>

\* The abort ends the turn; an ended turn stays as it is.
Abort(t) ==
  /\ aborts' = aborts \ {t}
  /\ turns' = [turns EXCEPT ![t].open = FALSE]
  /\ UNCHANGED <<chats, tab, cancelled, posts, wish, wishes, stopped, missed>>

\* The abort is lost: "Cancellation could not be requested."
AbortFails(t) ==
  /\ aborts' = aborts \ {t}
  /\ missed' = missed \cup {turns[t].request}
  /\ UNCHANGED <<chats, turns, tab, cancelled, posts, wish, wishes, stopped>>

-----------------------------------------------------------------------------
(* The answers to a submission.                                            *)

\* The generation of the request is that of the tab.
Here(p) == p.visit = tab.visit
Forgotten(p) == cancelled' = [cancelled EXCEPT ![p.request] = None]

\* The created chat becomes that of the tab, which goes on; if it has moved on,
\* nothing is asked.
ChatCreated(p) ==
  /\ p.step = "created"
  /\ IF Here(p)
     THEN /\ tab' = [tab EXCEPT !.chat = p.chat]
          /\ Move(p, [p EXCEPT !.step = "send"])
          /\ UNCHANGED cancelled
     ELSE posts' = posts \ {p} /\ Forgotten(p) /\ UNCHANGED tab
  /\ UNCHANGED <<chats, turns, aborts, wish, wishes, stopped, missed>>

\* The turn of a cancelled question is aborted, wherever the tab is by now;
\* otherwise it is followed, if the tab is still there.
Accepted(p) ==
  /\ p.step = "answered"
  /\ posts' = posts \ {p} /\ Forgotten(p)
  /\ IF cancelled[p.request] # None
     THEN aborts' = aborts \cup {p.turn} /\ UNCHANGED tab
     ELSE /\ tab' = IF Here(p) THEN [tab EXCEPT !.starting = FALSE, !.turn = p.turn,
                                                !.request = None, !.question = None]
                    ELSE tab
          /\ UNCHANGED aborts
  /\ UNCHANGED <<chats, turns, wish, wishes, stopped, missed>>

\* An error: a refusal, a lost connection, the loss of the answer.  The server
\* may still carry out what was sent.
Failed(p) ==
  /\ p.step \in {"create", "created", "send", "answered"}
  /\ posts' \in {posts \ {p}} \cup (IF p.step = "send" THEN {(posts \ {p}) \cup {[p EXCEPT !.step = "late"]}}
                                   ELSE {})
  /\ Forgotten(p)
  /\ tab' = IF Here(p) THEN [tab EXCEPT !.starting = FALSE, !.failed = tab.question] ELSE tab
  /\ missed' = missed \cup (stopped \cap {p.request})
  /\ UNCHANGED <<chats, turns, aborts, wish, wishes, stopped>>

-----------------------------------------------------------------------------
Next ==
  \/ CancelStarting \/ CancelTurn \/ AnswerEnds
  \/ \E q \in Questions : Submit(q)
  \/ \E c \in chats \cup {None} : Visit(c)
  \/ \E p \in posts :
       CreateChat(p) \/ FindPrior(p) \/ Claim(p) \/ ChatCreated(p) \/ Accepted(p) \/ Failed(p)
  \/ \E t \in DOMAIN turns : EndTurn(t)
  \/ \E t \in aborts : Abort(t) \/ AbortFails(t)

Spec == Init /\ [][Next]_vars

-----------------------------------------------------------------------------
(* Properties.                                                             *)

\* A question that failed and is sent again, as often as the viewer likes, is
\* answered at most once, whether the first request was lost on its way, lost
\* its answer, or is still on its way.
AskedOnce ==
  \A t, u \in DOMAIN turns :
    wishes[turns[t].request] = wishes[turns[u].request] => t = u

\* The tab never waits for nothing and never follows the turn of another chat:
\* while it is starting its own request is out, and the turn it follows is one
\* of the chat it shows.
ComposerIsSound ==
  /\ tab.starting => \E p \in posts : Here(p) /\ p.request = tab.request /\ p.step # "late"
  /\ tab.turn # None => turns[tab.turn].chat = tab.chat

\* "Question cancelled.": a question cancelled before it had a turn does not run
\* unheeded.  Its turn, if it gets one, has ended or is being aborted, wherever
\* the viewer went meanwhile (unless the answer or the abort was lost).
CancelledIsStopped ==
  \A t \in DOMAIN turns :
    LET r == turns[t].request IN
    r \in stopped \ missed /\ turns[t].open => t \in aborts \/ \E p \in posts : p.request = r
==============================================================================
