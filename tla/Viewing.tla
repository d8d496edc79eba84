------------------------------- MODULE Viewing -------------------------------
(***************************************************************************)
(* One answer on its way to one browser tab: the runner that produces its  *)
(* events, the committed snapshots, the event streams of the workers       *)
(* (src/server/sessionStore.ts and the events route of server.ts) and the  *)
(* tab that follows them (connectTurnStream of src/web/App.tsx).           *)
(*                                                                         *)
(* A turn of a saved chat is streamed from committed snapshots only, by    *)
(* any worker.  A turn without a chat lives in the memory of its worker,   *)
(* which writes each event to its subscribers as it happens.               *)
(***************************************************************************)
EXTENDS Naturals, Sequences, FiniteSets, Filters

CONSTANTS
  Workers, Runner,  \* the workers; the one that runs the turn
  Streams,          \* responses that may exist at one time (bound)
  None,             \* no response, no snapshot
  MaxStreams,       \* MAX_EVENT_STREAMS_PER_ACCOUNT
  MaxRecoveries,    \* recoveries of a failed stream without a new event
  MaxEvents,        \* the event budget of a turn (10000 in the code)
  MaxUpsets         \* bound on broken connections, crashes, lost leases and
                    \* visits elsewhere

ASSUME ViewingAssumption ==
  /\ Runner \in Workers
  /\ None \notin Streams
  /\ {MaxStreams, MaxRecoveries, MaxEvents, MaxUpsets} \subseteq Nat

VARIABLES
  kept,    \* turn.chatId is set: the turn is saved
  turn,    \* the turn, in memory and committed
  worker,  \* each worker: "up", "lost" (its lease is over), "down"
  stream,  \* the event-stream responses
  owned,   \* ownerEventStreams of each worker
  tab,     \* the browser tab
  upsets

vars == <<kept, turn, worker, stream, owned, tab, upsets>>

\* "stopped" stands for "error" and "aborted", which are handled alike.
Final == {"complete", "stopped"}
Event(i, type) == [id |-> i, type |-> type]

Vacant == [at |-> "free", worker |-> Runner, last |-> 0, read |-> None, wire |-> <<>>,
           ended |-> FALSE, destroyed |-> FALSE, gone |-> FALSE, held |-> FALSE]

Init ==
  /\ kept \in BOOLEAN
  /\ turn = [events |-> 0, saved |-> 0, status |-> "running", told |-> FALSE,
             runs |-> TRUE, exists |-> TRUE]
  /\ worker = [w \in Workers |-> "up"]
  /\ stream = [s \in Streams |-> Vacant]
  /\ owned = [w \in Workers |-> 0]
  /\ tab = [at |-> "stream", on |-> None, last |-> 0, cursor |-> 0, shown |-> <<>>,
            tries |-> 0, returned |-> FALSE]
  /\ upsets = 0

-----------------------------------------------------------------------------
(* The events of the turn.                                                 *)

\* The id of the terminal event: events.length + 1 of the list it ends.
TerminalId(n) == n + 1

\* What a reader of the turn is given of it.
Snapshot(t) == [saved |-> t.saved, status |-> t.status, told |-> t.told, exists |-> t.exists]

Events(t) ==
  [i \in 1 .. t.saved |-> Event(i, "part")]
    \o (IF t.told THEN <<Event(TerminalId(t.saved), t.status)>> ELSE <<>>)

\* What a response still has to send of a list of events, and the response
\* once it has; a final status ends it.
After(events, n) ==
  Filter(events, [id : n + 1 .. TerminalId(MaxEvents), type : {"part"} \cup Final])
Written(r, t) ==
  LET new == After(Events(t), r.last) IN
  [r EXCEPT !.wire = @ \o new,
            !.last = IF new = <<>> THEN @ ELSE new[Len(new)].id,
            !.ended = t.status \in Final]

Live(r) == r.at = "streaming" /\ ~r.gone /\ ~r.ended

\* A response whose client is gone: what it still writes reaches nobody, until
\* the server sees its "close".
Left(r) == [r EXCEPT !.gone = TRUE, !.wire = <<>>, !.last = 0,
                     !.read = IF r.at = "found" THEN @ ELSE None]

-----------------------------------------------------------------------------
(* The runner.                                                             *)

Running == turn.status = "running" /\ turn.exists /\ turn.runs /\ worker[Runner] = "up"

\* The subscribers of a turn in memory are written to at once.
Push(t) ==
  stream' = [s \in Streams |-> IF Live(stream[s]) THEN Written(stream[s], t) ELSE stream[s]]

\* publish: an event past the budget is dropped and aborts the run.
Publish ==
  /\ Running /\ turn.events < MaxEvents
  /\ turn' = [turn EXCEPT !.events = @ + 1, !.saved = IF kept THEN @ ELSE @ + 1]
  /\ IF kept THEN UNCHANGED stream ELSE Push(turn')
  /\ UNCHANGED <<kept, worker, owned, tab, upsets>>

\* saveProgress: the snapshot is of the moment the save began, so it may
\* hold less than there is when it commits.
SaveProgress ==
  /\ kept /\ Running
  /\ \E n \in turn.saved + 1 .. turn.events : turn' = [turn EXCEPT !.saved = n]
  /\ UNCHANGED <<kept, worker, stream, owned, tab, upsets>>

\* persistTerminal of a saved turn.  A recorded stop keeps the committed
\* events and ends them with its own; otherwise all events are committed.
\* acceptPersisted: the subscribers of this worker read the turn at once,
\* unless a read of theirs is under way.
FinishSaved(status) ==
  /\ kept /\ Running
  /\ \/ turn' = [turn EXCEPT !.saved = turn.events, !.status = status, !.told = TRUE,
                             !.runs = FALSE]
     \/ /\ status = "stopped"
        /\ turn' = [turn EXCEPT !.status = status, !.told = TRUE, !.runs = FALSE]
  /\ stream' = [s \in Streams |->
       IF Live(stream[s]) /\ stream[s].worker = Runner /\ stream[s].read = None
       THEN [stream[s] EXCEPT !.read = Snapshot(turn')] ELSE stream[s]]
  /\ UNCHANGED <<kept, worker, owned, tab, upsets>>

\* complete, fail and abort of a turn in memory: "complete" is an event like
\* the others and may exceed the budget; the subscribers are closed anyway.
FinishInMemory(status) ==
  /\ ~kept /\ Running
  /\ turn' = [turn EXCEPT !.status = status, !.runs = FALSE,
                          !.told = status # "complete" \/ turn.events < MaxEvents]
  /\ Push(turn')
  /\ UNCHANGED <<kept, worker, owned, tab, upsets>>

\* A worker that is up ends a turn whose runner is gone or was fenced off.
Recover ==
  /\ kept /\ turn.status = "running" /\ turn.exists
  /\ ~turn.runs \/ worker[Runner] # "up"
  /\ \E w \in Workers : worker[w] = "up"
  /\ turn' = [turn EXCEPT !.status = "stopped", !.told = TRUE, !.runs = FALSE]
  /\ UNCHANGED <<kept, worker, stream, owned, tab, upsets>>

Upset == upsets < MaxUpsets /\ upsets' = upsets + 1

\* The chat is deleted with its turn; cleanup forgets an ended turn in memory
\* that nobody follows.
Forget ==
  /\ turn.exists
  /\ kept \/ (turn.status \in Final /\ \A s \in Streams : ~Live(stream[s]))
  /\ Upset
  /\ turn' = [turn EXCEPT !.exists = FALSE, !.runs = FALSE]
  /\ UNCHANGED <<kept, worker, stream, owned, tab>>

-----------------------------------------------------------------------------
(* The event streams.                                                      *)

\* The release of reserveEventStream, on "finish", "close", "error" and in
\* the route's finally: the first one gives the place back.
Release(s) ==
  owned' = [owned EXCEPT ![stream[s].worker] = IF stream[s].held THEN @ - 1 ELSE @]

\* The browser's side of a connection: a response with another status fails
\* the EventSource; when a connection is lost or ends it connects again.
Fail(s) == IF tab.on = s THEN [tab EXCEPT !.at = "failed", !.on = None] ELSE tab
Retry(s) == IF tab.on = s THEN [tab EXCEPT !.on = None] ELSE tab

\* A place is reserved before the turn is looked up, and never for a
\* response whose "close" has passed.
MayReserve(s, w) == ~stream[s].destroyed /\ owned[w] < MaxStreams

Arrive(s, w) ==
  /\ stream[s].at = "arriving" /\ worker[w] # "down"
  /\ kept \/ w = Runner
  /\ IF MayReserve(s, w)
     THEN /\ owned' = [owned EXCEPT ![w] = @ + 1]
          /\ stream' = [stream EXCEPT ![s].at = "finding", ![s].worker = w, ![s].held = TRUE]
          /\ UNCHANGED tab
     ELSE /\ stream' = [stream EXCEPT ![s] = Vacant]
          /\ tab' = Fail(s)
          /\ UNCHANGED owned
  /\ UNCHANGED <<kept, turn, worker, upsets>>

\* findTurn: 503 without a lease, 404 without the turn.
Find(s) ==
  /\ stream[s].at = "finding"
  /\ IF turn.exists /\ (kept => worker[stream[s].worker] = "up")
     THEN /\ stream' = [stream EXCEPT ![s].at = "found", ![s].read = Snapshot(turn)]
          /\ UNCHANGED <<owned, tab>>
     ELSE /\ stream' = [stream EXCEPT ![s] = Vacant]
          /\ tab' = Fail(s)
          /\ Release(s)
  /\ UNCHANGED <<kept, turn, worker, upsets>>

\* subscribeDurable writes the snapshot that was found; subscribe writes
\* what the record in memory holds by now.
Subscribe(s) ==
  /\ stream[s].at = "found"
  /\ IF stream[s].destroyed
     THEN stream' = [stream EXCEPT ![s] = Vacant] /\ Release(s)
     ELSE /\ LET r == [stream[s] EXCEPT !.at = "streaming", !.read = None] IN
             stream' = [stream EXCEPT ![s] =
               IF r.gone THEN r
               ELSE Written(r, IF kept THEN stream[s].read ELSE turn)]
          /\ UNCHANGED owned
  /\ UNCHANGED <<kept, turn, worker, tab, upsets>>

\* refresh, every 500 ms and never twice at a time: the read of the turn,
\* then what is written of it.  Without a lease the response is destroyed.
Poll(s) ==
  /\ kept /\ Live(stream[s]) /\ stream[s].read = None
  /\ IF worker[stream[s].worker] = "up"
     THEN /\ stream' = [stream EXCEPT ![s].read = Snapshot(turn)]
          /\ UNCHANGED <<owned, tab>>
     ELSE /\ stream' = [stream EXCEPT ![s] = Vacant]
          /\ tab' = Retry(s)
          /\ Release(s)
  /\ UNCHANGED <<kept, turn, worker, upsets>>

Refresh(s) ==
  /\ Live(stream[s]) /\ stream[s].read # None
  /\ stream' = [stream EXCEPT ![s] =
       LET r == [@ EXCEPT !.read = None] IN
       IF @.read.exists THEN Written(r, @.read) ELSE [r EXCEPT !.ended = TRUE]]
  /\ UNCHANGED <<kept, turn, worker, owned, tab, upsets>>

\* "finish": everything was handed over, the client may still be reading.
Finished(s) ==
  /\ stream[s].ended /\ stream[s].held
  /\ Release(s)
  /\ stream' = [stream EXCEPT ![s].held = FALSE]
  /\ UNCHANGED <<kept, turn, worker, tab, upsets>>

\* "close", before the place is reserved or after: the client is gone.
Closed(s) ==
  /\ stream[s].gone /\ ~stream[s].destroyed
  /\ Release(s)
  /\ stream' = [stream EXCEPT ![s] =
       IF @.at = "streaming" THEN Vacant ELSE [@ EXCEPT !.destroyed = TRUE, !.held = FALSE]]
  /\ UNCHANGED <<kept, turn, worker, tab, upsets>>

-----------------------------------------------------------------------------
(* The browser tab.                                                        *)

Spare == {s \in Streams : stream[s].at = "free"}

\* A new connection of the current EventSource, with its Last-Event-ID.
Connect ==
  /\ tab.at = "stream" /\ tab.on = None /\ Spare # {}
  /\ LET s == CHOOSE s \in Spare : TRUE IN
     /\ stream' = [stream EXCEPT ![s] = [Vacant EXCEPT !.at = "arriving", !.last = tab.last]]
     /\ tab' = [tab EXCEPT !.on = s]
  /\ UNCHANGED <<kept, turn, worker, owned, upsets>>

\* Mutant of Fresh: a replayed event is handled again.
FreshAlways(e) == TRUE

Fresh(e) == e.id > tab.cursor

\* A tab that is done has no use for its ids any more.
Done(t, at) == [t EXCEPT !.at = at, !.on = None, !.last = 0, !.cursor = 0, !.tries = 0]

\* The browser notes the id; the listener drops a replay, and a terminal
\* event closes the stream.
Receive(s) ==
  /\ tab.on = s /\ stream[s].wire # <<>>
  /\ LET e == Head(stream[s].wire)
         read == [tab EXCEPT !.last = e.id]
         shown == [read EXCEPT !.cursor = e.id, !.tries = 0, !.shown = Append(@, e)] IN
     IF ~Fresh(e) \/ e.type = "part"
     THEN /\ tab' = IF Fresh(e) THEN shown ELSE read
          /\ stream' = [stream EXCEPT ![s].wire = Tail(@)]
     ELSE /\ tab' = Done(shown, "answered")
          /\ stream' = [stream EXCEPT ![s] = Left(@)]
  /\ UNCHANGED <<kept, turn, worker, owned, upsets>>

\* The end of a response: the EventSource connects again.
Ended(s) ==
  /\ tab.on = s /\ stream[s].ended /\ stream[s].wire = <<>>
  /\ tab' = Retry(s)
  /\ stream' = [stream EXCEPT ![s] = Left(@)]
  /\ UNCHANGED <<kept, turn, worker, owned, upsets>>

\* The recovery of a failed EventSource: the saved turn decides whether a new
\* one is opened, which replays from the beginning, or the chat reloaded.
Recovery ==
  /\ tab.at = "failed"
  /\ \E w \in Workers :
       tab' =
         IF worker[w] = "down" \/ ~turn.exists \/ (kept /\ worker[w] = "lost")
         THEN Done(tab, "stopped")
         ELSE IF turn.status \in Final THEN Done(tab, "answered")
         ELSE IF tab.tries >= MaxRecoveries THEN Done(tab, "stopped")
         ELSE [tab EXCEPT !.at = "stream", !.last = 0, !.tries = @ + 1]
  /\ UNCHANGED <<kept, turn, worker, stream, owned, upsets>>

\* detachTurn: the stream is closed; the turn goes on.
Drop == stream' = [s \in Streams |->
  IF tab.on = s THEN Left(stream[s]) ELSE stream[s]]
Leave ==
  /\ tab.at \in {"stream", "failed"}
  /\ Upset
  /\ Drop
  /\ tab' = [tab EXCEPT !.at = "away", !.on = None]
  /\ UNCHANGED <<kept, turn, worker, owned>>

\* The chat page is loaded again, without the text of an open turn, whose
\* stream is resumed.  A reloaded page has a new cursor; coming back within
\* the page keeps the cursor of the last turn it streamed.
Open(cursor, returned) ==
  /\ tab.at = "away" /\ turn.exists
  /\ \E w \in Workers : worker[w] = "up"
  /\ tab' = IF turn.status \in Final THEN Done([tab EXCEPT !.shown = <<>>], "answered")
            ELSE [tab EXCEPT !.at = "stream", !.last = 0, !.cursor = cursor, !.shown = <<>>,
                             !.tries = 0, !.returned = returned]
  /\ UNCHANGED <<kept, turn, worker, stream, owned, upsets>>
Reload == Open(0, FALSE)
Return == Open(tab.cursor, tab.cursor > 0 \/ tab.returned)

-----------------------------------------------------------------------------
(* Faults.                                                                 *)

\* The connection breaks, or the server destroys a response it cannot drain.
Break(s) ==
  /\ Upset
  /\ tab.on = s
  /\ tab' = Retry(s)
  /\ stream' = [stream EXCEPT ![s] = Left(@)]
  /\ UNCHANGED <<kept, turn, worker, owned>>

LoseLease(w) ==
  /\ Upset /\ kept
  /\ worker[w] = "up"
  /\ worker' = [worker EXCEPT ![w] = "lost"]
  /\ UNCHANGED <<kept, turn, stream, owned, tab>>

\* A process ends with its responses, its counters and its turns in memory.
Crash(w) ==
  /\ worker[w] # "down"
  /\ Upset \/ (worker[w] = "lost" /\ UNCHANGED upsets)
  /\ worker' = [worker EXCEPT ![w] = "down"]
  /\ owned' = [owned EXCEPT ![w] = 0]
  /\ LET here == {s \in Streams : stream[s].at \notin {"free", "arriving"} /\ stream[s].worker = w} IN
     /\ stream' = [s \in Streams |-> IF s \in here THEN Vacant ELSE stream[s]]
     /\ tab' = IF tab.on \in here THEN Retry(tab.on) ELSE tab
  /\ turn' = IF w # Runner THEN turn
             ELSE [turn EXCEPT !.runs = FALSE, !.exists = @ /\ kept]
  /\ UNCHANGED kept

Restart(w) ==
  /\ worker[w] = "down"
  /\ worker' = [worker EXCEPT ![w] = "up"]
  /\ UNCHANGED <<kept, turn, stream, owned, tab, upsets>>

-----------------------------------------------------------------------------
EndTurn == Recover \/ \E status \in Final : FinishSaved(status) \/ FinishInMemory(status)
Serve(s) ==
  \/ Find(s) \/ Subscribe(s) \/ Poll(s) \/ Refresh(s) \/ Finished(s) \/ Closed(s)
  \/ \E w \in Workers : Arrive(s, w)
Follow ==
  \/ Recovery \/ Connect
  \/ \E s \in Streams : Receive(s) \/ Ended(s)
Replace(w) == Restart(w) \/ (worker[w] = "lost" /\ Crash(w))

Next ==
  \/ Publish \/ SaveProgress \/ Forget \/ EndTurn
  \/ Leave \/ Reload \/ Return \/ Follow
  \/ \E s \in Streams : Serve(s) \/ Break(s)
  \/ \E w \in Workers : LoseLease(w) \/ Crash(w) \/ Restart(w)

Spec == Init /\ [][Next]_vars

\* Turns end by their time limit or by recovery; a worker without a lease is
\* restarted; requests, polls and the browser's own steps are taken.
Fairness ==
  /\ WF_vars(EndTurn) /\ WF_vars(Follow)
  /\ \A w \in Workers : WF_vars(Replace(w))
  /\ \A s \in Streams : WF_vars(Serve(s))

FairSpec == Spec /\ Fairness

-----------------------------------------------------------------------------
(* Properties.                                                             *)

\* What a tab shows of an answer is a beginning of its committed events,
\* each once and in order, across reconnections, other workers, recoveries
\* and a runner that died with events nobody committed (unless the tab came
\* back to the turn within the page: it keeps the cursor then, and not the text).
IsPrefix(q, p) == Len(q) <= Len(p) /\ \A i \in 1 .. Len(q) : q[i] = p[i]
ShownInOrder == ~tab.returned => IsPrefix(tab.shown, Events(turn))

\* The places counted against the account are those of open responses, and
\* never more than the limit, whichever of the release events comes first.
StreamsCounted ==
  \A w \in Workers :
    /\ owned[w] = Cardinality({s \in Streams : stream[s].held /\ stream[s].worker = w})
    /\ owned[w] <= MaxStreams

\* Streams show what is committed and give their places back.
StreamsAreSound == ShownInOrder /\ StreamsCounted

\* A tab that follows a saved turn comes to its end: to the terminal event,
\* the saved answer, or the message to reopen the chat.
ViewerSettles == kept /\ tab.at \in {"stream", "failed"} ~> tab.at \notin {"stream", "failed"}
==============================================================================
