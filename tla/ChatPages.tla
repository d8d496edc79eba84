------------------------------ MODULE ChatPages ------------------------------
(***************************************************************************)
(* A browser tab's view of saved chats: the pages it loads when a chat is  *)
(* opened, when an answer ended and when the viewer asks for earlier       *)
(* messages (ChatWorkspace of src/web/App.tsx), and the route and stores   *)
(* that answer (GET /chats/:id of server.ts, getChatPage).                 *)
(*                                                                         *)
(* A message is its chat and position.  A question is committed with the   *)
(* request that asks it, its answer when the turn ends; questions of the   *)
(* chats come from this tab only.  How the stream of an open turn reaches  *)
(* its end is the matter of Viewing.                                       *)
(***************************************************************************)
EXTENDS Naturals, Sequences, FiniteSets, SequencesExt

CONSTANTS
  Chats,
  None,
  Page, Earlier,  \* sizes of a page: 50 when a chat is read, 40 for earlier messages
  SavedAlready,   \* messages of a chat before the tab opens
  MaxSaved,       \* bounds of this model: messages in a chat, visits, and
  MaxVisits,      \* requests that are out
  MaxLoads

VARIABLES
  saved,  \* each chat: its number of messages, and whether a turn is open
  tab,    \* the tab, see Init
  loads,  \* requests for pages, and their answers
  overlap, split  \* history, of this visit: two requests were out at one time; a turn ended within the reading of a page

vars == <<saved, tab, loads, overlap, split>>

\* visit: generationRef; ready: the chat was loaded; follows: turnRef is set;
\* loadingOlder: a request for earlier messages is out.
Init ==
  /\ saved = [c \in Chats |-> [size |-> SavedAlready, open |-> FALSE]]
  /\ tab = [chat |-> None, visit |-> 0, ready |-> FALSE, shown |-> <<>>, more |-> FALSE,
            cursor |-> None, follows |-> FALSE, loadingOlder |-> FALSE]
  /\ loads = {}
  /\ overlap = FALSE /\ split = FALSE

Message(c, i) == <<c, i>>
Current == {l \in loads : l.visit = tab.visit}
Request(kind, c, visit, limit, before) ==
  [kind |-> kind, chat |-> c, visit |-> visit, limit |-> limit, before |-> before,
   step |-> "sent", page |-> <<>>, more |-> FALSE, open |-> FALSE]
Send(l) == Cardinality(loads) < MaxLoads /\ l \notin loads /\ loads' = loads \cup {l}

-----------------------------------------------------------------------------
(* The viewer.                                                             *)

\* The effect of a new chatId, with detachTurn.
Visit(c) ==
  /\ c # tab.chat /\ tab.visit < MaxVisits
  /\ tab' = [tab EXCEPT !.chat = c, !.visit = @ + 1, !.ready = FALSE, !.shown = <<>>,
                        !.follows = FALSE, !.loadingOlder = FALSE]
  /\ Send(Request("open", c, tab.visit + 1, Page, None))
  /\ overlap' = FALSE /\ split' = FALSE
  /\ UNCHANGED saved

\* submit, up to the accepted request: the question and its answer to come are
\* shown under the ids they are saved under.
Ask ==
  /\ tab.ready /\ ~tab.follows
  /\ LET c == tab.chat
         n == saved[c].size
     IN  /\ ~saved[c].open /\ n + 2 <= MaxSaved
         /\ saved' = [saved EXCEPT ![c] = [size |-> n + 1, open |-> TRUE]]
         /\ tab' = [tab EXCEPT !.follows = TRUE,
                               !.shown = @ \o <<Message(c, n + 1), Message(c, n + 2)>>]
  /\ UNCHANGED <<loads, overlap, split>>

\* loadOlder.
LoadOlder ==
  /\ tab.ready /\ tab.shown # <<>> /\ tab.more /\ ~tab.loadingOlder
  /\ tab' = [tab EXCEPT !.loadingOlder = TRUE]
  /\ Send(Request("older", tab.chat, tab.visit, Earlier, tab.cursor))
  /\ overlap' = (overlap \/ Current # {})
  /\ UNCHANGED <<saved, split>>

\* The terminal event of the stream: refreshDurableChat.
StreamEnds ==
  /\ tab.follows /\ ~saved[tab.chat].open
  /\ tab' = [tab EXCEPT !.follows = FALSE]
  /\ Send(Request("refresh", tab.chat, tab.visit, Page, None))
  /\ overlap' = (overlap \/ Current # {})
  /\ UNCHANGED <<saved, split>>

-----------------------------------------------------------------------------
(* The server.                                                             *)

\* The turn ends, on any worker: its answer is committed.
Finish(c) ==
  /\ saved[c].open
  /\ saved' = [saved EXCEPT ![c] = [size |-> @.size + 1, open |-> FALSE]]
  /\ UNCHANGED <<tab, loads, overlap, split>>

Replace(l, k) == loads' = (loads \ {l}) \cup {k}

\* getChatPage: what comes before the cursor.
PageOf(l) ==
  LET end == IF l.before = None THEN saved[l.chat].size ELSE l.before - 1
      start == IF end > l.limit THEN end - l.limit ELSE 0
  IN  [l EXCEPT !.step = "read", !.page = [i \in 1 .. end - start |-> start + i],
                !.more = (start > 0)]

ReadPage(l) ==
  /\ l.step = "sent"
  /\ Replace(l, PageOf(l))
  /\ UNCHANGED <<saved, tab, overlap, split>>

\* The latest turn: read after the page, and again by findTurn if it was open.
ReadTurn(l) ==
  /\ l.step = "read"
  /\ Replace(l, [l EXCEPT !.step = "answered", !.open = saved[l.chat].open])
  /\ split' = (split \/ (l \in Current /\ l.kind = "open" /\ ~saved[l.chat].open
                          /\ l.page[Len(l.page)] < saved[l.chat].size))
  /\ UNCHANGED <<saved, tab, overlap>>

-----------------------------------------------------------------------------
(* The answers.                                                            *)

\* Mutant of Wanted: whatever arrives is shown.
WantedAlways(l) == l.kind # "refresh" \/ ~tab.follows

\* The generation of the request is that of the tab; a refresh is of no use
\* once another question is under way.
Wanted(l) == l.visit = tab.visit /\ (l.kind = "refresh" => ~tab.follows)

\* fetchChatPage: an oversized page is asked for again, half as large.
TooLarge(l) ==
  /\ l.step = "sent" /\ l.limit > 1 /\ Wanted(l)
  /\ Replace(l, [l EXCEPT !.limit = @ \div 2])
  /\ UNCHANGED <<saved, tab, overlap, split>>

Settled(l) == [tab EXCEPT !.loadingOlder = @ /\ ~(l.kind = "older" /\ l.visit = tab.visit)]

\* Any other error; it is shown, if the tab is still there.
Fails(l) ==
  /\ l.step = "sent"
  /\ loads' = loads \ {l}
  /\ tab' = Settled(l)
  /\ UNCHANGED <<saved, overlap, split>>

Cursor(l) == IF l.more THEN l.page[1] ELSE None
Messages(l) == [k \in DOMAIN l.page |-> Message(l.chat, l.page[k])]

\* An open turn is resumed, with a place for its answer.
Opened(l) ==
  [tab EXCEPT !.ready = TRUE, !.follows = l.open, !.more = l.more, !.cursor = Cursor(l),
              !.shown = IF l.open THEN Append(Messages(l), Message(l.chat, l.page[Len(l.page)] + 1))
                        ELSE Messages(l)]
Refreshed(l) == [tab EXCEPT !.more = l.more, !.cursor = Cursor(l), !.shown = Messages(l)]
Extended(l) ==
  [Settled(l) EXCEPT !.more = l.more, !.cursor = Cursor(l),
                     !.shown = Messages(l) \o SelectSeq(@, LAMBDA m : m \notin ToSet(Messages(l)))]

Deliver(l) ==
  /\ l.step = "answered"
  /\ loads' = loads \ {l}
  /\ tab' = CASE ~Wanted(l) -> Settled(l)
              [] Wanted(l) /\ l.kind = "open" -> Opened(l)
              [] Wanted(l) /\ l.kind = "refresh" -> Refreshed(l)
              [] Wanted(l) /\ l.kind = "older" -> Extended(l)
  /\ UNCHANGED <<saved, overlap, split>>

-----------------------------------------------------------------------------
Next ==
  \/ Ask \/ LoadOlder \/ StreamEnds
  \/ \E c \in Chats : Visit(c) \/ Finish(c)
  \/ \E l \in loads : ReadPage(l) \/ ReadTurn(l) \/ TooLarge(l) \/ Fails(l) \/ Deliver(l)

Spec == Init /\ [][Next]_vars

-----------------------------------------------------------------------------
(* Properties.                                                             *)

\* Whatever pages are on their way when the viewer changes chats, and in
\* whichever order they arrive, no message of another chat is ever shown.
NothingForeign == \A k \in DOMAIN tab.shown : tab.shown[k][1] = tab.chat

\* The messages shown have no gap, and the cursor is that of the first of them:
\* loading earlier messages reaches all that is not shown.  Of requests that
\* overlap within one visit this is not true, see overlap: earlier messages
\* asked for before a refresh arrives are put before a page they do not reach.
HistoryHasNoGap ==
  ~overlap /\ ~split /\ tab.shown # <<>> =>
    /\ \A k \in DOMAIN tab.shown : tab.shown[k][2] = tab.shown[1][2] + k - 1
    /\ tab.more = (tab.shown[1][2] # 1)
    /\ tab.more => tab.cursor = tab.shown[1][2]

\* Once nothing is out, the tab shows the newest message of the chat, or the
\* place of the answer it follows: no answer is lost between the end of a turn,
\* a reload and a refresh (unless it was committed between the two reads of
\* one page, see split).
NewestShown ==
  ~overlap /\ ~split /\ tab.ready /\ tab.shown # <<>> /\ Current = {} =>
    LET c == tab.chat
        newest == IF saved[c].open THEN saved[c].size + 1 ELSE saved[c].size
    IN  Last(tab.shown) = Message(c, newest) /\ (saved[c].open => tab.follows)
==============================================================================
