----------------------------- MODULE TurnContract -----------------------------
(***************************************************************************)
(* What a user is promised of chat turns, without workers, leases, calls   *)
(* or executions: a chat is a list of questions with their answers, one    *)
(* question at a time, each request asked once, an answer given once, and  *)
(* never a "complete" one after a stop.                                    *)
(***************************************************************************)
EXTENDS Naturals, Sequences

CONSTANTS Turns, Chats, Owners, ChatOf, RequestOf, OwnerOf

VARIABLES
  transcript,  \* of each chat: its questions in order, each with its answer
  stopped,     \* questions stopped before they were answered
  erased,      \* chats deleted by their user
  closed       \* accounts under deletion

contractVars == <<transcript, stopped, erased, closed>>

Answers == {"complete", "error", "aborted"}
Entry == [turn : Turns, answer : Answers \cup {"pending"}]

Init ==
  /\ transcript = [c \in Chats |-> <<>>]
  /\ stopped = {}
  /\ erased = {}
  /\ closed = {}

Entries(c) == {transcript[c][i] : i \in DOMAIN transcript[c]}
Pending(c) == {t \in Turns : [turn |-> t, answer |-> "pending"] \in Entries(c)}
Asked == {t \in Turns : \E e \in Entries(ChatOf[t]) : e.turn = t}
SameRequest(t, u) ==
  RequestOf[t] = RequestOf[u] /\ OwnerOf[ChatOf[t]] = OwnerOf[ChatOf[u]]

Ask(t) ==
  LET c == ChatOf[t] IN
  /\ c \notin erased /\ OwnerOf[c] \notin closed
  /\ Pending(c) = {}
  /\ \A u \in Asked : ~SameRequest(t, u)
  /\ transcript' = [transcript EXCEPT ![c] = Append(@, [turn |-> t, answer |-> "pending"])]
  /\ UNCHANGED <<stopped, erased, closed>>

Answer(t, a) ==
  LET c == ChatOf[t]
      last == Len(transcript[c]) IN
  /\ last > 0
  /\ transcript[c][last] = [turn |-> t, answer |-> "pending"]
  /\ t \in stopped \/ OwnerOf[c] \in closed => a # "complete"
  /\ transcript' = [transcript EXCEPT ![c] = [@ EXCEPT ![last] = [turn |-> t, answer |-> a]]]
  /\ UNCHANGED <<stopped, erased, closed>>

\* One turn at the user's request, or all of an account under deletion.
Stop(T) ==
  /\ \A t \in T : t \in Pending(ChatOf[t])
  /\ stopped' = stopped \cup T
  /\ UNCHANGED <<transcript, erased, closed>>

Erase(c) ==
  /\ erased' = erased \cup {c}
  /\ transcript' = [transcript EXCEPT ![c] = <<>>]
  /\ stopped' = {t \in stopped : ChatOf[t] # c}
  /\ UNCHANGED closed

Close(o) ==
  /\ closed' = closed \cup {o}
  /\ UNCHANGED <<transcript, stopped, erased>>

Next ==
  \/ \E t \in Turns : Ask(t) \/ \E a \in Answers : Answer(t, a)
  \/ \E T \in SUBSET Turns : Stop(T)
  \/ \E c \in Chats : Erase(c)
  \/ \E o \in Owners : Close(o)

Spec == Init /\ [][Next]_contractVars
===============================================================================
