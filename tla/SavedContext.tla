----------------------------- MODULE SavedContext -----------------------------
(***************************************************************************)
(* What the model is told of the saved chat a question is asked in.  The   *)
(* rule is conversationContext (src/server/conversationContext.ts), over   *)
(* all messages of the chat.  The stores never read them all: getChatContext *)
(* of accountStore.ts and of supabaseAccountStore.ts reads bounded          *)
(* candidates, cuts their text (savedDataLimits.ts), and the rule is        *)
(* applied to what is left.                                                *)
(*                                                                         *)
(* A message is its role, its size, and what the readers can tell of it;   *)
(* the chat only grows, and answers are pinned and released.               *)
(***************************************************************************)
EXTENDS Naturals, Sequences, FiniteSets, FiniteSetsExt, SequencesExt

CONSTANTS
  Kinds,       \* the messages that may be written, see Kind
  None,        \* nothing selected, no message
  Recent,      \* 30 messages are always told
  Candidates,  \* CONTEXT_CANDIDATES
  Each,        \* characters told of one message, 8000
  Total,       \* characters told at all, 64000
  ReadLimit,   \* CONTEXT_MESSAGE_BYTES
  MaxMessages  \* bound of this model on the chat

VARIABLE chat  \* the messages, oldest first

\* complete: an answer without a turn, or with a completed one; worded: the text
\* matches DEFINITION_WORDS or LIMITATION_WORDS, wherever; question: the answer's
\* turn has its question; pinned: saved for reuse.
Kind == [role : {"user", "assistant"}, size : Nat \ {0}, complete : BOOLEAN,
         worded : BOOLEAN, question : BOOLEAN, pinned : {FALSE}]

Init == chat = <<>>

Say(kind) ==
  /\ Len(chat) < MaxMessages
  /\ chat' = Append(chat, kind)

\* updateMessageMetadata.
Pin(i) == chat' = [chat EXCEPT ![i].pinned = ~@]

Next == (\E kind \in Kinds : Say(kind)) \/ (\E i \in DOMAIN chat : Pin(i))

Spec == Init /\ [][Next]_chat

-----------------------------------------------------------------------------
(* The rule.  Messages are the positions of the chat, in order.             *)

Least(a, b) == IF a < b THEN a ELSE b
Newest(s, n) == SubSeq(s, Len(s) - Least(n, Len(s)) + 1, Len(s))
Everything == [i \in DOMAIN chat |-> i]
Ordered(P) == SelectSeq(Everything, LAMBDA i : i \in P)

IsRelevant(i) == chat[i].role = "user" \/ chat[i].complete
IsRetained(i) == chat[i].pinned \/ chat[i].worded

\* The newest first, each up to Each, until Total is used up.
Told(s, size) ==
  LET After(k) == MapThenSumSet(LAMBDA j : Least(size[s[j]], Each), k + 1 .. Len(s))
      Length(k) == IF After(k) >= Total THEN 0 ELSE Least(Least(size[s[k]], Each), Total - After(k))
      from == Cardinality({k \in DOMAIN s : Length(k) = 0})
  IN  [k \in 1 .. Len(s) - from |-> <<s[k + from], Length(k + from)>>]

\* The question that a selected answer is an answer to.
Question(s, i) ==
  IF chat[i].question THEN <<"of the turn", i>>
  ELSE LET asked == {s[k] : k \in {j \in DOMAIN s : s[j] <= i /\ chat[s[j]].role = "user"}} IN
       IF asked = {} THEN None ELSE <<"asked at", Max(asked)>>

\* conversationContext of the messages s, of which kept are always told, for a
\* follow-up on the message selected, or on a result of it.
Context(s, size, kept, selected, result) ==
  LET relevant == SelectSeq(s, IsRelevant)
      found == selected # None /\ \E k \in DOMAIN relevant : relevant[k] = selected
      retained == ToSet(Newest(relevant, Recent)) \cup kept
                    \cup (IF found /\ ~result THEN {selected} ELSE {})
  IN  [told |-> Told(SelectSeq(relevant, LAMBDA i : i \in retained), size),
       answer |-> IF found THEN <<selected, Least(size[selected], Each)>> ELSE None,
       question |-> IF found THEN Question(relevant, selected) ELSE None]

Sizes == [i \in DOMAIN chat |-> chat[i].size]
WholeContext(selected, result) ==
  Context(Everything, Sizes, {i \in DOMAIN chat : IsRetained(i)}, selected, result)

-----------------------------------------------------------------------------
(* The stores.                                                             *)

RecentRows == Newest(SelectSeq(Everything, IsRelevant), Recent)
RetainedRows == SelectSeq(Everything, LAMBDA i : IsRelevant(i) /\ IsRetained(i))
CandidateRows == Newest(RetainedRows, Candidates)

Sum(P) == MapThenSumSet(LAMBDA i : Least(chat[i].size, Each), P)

\* Mutant of TooManyRetained: whatever does not fit is left out.
NeverTooMany == FALSE

\* More is retained than is read, and what is read leaves room for more.
TooManyRetained ==
  /\ Len(RetainedRows) > Candidates
  /\ LET horizon == CandidateRows[1]
         contributing == {i \in ToSet(RecentRows) \cup ToSet(CandidateRows) : i >= horizon}
     IN  Sum(contributing) < Total

\* The selected message and, if its turn has none, its question.  The shared
\* store does not ask whether the message is relevant.
SelectedRows(selected, shared) ==
  IF selected = None \/ (~shared /\ ~IsRelevant(selected)) THEN {}
  ELSE {selected} \cup (IF chat[selected].question THEN {}
         ELSE LET asked == {i \in 1 .. selected : chat[i].role = "user"}
              IN IF asked = {} THEN {} ELSE {Max(asked)})

Rows(selected, shared) ==
  Ordered(ToSet(RecentRows) \cup ToSet(CandidateRows) \cup SelectedRows(selected, shared))

\* compactContextMessage.
Compact(i) == Least(chat[i].size, Each)

\* boundedContextMessages: who was retained stays so, as pinned.
Marked(rows) == {i \in ToSet(rows) : IsRetained(i)}

\* getChatContext, and conversationContext of what it read.
Refused == [refused |-> TRUE]
ReadContext(selected, result, shared) ==
  LET rows == Rows(selected, shared) IN
  IF TooManyRetained \/ MapThenSumSet(Compact, ToSet(rows)) > ReadLimit THEN Refused
  ELSE Context(rows, [i \in DOMAIN chat |-> Compact(i)], Marked(rows), selected, result)

-----------------------------------------------------------------------------
(* Properties.                                                             *)

\* Whatever was said and pinned, and whichever message is followed up on, the
\* bounded read of either store tells the model the same as the whole chat
\* would, or says that it cannot: nothing the rule retains is lost to a limit
\* of the reader, to the cut of the texts, or to the order of the three reads.
ReadIsWhole ==
  \A selected \in DOMAIN chat \cup {None} : \A result \in BOOLEAN : \A shared \in BOOLEAN :
    ReadContext(selected, result, shared) \in {Refused, WholeContext(selected, result)}
==============================================================================
