------------------------------ MODULE ModelStream ------------------------------
(***************************************************************************)
(* The answers of a model provider: the client that reads the lines of the *)
(* stream (streamChat, src/server/model/OpenRouterClient.ts) and the agent *)
(* that puts the deltas together (streamModelResponse, AgentLoop.ts).      *)
(*                                                                         *)
(* An answer is a script of events, each a line of two symbols and a line  *)
(* break; the network cuts the symbols into chunks as it likes.  An event  *)
(* adds its own position in the script to the text, the reasoning or the   *)
(* arguments of a tool call, so that what is put together shows which were *)
(* read.  "note" is any line that carries nothing, "bad" one that is       *)
(* refused: malformed, an error, too long, too many calls.                 *)
(***************************************************************************)
EXTENDS Naturals, Sequences, FiniteSets, SequencesExt

CONSTANTS
  Scripts,     \* the answers a provider may give, sequences of [kind, index, id]
  Calls,       \* the indices of tool calls in an answer
  MaxAnswers   \* bound of this model on the answers of a turn

VARIABLES
  script,    \* the answer that comes in
  at,        \* how many of its symbols arrived
  buffer,    \* the line that is not whole yet
  answer,    \* text, thought, calls: index -> id and arguments, order; outcome
  saved,     \* deepSeekReasoningByToolCall: <<answer, index>> -> its reasoning
  past       \* the assistant messages with tool calls, with what they had reasoned

vars == <<script, at, buffer, answer, saved, past>>

Break == <<0, 0>>
Wire == FoldLeft(LAMBDA w, i : w \o <<<<i, 1>>, <<i, 2>>, Break>>, <<>>, [i \in DOMAIN script |-> i])

NoId == <<>>
NoCalls == [c \in Calls |-> [id |-> NoId, arguments |-> <<>>]]
Nothing == [text |-> <<>>, thought |-> <<>>, calls |-> NoCalls, order |-> <<>>, ids |-> {}, outcome |-> "reading"]

Init ==
  /\ script \in Scripts /\ at = 0 /\ buffer = <<>> /\ answer = Nothing
  /\ saved = <<>> /\ past = <<>>

-----------------------------------------------------------------------------
(* Lines.                                                                  *)

Breaks(symbols) == SetToSortSeq({k \in DOMAIN symbols : symbols[k] = Break}, <)
Lines(symbols) ==
  LET breaks == Breaks(symbols)
  IN  [n \in DOMAIN breaks |->
        SubSeq(symbols, IF n = 1 THEN 1 ELSE breaks[n - 1] + 1, breaks[n] - 1)]

\* Mutant of Rest: the line that was cut is forgotten.
RestForgotten(symbols) == <<>>

Rest(symbols) ==
  LET breaks == Breaks(symbols)
  IN  SubSeq(symbols, IF breaks = <<>> THEN 1 ELSE Last(breaks) + 1, Len(symbols))

\* A line's position in the script: the end of a line alone does not begin with
\* "data: " and is skipped, its beginning alone cannot be parsed.
Whole(line) == Len(line) = 2 /\ line[1] = <<line[1][1], 1>> /\ line[2] = <<line[1][1], 2>>
Skipped(line) == line = <<>> \/ line[1][2] = 2 \/ (Whole(line) /\ script[line[1][1]].kind = "note")

-----------------------------------------------------------------------------
(* Deltas.                                                                 *)

\* The fragments of a call are told by their index; the first opens it.
WithFragment(a, event, i) ==
  [a EXCEPT !.calls[event.index].arguments = Append(@, i),
            !.calls[event.index].id = IF event.id THEN <<Len(past) + 1, event.index>> ELSE @,
            !.order = IF event.index \in ToSet(@) THEN @ ELSE Append(@, event.index),
            !.ids = IF event.id THEN @ \cup {<<Len(past) + 1, event.index>>} ELSE @]

Read(a, line) ==
  LET i == line[1][1]
      event == script[i]
  IN  CASE a.outcome # "reading" \/ Skipped(line) -> a
        [] ~Whole(line) \/ event.kind = "bad" -> [a EXCEPT !.outcome = "failed"]
        [] event.kind = "text" -> [a EXCEPT !.text = Append(@, i)]
        [] event.kind = "think" -> [a EXCEPT !.thought = Append(@, i)]
        [] event.kind = "call" -> WithFragment(a, event, i)
        [] event.kind = "done" -> [a EXCEPT !.outcome = "done"]

\* The reasoning is kept for every tool call of an answer that came to its end.
Kept(a) ==
  IF a.outcome = "done" /\ a.thought # <<>>
  THEN [id \in a.ids |-> a.thought] @@ saved ELSE saved

-----------------------------------------------------------------------------
(* Steps.                                                                  *)

Arrives ==
  /\ answer.outcome = "reading"
  /\ \E n \in (at + 1) .. Len(Wire) :
       LET symbols == buffer \o SubSeq(Wire, at + 1, n)
           next == FoldLeft(Read, answer, Lines(symbols))
       IN  /\ at' = n /\ buffer' = Rest(symbols)
           /\ answer' = next /\ saved' = Kept(next)
  /\ UNCHANGED <<script, past>>

\* The stream ends early, breaks, takes too long or is aborted.
Interrupted ==
  /\ answer.outcome = "reading"
  /\ answer' = [answer EXCEPT !.outcome = "interrupted"]
  /\ UNCHANGED <<script, at, buffer, saved, past>>

\* The tools were called; the next request holds the assistant message.
AskAgain ==
  /\ answer.outcome = "done" /\ answer.order # <<>> /\ Len(past) + 1 < MaxAnswers
  /\ past' = Append(past, [ids |-> [k \in DOMAIN answer.order |-> answer.calls[answer.order[k]].id],
                           thought |-> answer.thought])
  /\ script' \in Scripts /\ at' = 0 /\ buffer' = <<>> /\ answer' = Nothing
  /\ UNCHANGED saved

\* withDeepSeekReasoning: what goes back with a message is kept for one of its calls.
Returned(message) ==
  LET kept == SelectSeq(message.ids, LAMBDA id : id \in DOMAIN saved)
  IN  IF kept = <<>> THEN <<>> ELSE saved[Head(kept)]

Next == Arrives \/ Interrupted \/ AskAgain

Spec == Init /\ [][Next]_vars

-----------------------------------------------------------------------------
(* Properties.                                                             *)

Positions(is(_)) == SelectSeq([i \in DOMAIN script |-> i], LAMBDA i : is(script[i]))
Spoiled(i) == script[i].kind \in {"bad", "done"}
EndsWell ==
  \E i \in DOMAIN script : script[i].kind = "done" /\ \A j \in 1 .. i - 1 : ~Spoiled(j)
Before(i) == \A j \in 1 .. i : ~Spoiled(j)
Of(is(_)) == SelectSeq(Positions(is), Before)

\* However the stream is cut, an answer that counts as complete holds exactly
\* the text, the reasoning and the arguments of each tool call that were sent
\* before its end, in order; one that was refused was not sent whole; and a
\* message goes back to the provider with what it had reasoned itself.
AnswerIsWhole ==
  /\ answer.outcome = "done" =>
       /\ EndsWell
       /\ answer.text = Of(LAMBDA e : e.kind = "text")
       /\ answer.thought = Of(LAMBDA e : e.kind = "think")
       /\ \A c \in Calls : answer.calls[c].arguments = Of(LAMBDA e : e.kind = "call" /\ e.index = c)
       /\ \A c \in ToSet(answer.order) : answer.calls[c].id # NoId
  /\ answer.outcome = "failed" => ~EndsWell
  /\ \A k \in DOMAIN past : Returned(past[k]) = past[k].thought
==============================================================================
