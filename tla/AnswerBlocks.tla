----------------------------- MODULE AnswerBlocks -----------------------------
(***************************************************************************)
(* The charts, reports and downloads in an answer.  Tools of the turn      *)
(* produce them; the model's last text repeats some, leaves some out and   *)
(* may write its own; hydrateValidatedStructuredOutput                     *)
(* (src/server/agent/AgentLoop.ts) builds the answer of both, unless the   *)
(* turn ends incomplete: then a fixed text takes its place; and            *)
(* enrichVisualizationIfNeeded (src/server/webAgentService.ts) may add a   *)
(* chart to either.  The web app reads the blocks out of the answer again  *)
(* (splitContent of src/web/contentBlocks.tsx).                            *)
(*                                                                         *)
(* A text is a sequence of pieces: prose, JSON as such, and JSON in a      *)
(* fence; equal JSON is one payload (canonicalJson).  Only the last piece  *)
(* may be cut off.                                                         *)
(***************************************************************************)
EXTENDS Naturals, Sequences, FiniteSets, SequencesExt

CONSTANTS
  Payloads,     \* what the tools produce and what the model makes up
  Downloads,    \* those of them that hold a download
  Charts,       \* those that are a chart, the others are reports
  Wordy,        \* neither: made up, of text, lists and code only
  None,
  MaxPieces     \* bound of this model on the text

VARIABLES
  made,   \* payloads of successful tool calls, in order
  text,   \* the last text of the model; empty where a final report ends the turn
  answer, \* the saved answer
  reason, \* terminalReason: why the turn ended, None before
  wanted  \* the question asks for a chart

vars == <<made, text, answer, reason, wanted>>

\* fence: "blocks", "chart", another language, or no fence at all.
Fences == {"blocks", "chart", "json", "none"}
Pieces == [fence : Fences, payload : Payloads, cut : BOOLEAN]
Prose == [fence |-> "prose"]
IsJson(piece) == piece.fence # "prose"
CutOff(piece) == IsJson(piece) /\ piece.cut

Init ==
  /\ made = <<>> /\ text = <<>> /\ answer = <<>> /\ reason = None
  /\ wanted \in BOOLEAN

\* A tool returns blocks or a chart; the model cannot choose the id of a download.
Tool(p) ==
  /\ text = <<>> /\ reason = None
  /\ p \notin Wordy /\ p \notin ToSet(made)
  /\ made' = Append(made, p)
  /\ UNCHANGED <<text, answer, reason, wanted>>

Write(piece) ==
  /\ reason = None /\ Len(text) < MaxPieces
  /\ \A k \in DOMAIN text : ~CutOff(text[k])
  /\ text' = Append(text, piece)
  /\ UNCHANGED <<made, answer, reason, wanted>>

-----------------------------------------------------------------------------
(* hydrateValidatedStructuredOutput.                                       *)

Structured(p) == p \notin Wordy  \* containsStructuredDataBlock

\* Its own fences are taken out, also one that is cut off; of the rest, JSON that
\* holds data is (stripRawStructuredJson), unless it is cut off.
Kept(piece) ==
  \/ piece.fence = "prose"
  \/ piece.fence \in {"json", "none"} /\ (piece.cut \/ ~Structured(piece.payload))

FencedPayloads ==
  {x.payload : x \in {y \in ToSet(text) : y.fence \in {"blocks", "chart"} /\ ~y.cut}}

\* Mutant of Included: a fence of the model is taken as it is.
IncludedUnseen == FencedPayloads

Included == FencedPayloads \cap ToSet(made)

\* Those the model repeated, in its order, and every download; all, if it
\* repeated none.
Repeated ==
  LET fenced == SelectSeq(text, LAMBDA x : x.fence \in {"blocks", "chart"} /\ x.payload \in Included)
      at(p) == CHOOSE k \in DOMAIN fenced :
                 fenced[k].payload = p /\ \A j \in 1 .. k - 1 : fenced[j].payload # p
  IN  SetToSortSeq(Included, LAMBDA p, q : at(p) < at(q))
Missed == SelectSeq(made, LAMBDA p : p \in Downloads \ Included)
Published == IF Included = {} THEN made ELSE Repeated \o Missed

\* "Structured output was omitted ...", where no tool made any.
Note == IF made = <<>> /\ \E k \in DOMAIN text : ~Kept(text[k]) THEN <<Prose>> ELSE <<>>

Hydrated ==
  SelectSeq(text, Kept) \o Note
    \o [k \in DOMAIN Published |->
          [fence |-> IF Published[k] \in Charts THEN "chart" ELSE "blocks", payload |-> Published[k], cut |-> FALSE]]

-----------------------------------------------------------------------------
(* The chart a question asked for, see Evidence.                           *)

\* A chart fence, or a chartType anywhere in the text: that of a report's chart too.
HasChart(piece) == IsJson(piece) /\ (piece.fence = "chart" \/ piece.payload \in Charts)
HasChartMarkup(content) == \E k \in DOMAIN content : HasChart(content[k])

Enriched(content, chart) ==
  Append(content, [fence |-> "chart", payload |-> chart, cut |-> FALSE])

\* The server calls the chart tool itself, which may refuse; a result that is
\* drawn again gives the same chart.
Saved(content) ==
  \/ answer' = content /\ UNCHANGED made
  \/ /\ wanted /\ ~HasChartMarkup(content)
     /\ \E c \in Charts :
          /\ answer' = Enriched(content, c)
          /\ made' = IF c \in ToSet(made) THEN made ELSE Append(made, c)

-----------------------------------------------------------------------------
(* The ends of runAgentLoop.                                               *)

Ends(why, content) ==
  /\ reason = None /\ reason' = why
  /\ Saved(content)
  /\ UNCHANGED <<text, wanted>>

Complete == Hydrated # <<>> /\ Ends("completed", Hydrated)

\* The note that the text reached the length limit is put behind it all.
CutShort == Ends("length", Append(Hydrated, Prose))

\* The last query failed and was not repaired, rounds or calls are used up, or
\* there is nothing to say: a fixed text, whatever the tools have made.
Incomplete == Ends("incomplete", <<Prose>>)

Next ==
  \/ \E p \in Payloads : Tool(p)
  \/ \E piece \in Pieces \cup {Prose} : Write(piece)
  \/ Complete \/ CutShort \/ Incomplete

Spec == Init /\ [][Next]_vars

-----------------------------------------------------------------------------
(* The web app: the payloads it shows, from fences of any language and from *)
(* plain JSON, as long as they are complete.                               *)

Seen == SelectSeq(answer, LAMBDA x : IsJson(x) /\ ~x.cut)
ShownPayloads == [k \in DOMAIN Seen |-> Seen[k].payload]

\* Whatever the model writes, in whatever fence, and however the turn ends, the
\* reader sees no figures but those of the turn's own tools, and none of them
\* twice.  If the answer is not declared incomplete, it has every download of the
\* turn, and something, if the tools made anything.  (An incomplete answer drops
\* what was made; the query results stay in the turn's activity.)
OnlyVerifiedBlocks ==
  reason # None =>
    LET data == SelectSeq(ShownPayloads, Structured) IN
    /\ ToSet(data) \subseteq ToSet(made)
    /\ IsInjective(data)
    /\ reason # "incomplete" =>
         /\ (ToSet(made) \cap Downloads) \subseteq ToSet(data)
         /\ made # <<>> => data # <<>>
==============================================================================
