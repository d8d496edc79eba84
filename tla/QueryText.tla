------------------------------- MODULE QueryText -------------------------------
(***************************************************************************)
(* What the SQL connectors make of a query's text                          *)
(* (src/server/connectors/QueryValidator.ts): its statement without        *)
(* comments, its words, the operation it is taken for, and the bounded     *)
(* query that is sent in place of one that reads.                          *)
(*                                                                         *)
(* A text is a sequence of atoms: words, marks and blanks.  Words that     *)
(* touch are one word.  The text grows by an atom per step, so that every  *)
(* text of up to MaxAtoms atoms is met.                                    *)
(***************************************************************************)
EXTENDS Naturals, Sequences, SequencesExt

CONSTANTS
  Starts,     \* the texts to begin with
  Atoms,      \* the atoms to go on with
  MaxAtoms    \* bound of this model on the atoms of a text

VARIABLE query

Reads == {"SELECT", "WITH"}
WRITE == {"INSERT", "DELETE"}
DDL == {"CREATE", "DROP"}
UNSAFE_READ == {"INTO", "COPY"}
Words == Reads \cup WRITE \cup DDL \cup UNSAFE_READ \cup {"FROM", "AS", "LIMIT", "dbchat_bounded", "x"}
Blanks == {" ", "nl"}
Ambiguous == {"#", "/*!"}

-----------------------------------------------------------------------------
(* sqlStatement, an atom at a time.                                        *)

Start == [mode |-> "text", until |-> "", sql |-> <<>>, words |-> <<>>, inWord |-> FALSE,
          ended |-> FALSE, refused |-> FALSE]

Into(st, mode) == [st EXCEPT !.mode = mode, !.inWord = FALSE]
With(st, atoms) == [st EXCEPT !.sql = @ \o atoms]
Refuse(st) == [st EXCEPT !.refused = TRUE]

\* Mutant of Uncommented: a comment leaves nothing behind.
Joined(st, blank) == st

Uncommented(st, blank) == With(st, <<blank>>)

WithWord(st, atom) ==
  [With(st, <<atom>>) EXCEPT !.mode = "text", !.inWord = TRUE,
    !.words = IF st.inWord THEN Append(Front(@), Append(Last(@), atom)) ELSE Append(@, <<atom>>)]

OfText(st, atom) ==
  CASE atom \in Blanks -> With(Into(st, "text"), <<atom>>)
    [] atom = "--" -> Uncommented(Into(st, "line"), "nl")
    [] atom = "/*" -> Into(st, "block")
    [] atom = "/*!" \/ (st.ended /\ atom \notin Blanks \cup {"--", "/*"}) \/ atom \in Ambiguous -> Refuse(st)
    [] atom = ";" -> [Into(st, "text") EXCEPT !.ended = TRUE]
    [] atom = "'" -> [With(Into(st, "quoted"), <<atom>>) EXCEPT !.until = "'"]
    [] atom = "[" -> [With(Into(st, "quoted"), <<atom>>) EXCEPT !.until = "]"]
    [] atom \in Words -> WithWord(st, atom)
    [] OTHER -> With(Into(st, "text"), <<atom>>)

\* A line comment ends before its line break, a doubled quote does not close.
Lex(st, atom) ==
  CASE st.refused -> st
    [] st.mode = "line" -> IF atom = "nl" THEN With(Into(st, "text"), <<"nl">>) ELSE st
    [] st.mode = "block" /\ atom \in {"/*", "/*!"} -> Refuse(st)
    [] st.mode = "block" -> IF atom = "*/" THEN Uncommented(Into(st, "text"), " ") ELSE st
    [] st.mode = "quoted" -> With(Into(st, IF atom = st.until THEN "closed" ELSE "quoted"), <<atom>>)
    [] st.mode = "closed" /\ atom = st.until -> With(Into(st, "quoted"), <<atom>>)
    [] OTHER -> OfText(st, atom)

sqlStatement(text) ==
  LET st == FoldLeft(Lex, Start, text)
  IN  [st EXCEPT !.refused = @ \/ st.mode \in {"block", "quoted"} \/ st.words = <<>>]

Has(words, set) == \E w \in ToSet(words) : Len(w) = 1 /\ w[1] \in set

classifyQuery(text) ==
  LET statement == sqlStatement(text)
      first == <<statement.words[1]>>
  IN  CASE statement.refused -> "unknown"
        [] Has(first, DDL) -> "ddl"
        [] Has(first, WRITE) -> "write"
        [] ~Has(first, Reads) \/ Has(statement.words, UNSAFE_READ \cup DDL) -> "unknown"
        [] Has(statement.words, WRITE) -> "write"
        [] OTHER -> "read"

\* validate, of a query that reads.
Before == <<"SELECT", " ", "*", " ", "FROM", " ", "(">>
After == <<"nl", ")", " ", "AS", " ", "dbchat_bounded", " ", "LIMIT", " ", "1">>
modifiedQuery(text) == Before \o sqlStatement(text).sql \o After

-----------------------------------------------------------------------------

Init == query \in Starts

Write ==
  /\ Len(query) < MaxAtoms /\ ~FoldLeft(Lex, Start, query).refused
  /\ \E atom \in Atoms : query' = Append(query, atom)

Next == Write
Spec == Init /\ [][Next]_query

-----------------------------------------------------------------------------
(* Properties.                                                             *)

\* The bounded query is a reading one of the same words, whole, between those
\* that bound it: no comment or quote of the query reaches the bound behind it,
\* its semicolon and comments do not split it, and its words stay apart.
BoundedIsTheQuery ==
  classifyQuery(query) = "read" =>
    LET bounded == modifiedQuery(query)
    IN  /\ classifyQuery(bounded) = "read"
        /\ sqlStatement(bounded).words =
             <<<<"SELECT">>, <<"FROM">>>> \o sqlStatement(query).words
             \o <<<<"AS">>, <<"dbchat_bounded">>, <<"LIMIT">>>>
==============================================================================
