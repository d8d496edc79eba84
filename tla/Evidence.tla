------------------------------- MODULE Evidence -------------------------------
(***************************************************************************)
(* From a saved query result to what its reader sees.  The tools           *)
(* create_report, visualize_data and get_result (src/server/agent/tools/)  *)
(* take a result by its id and hydrate KPIs, tables, charts and slices     *)
(* from it; visualizationEnrichment.ts adds a chart the question asked     *)
(* for; the web app accepts a block or not, and says how much of the       *)
(* result it shows (contentBlocks.tsx, chartRenderer.tsx).                 *)
(*                                                                         *)
(* One result and one request.  Titles, units, colours, annotations and    *)
(* the other words of a report are left out.                               *)
(***************************************************************************)
EXTENDS Integers, Sequences, FiniteSets, SequencesExt, FiniteSetsExt

CONSTANTS
  Columns,    \* of the result, a sequence
  Values,     \* what a cell may hold, see Cell
  MaxRows,    \* bound of this model on the rows
  MaxSafe,    \* the largest safe integer, here a power of ten less one
  TablePage,  \* rows of a table that asks for no number, 15
  TableLimit, \* rows of a table at most, 50
  SliceLimit, \* rows of get_result at most, 100
  None

VARIABLES
  result,   \* the saved result
  request,  \* what is asked of it
  outcome,  \* what the tool published
  shown     \* what the web app shows of it

vars == <<result, request, outcome, shown>>

\* A number is n / 10^scale; a "string" holds one, "text" does not.  A document
\* may lack a column of its result: "absent".
Cell == [kind : {"number", "string"}, n : Int, scale : Nat]
        \cup [kind : {"absent", "null", "blank", "text", "other"}, n : {0}, scale : {0}]

Magnitude(n) == IF n < 0 THEN -n ELSE n
Smaller(a, b) == IF a < b THEN a ELSE b
Numeric(v) == v.kind \in {"number", "string"}
Whole(v) == v.n % 10 ^ v.scale = 0
Unsafe(v) == Whole(v) /\ Magnitude(v.n) > MaxSafe * 10 ^ v.scale

\* Number: a text becomes a double, in this model a number of so many digits that
\* its coefficient is at most MaxSafe; what is longer loses its last decimals. Of a
\* whole number beyond MaxSafe it only matters that it stays one.
Rounded(v, digits) ==
  [kind |-> "number", n |-> (2 * v.n + 10 ^ digits) \div (2 * 10 ^ digits), scale |-> v.scale - digits]
Converted(v) ==
  Rounded(v, Min({d \in 0 .. v.scale : d = v.scale \/ Magnitude(Rounded(v, d).n) <= MaxSafe}))

\* The connectors bound a result before it is saved; a saved result may have
\* had more rows than are kept of it, and columns that only those had.
Results == {[rows |-> r, count |-> n, truncated |-> t] :
              r \in UNION {[1 .. k -> [ToSet(Columns) -> Values]] : k \in 0 .. MaxRows},
              n \in 0 .. MaxRows + 1, t \in BOOLEAN}

Shape ==
  {r \in Results :
     /\ r.count >= Len(r.rows)
     /\ r.truncated \/ r.rows = <<>>
          \/ \A c \in ToSet(Columns) : \E k \in DOMAIN r.rows : r.rows[k][c].kind # "absent"}

\* row 0 is the first; sum: aggregation.
Kpis == [type : {"kpi"}, column : ToSet(Columns) \cup {None}, row : {None} \cup -1 .. MaxRows, sum : BOOLEAN]
Tables == [type : {"table"}, limit : {None} \cup 0 .. TableLimit + 1]
Kinds == {"bar", "pie", "scatter", "slope"}
Charts == [type : {"chart"}, kind : Kinds, name : ToSet(Columns) \cup {None},
           values : {None, <<>>, Columns} \cup {<<c>> : c \in ToSet(Columns)}]
Slices == [type : {"slice"}, offset : 0 .. MaxRows, limit : 0 .. SliceLimit + 1]
Asked == [type : {"asked"}, kind : Kinds]
Requests == Kpis \cup Tables \cup Charts \cup Slices \cup Asked

Nothing == [type |-> "nothing"]
Refused == [type |-> "refused"]

Init ==
  /\ result \in Shape
  /\ request = Nothing /\ outcome = Nothing /\ shown = Nothing

-----------------------------------------------------------------------------
(* create_report: KPIs and tables.                                         *)

Cells(rows, c) == [k \in DOMAIN rows |-> rows[k][c]]
Total(cells, scale) ==
  MapThenSumSet(LAMBDA k : cells[k].n * 10 ^ (scale - cells[k].scale), DOMAIN cells)

\* Mutant of SummedColumn: the coefficients are added as they are.
SummedUnscaled(c) ==
  LET cells == SelectSeq(Cells(result.rows, c), LAMBDA v : v.kind \notin {"absent", "null"})
      scale == Max({cells[k].scale : k \in DOMAIN cells} \cup {0})
  IN  IF cells = <<>> \/ \E k \in DOMAIN cells : ~Numeric(cells[k]) \/ (cells[k].kind = "number" /\ Unsafe(cells[k]))
      THEN Refused
      ELSE [type |-> "cell", cell |-> [kind |-> "string", n |-> MapThenSumSet(LAMBDA k : cells[k].n, DOMAIN cells), scale |-> scale]]

\* sumDecimalColumn: exact, in the scale of the finest number; a number only if
\* all are numbers and the total is a safe integer.
SummedColumn(c) ==
  LET cells == SelectSeq(Cells(result.rows, c), LAMBDA v : v.kind \notin {"absent", "null"})
      scale == Max({cells[k].scale : k \in DOMAIN cells} \cup {0})
      total == Total(cells, scale)
      number == scale = 0 /\ Magnitude(total) <= MaxSafe
                  /\ \A k \in DOMAIN cells : cells[k].kind = "number"
  IN  IF cells = <<>> \/ \E k \in DOMAIN cells : ~Numeric(cells[k]) \/ (cells[k].kind = "number" /\ Unsafe(cells[k]))
      THEN Refused
      ELSE [type |-> "cell", cell |-> [kind |-> IF number THEN "number" ELSE "string",
                                       n |-> total, scale |-> scale]]

Complete == ~result.truncated /\ result.count = Len(result.rows)

KpiCell(q) ==
  LET column == IF q.column # None THEN q.column
                ELSE IF Len(Columns) = 1 THEN Columns[1] ELSE None
      row == IF q.row = None THEN 0 ELSE q.row
  IN  CASE q.sum /\ (q.row # None \/ q.column = None \/ ~Complete) -> Refused
        [] q.sum /\ q.row = None /\ q.column # None /\ Complete -> SummedColumn(column)
        [] ~q.sum /\ (\/ q.row = None /\ Len(result.rows) > 1
                      \/ column = None \/ row \notin 0 .. Len(result.rows) - 1) -> Refused
        [] OTHER -> [type |-> "cell", cell |-> result.rows[row + 1][column]]

Kpi(q) ==
  LET found == KpiCell(q) IN
  IF found = Refused \/ found.cell.kind = "other" \/ (found.cell.kind = "number" /\ Unsafe(found.cell))
  THEN Refused
  ELSE [type |-> "kpi", cell |-> found.cell]

\* totalRowCount is null of a truncated result; a chart has no loadedRowCount.
Coverage(returned, loaded) ==
  [returned |-> returned, loaded |-> loaded, truncated |-> result.truncated,
   total |-> IF result.truncated THEN None ELSE result.count]

Table(q) ==
  LET limit == IF q.limit = None THEN Smaller(TablePage, Len(result.rows))
               ELSE Smaller(TableLimit, IF q.limit < 1 THEN 1 ELSE q.limit)
      rows == SubSeq(result.rows, 1, Smaller(limit, Len(result.rows)))
  IN  [type |-> "table", rows |-> rows, coverage |-> Coverage(Len(rows), Len(result.rows))]

-----------------------------------------------------------------------------
(* visualize_data, for a report, for the model and for a question that asked *)
(* for a chart.                                                            *)

Others(c) == SelectSeq(Columns, LAMBDA d : d # c)

\* validateSpec: the columns it looks at, and what it wants of them.
Plottable(v) ==
  \/ v.kind \in {"null", "blank"}
  \/ v.kind = "number" /\ ~Unsafe(v)
  \/ v.kind = "string" /\ ~Unsafe(Converted(v))
Drawable(kind, name, values) ==
  /\ result.rows # <<>>
  /\ CASE kind = "pie" -> Len(values) = 1
       [] kind = "scatter" -> Len(values) >= 2
       [] kind = "slope" -> Len(values) = 2
       [] kind = "bar" -> TRUE
  /\ \A k \in DOMAIN result.rows :
       /\ result.rows[k][name].kind # "absent"
       /\ \A c \in ToSet(values) : Plottable(result.rows[k][c])
  /\ \A c \in ToSet(values) : \E k \in DOMAIN result.rows : Numeric(result.rows[k][c])

\* A text that holds a number becomes the double nearest to it.
Plotted(v) == IF v.kind = "string" THEN Converted(v) ELSE v

\* No columns given, or an empty list of them, are all but the label's when they
\* are validated; when they are published, only the former.
Chart(kind, name, values) ==
  LET label == IF name = None THEN Columns[1] ELSE name
      validated == IF values \in {None, <<>>} THEN Others(label) ELSE values
      published == IF values = None THEN Others(label) ELSE values
  IN  IF ~Drawable(kind, label, validated) THEN Refused
      ELSE [type |-> "chart", kind |-> kind, name |-> label, values |-> published,
            rows |-> [k \in DOMAIN result.rows |->
                        [c \in ToSet(Columns) |-> IF c \in ToSet(published) THEN Plotted(result.rows[k][c])
                                                  ELSE result.rows[k][c]]],
            coverage |-> Coverage(Len(result.rows), Len(result.rows))]

\* selectVisualizationArtifact: six of ten values are numbers; the label is a
\* column of different values that are not all numbers.
Counted(c) == {k \in DOMAIN result.rows : Numeric(result.rows[k][c])}
NumericColumns ==
  SelectSeq(Columns, LAMBDA c : Counted(c) # {} /\ 10 * Cardinality(Counted(c)) >= 6 * Len(result.rows))
Labels == SelectSeq(Columns, LAMBDA c :
            /\ Counted(c) # DOMAIN result.rows
            /\ Cardinality({result.rows[k][c] : k \in DOMAIN result.rows}) > 1)
Label == IF Labels = <<>> THEN Columns[1] ELSE Labels[1]

\* buildVisualizationInput.
Enrichment(kind) ==
  LET values == SelectSeq(NumericColumns, LAMBDA c : c # Label)
      wanted == CASE kind = "pie" -> 1
                  [] kind \in {"scatter", "slope"} -> 2
                  [] kind = "bar" -> Len(values)
  IN  IF Len(result.rows) < 2 \/ values = <<>> THEN Refused
      ELSE Chart(kind, Label, SubSeq(values, 1, Smaller(wanted, Len(values))))

-----------------------------------------------------------------------------
(* get_result; a preview of run_database_query is the slice at 0.          *)

More(offset, rows) == offset + Len(rows) < Len(result.rows) \/ result.truncated

Slice(q) ==
  LET limit == Smaller(SliceLimit, IF q.limit < 1 THEN 1 ELSE q.limit)
      rows == SubSeq(result.rows, q.offset + 1, Smaller(q.offset + limit, Len(result.rows)))
  IN  [type |-> "slice", offset |-> q.offset, rows |-> rows, more |-> More(q.offset, rows)]

Outcome(q) ==
  CASE q.type = "kpi" -> Kpi(q)
    [] q.type = "table" -> Table(q)
    [] q.type = "chart" -> Chart(q.kind, q.name, q.values)
    [] q.type = "slice" -> Slice(q)
    [] q.type = "asked" -> Enrichment(q.kind)

-----------------------------------------------------------------------------
(* The web app.                                                            *)

\* coverageLabel: "Showing x of y rows", "source result was limited", "of z total".
CoverageTold(coverage) ==
  ~(/\ coverage.returned >= coverage.loaded
    /\ ~coverage.truncated /\ coverage.total # None
    /\ coverage.loaded >= coverage.total)

\* isContentBlock.
IsContentBlock(b) ==
  CASE b.type = "kpi" -> b.cell.kind # "absent"
    [] b.type = "chart" -> b.rows # <<>>
    [] b.type = "table" -> TRUE

\* Number, of the slope chart.
ToNumber(v) == IF Numeric(v) THEN Plotted(v)
               ELSE [kind |-> "number", n |-> 0, scale |-> 0]

\* ChartView: what is drawn.  A slope has a line for every row with two numbers.
Drawn(b) ==
  CASE \/ b.values = <<>> \/ (b.kind = "scatter" /\ Len(b.values) < 2)
       \/ (b.kind = "slope" /\ Len(b.values) # 2) -> Refused
    [] b.values # <<>> /\ b.kind = "slope" /\ Len(b.values) = 2 ->
         [b EXCEPT !.rows = [k \in DOMAIN b.rows |->
            [c \in DOMAIN b.rows[k] |-> IF c \in ToSet(b.values) THEN ToNumber(b.rows[k][c]) ELSE b.rows[k][c]]]]
    [] OTHER -> b

Shown(b) ==
  IF b.type \in {"nothing", "refused", "slice"} \/ ~IsContentBlock(b) THEN Refused
  ELSE IF b.type = "chart" THEN Drawn(b)
  ELSE b

-----------------------------------------------------------------------------
Ask ==
  /\ request = Nothing
  /\ \E q \in Requests : request' = q /\ outcome' = Outcome(q)
  /\ UNCHANGED <<result, shown>>

Show ==
  /\ outcome # Nothing /\ shown = Nothing
  /\ shown' = Shown(outcome)
  /\ UNCHANGED <<result, request, outcome>>

Next == Ask \/ Show

Spec == Init /\ [][Next]_vars

-----------------------------------------------------------------------------
(* Properties.                                                             *)

SameNumber(v, w) == v.n * 10 ^ w.scale = w.n * 10 ^ v.scale

\* The numbers a double can have, with no more decimals than the values have.
Finest == Max({v.scale : v \in Values})
Doubles == [n : -MaxSafe .. MaxSafe, scale : 0 .. Finest]
InFinest(v) == v.n * 10 ^ (Finest - v.scale)
Distance(v, w) == Magnitude(InFinest(v) - InFinest(w))

\* A whole number is drawn where it is, another one at a double none is nearer than.
DrawnAt(point, v) ==
  /\ Whole(v) => SameNumber(point, v)
  /\ \E d \in Doubles : SameNumber(point, d)
  /\ \A d \in Doubles : Distance(point, v) <= Distance(d, v)

NothingLost == ~result.truncated /\ result.count = Len(result.rows)

IsEvidence(kpi) ==
  /\ ~(kpi.cell.kind = "number" /\ Unsafe(kpi.cell))
  /\ IF request.sum
     THEN LET cells == SelectSeq(Cells(result.rows, request.column), Numeric)
         IN  /\ NothingLost
             /\ SameNumber(kpi.cell, [n |-> Total(cells, Finest), scale |-> Finest])
     ELSE \E k \in DOMAIN result.rows, c \in ToSet(Columns) :
            /\ kpi.cell = result.rows[k][c]
            /\ request.row \in {None, k - 1} /\ request.column \in {None, c}

AreEvidence(rows) ==
  \A k \in DOMAIN rows, c \in ToSet(Columns) :
    LET plotted == shown.type = "chart" /\ c \in ToSet(shown.values)
    IN  IF plotted /\ Numeric(result.rows[k][c]) THEN DrawnAt(rows[k][c], result.rows[k][c])
        ELSE (plotted /\ shown.kind = "slope") \/ rows[k][c] = result.rows[k][c]

\* Whatever a report, a chart or a slice is asked for, what its reader is given
\* is what the query returned: a KPI is a cell or the exact total of a complete
\* result; a table has the cells themselves; a point is drawn at its number, and
\* where a text has more digits than a double holds, at the nearest there is, but
\* never a whole number at another; a chart that was added by itself is drawn; and
\* who is given less than the query had is told so.  (A slope draws a missing value
\* at zero.)
EvidenceIsTold ==
  /\ shown.type = "kpi" => IsEvidence(shown)
  /\ shown.type \in {"table", "chart"} =>
       /\ AreEvidence(shown.rows)
       /\ CoverageTold(shown.coverage) \/ (NothingLost /\ Len(shown.rows) = Len(result.rows))
  /\ outcome.type = "slice" /\ ~outcome.more =>
       ~result.truncated /\ outcome.offset + Len(outcome.rows) >= Len(result.rows)
  /\ request.type = "asked" /\ outcome # Refused => shown # Refused
==============================================================================
