---------------------------- MODULE Introspection ----------------------------
(***************************************************************************)
(* How a relational schema is put together from the rows of the catalogue  *)
(* (introspect of the PostgreSQL, MySQL and SQLite connectors), and what   *)
(* the agent's tools make of a table's name and columns                    *)
(* (agent/tools/GetSchemaInfoTool.ts, SampleDataTool.ts).                  *)
(***************************************************************************)
EXTENDS Naturals, Sequences, SequencesExt, FiniteSets

CONSTANTS
  Databases,        \* the databases of this model, tables and constraints in catalogue order
  Lower,            \* the lower case of each word of a name
  Asked,            \* names the model asks for: quoted or not, a sequence of words
  Selections,       \* columns it selects, and excludes
  Sensitive,        \* DEFAULT_EXCLUDED_FIELD
  MaxColumns,       \* 20 000, of SQLite
  MaxProfile,       \* MAX_PROFILE_COLUMNS
  None

VARIABLES database, schema, call, answer

vars == <<database, schema, call, answer>>

Schema(is, tables) == [is |-> is, tables |-> tables]
Answer(is, table) == [is |-> is, table |-> table, profile |-> None]

Init ==
  /\ database \in Databases /\ schema = Schema("none", <<>>)
  /\ call = None /\ answer = Answer("none", None)

-----------------------------------------------------------------------------
(* The rows of the catalogue, in the order of the queries.                 *)

\* A table that may not be read is not listed.
ColumnRows(d) ==
  FlattenSeq([i \in DOMAIN d.tables |->
    LET t == d.tables[i]
    IN  IF ~t.seen THEN <<>>
        ELSE IF t.columns = <<>> /\ d.kind = "sqlite"   \* LEFT JOIN
             THEN <<[table |-> i, column |-> None]>>
             ELSE [j \in DOMAIN t.columns |-> [table |-> i, column |-> t.columns[j]]]])

\* One row for each pair of columns; of constraints between tables that are listed.
RelationRows(d) ==
  IF d.kind = "sqlite" THEN <<>>
  ELSE FlattenSeq([i \in DOMAIN d.tables |->
         FlattenSeq([c \in DOMAIN d.constraints |->
           LET k == d.constraints[c]
           IN  IF k.from # i \/ ~d.tables[i].seen \/ ~d.tables[k.to].seen THEN <<>>
               ELSE [p \in DOMAIN k.columns |->
                      [table |-> i, id |-> c, name |-> k.name, to |-> k.to,
                       column |-> k.columns[p], target |-> k.targets[p]]]])])

-----------------------------------------------------------------------------
(* introspect.                                                             *)

Place(tables, i) == {n \in DOMAIN tables : tables[n].table = i}

AddColumn(tables, row) ==
  LET n == Place(tables, row.table)
      listed == IF n # {} THEN tables
                ELSE Append(tables, [table |-> row.table, columns |-> <<>>, relationships |-> <<>>, foreign |-> {}])
      at == IF n # {} THEN CHOOSE k \in n : TRUE ELSE Len(listed)
  IN  IF row.column = None THEN listed
      ELSE [listed EXCEPT ![at].columns = Append(@, row.column)]

\* What tells the constraint of a row from another.
Key(kind, row) == IF kind = "postgres" THEN <<kind, row.id>> ELSE <<row.table, row.name>>

\* The relationship of a constraint, and the foreign key of the column, the last to
\* be set.
AddRelation(kind, s, row) ==
  LET n == Place(s.tables, row.table)
      at == CHOOSE k \in n : TRUE
      key == Key(kind, row)
      new == [to |-> row.to, columns |-> <<row.column>>, targets |-> <<row.target>>]
      known == {g \in s.groups : g.key = key}
      g == CHOOSE x \in known : TRUE
      tables ==
        IF known = {} THEN [s.tables EXCEPT ![at].relationships = Append(@, new)]
        ELSE [s.tables EXCEPT
               ![g.table].relationships[g.index].columns = Append(@, row.column),
               ![g.table].relationships[g.index].targets = Append(@, row.target)]
      to == IF known = {} THEN row.to ELSE tables[g.table].relationships[g.index].to
  IN  IF n = {} THEN s
      ELSE [tables |-> [tables EXCEPT ![at].foreign =
                          {f \in @ : f.column # row.column}
                            \cup {[column |-> row.column, to |-> to, target |-> row.target]}],
            groups |-> IF known = {}
                       THEN s.groups \cup {[key |-> key, table |-> at,
                                            index |-> Len(tables[at].relationships)]}
                       ELSE s.groups]

Tables(d) == FoldLeft(AddColumn, <<>>, ColumnRows(d))

introspect(d) ==
  IF d.kind = "sqlite" /\ Len(ColumnRows(d)) > MaxColumns THEN Schema("too large", <<>>)
  ELSE LET all == FoldLeft(LAMBDA s, row : AddRelation(d.kind, s, row),
                           [tables |-> Tables(d), groups |-> {}], RelationRows(d))
       IN  Schema("read", all.tables)

Introspect ==
  /\ schema.is = "none" /\ schema' = introspect(database)
  /\ UNCHANGED <<database, call, answer>>

-----------------------------------------------------------------------------
(* A name of the agent's.                                                  *)

Known == database.tables
Name(t) == Known[t.table].name
Qualified(t) == IF database.kind = "sqlite" THEN <<>> ELSE <<Known[t.table].schema, ".">> \o Name(t)
Lowered(words) == [i \in DOMAIN words |-> Lower[words[i]]]

Bare(t, asked) == Lowered(Name(t)) = Lowered(asked.words)

Exact(t, asked) == asked.quoted /\ Qualified(t) = asked.words
InWords(t, asked) == Qualified(t) # <<>> /\ Lowered(Qualified(t)) = Lowered(asked.words)

findTables(asked) ==
  LET all == Range(schema.tables)
      exact == {t \in all : Exact(t, asked)}
      qualified == IF exact # {} THEN exact ELSE {t \in all : InWords(t, asked)}
  IN  IF qualified # {} THEN qualified ELSE {t \in all : Bare(t, asked)}

Ask(asked) ==
  LET matches == findTables(asked)
  IN  /\ schema.is = "read" /\ call = None
      /\ call' = asked
      /\ answer' = IF matches = {} THEN Answer("not found", None)
                   ELSE IF Cardinality(matches) > 1 THEN Answer("ambiguous", None)
                   ELSE Answer("found", CHOOSE t \in matches : TRUE)
      /\ UNCHANGED <<database, schema>>

-----------------------------------------------------------------------------
(* sample_data, of the table that was found.                               *)

ExcludedColumns(t, s) == {c \in Range(t.columns) : c \in s.exclude \/ c \in Sensitive}

\* The columns asked for or all, each once, without those excluded, the first eight.
Chosen(t, s) ==
  LET requested == IF s.columns = None THEN t.columns ELSE s.columns
      once == FoldLeft(LAMBDA q, c : IF c \in Range(q) THEN q ELSE Append(q, c), <<>>, requested)
      allowed == SelectSeq(once, LAMBDA c : c \notin ExcludedColumns(t, s))
  IN  SubSeq(allowed, 1, IF Len(allowed) < MaxProfile THEN Len(allowed) ELSE MaxProfile)

\* The aggregates of column i bear its number.
sqlProfileQuery(columns) == {[alias |-> i, of |-> columns[i]] : i \in DOMAIN columns}
profileFieldMap(columns) == [i \in DOMAIN columns |-> columns[i]]

Sample(s) ==
  LET t == answer.table
      columns == Chosen(t, s)
  IN  /\ answer.is = "found"
      /\ answer' =
           IF t.columns # <<>> /\ columns = <<>> THEN Answer("excluded", t)
           ELSE IF ~(Range(columns) \subseteq Range(t.columns)) THEN Answer("unknown", t)
           ELSE [is |-> "profiled", table |-> t,
                 profile |-> [query |-> sqlProfileQuery(columns), fields |-> profileFieldMap(columns),
                              asked |-> s]]
      /\ UNCHANGED <<database, schema, call>>

Next == Introspect \/ (\E a \in Asked : Ask(a)) \/ (\E s \in Selections : Sample(s))

Spec == Init /\ [][Next]_vars

-----------------------------------------------------------------------------
(* Properties.                                                             *)

Constraints(i) == SelectSeq(database.constraints, LAMBDA k : k.from = i /\ Known[k.to].seen)

\* The schema has every table that can be read, with its columns in order and its
\* constraints, each once with its columns paired as in the catalogue, whatever the
\* constraints of other tables are called.
SchemaIsWhole ==
  schema.is = "read" =>
    /\ {t.table : t \in Range(schema.tables)} =
         {i \in DOMAIN Known : Known[i].seen /\ (Known[i].columns # <<>> \/ database.kind = "sqlite")}
    /\ \A t \in Range(schema.tables) :
         LET wanted == IF database.kind = "sqlite" THEN <<>> ELSE Constraints(t.table)
         IN  /\ t.columns = Known[t.table].columns
             /\ t.relationships = [n \in DOMAIN wanted |->
                  [to |-> wanted[n].to, columns |-> wanted[n].columns, targets |-> wanted[n].targets]]
             /\ \A f \in t.foreign : \E n \in DOMAIN wanted : \E p \in DOMAIN wanted[n].columns :
                  f = [column |-> wanted[n].columns[p], to |-> wanted[n].to, target |-> wanted[n].targets[p]]

Bears(t, asked) == Lowered(asked.words) \in {Lowered(Name(t)), Lowered(Qualified(t))}

\* A table is answered for when it is the only one that goes by the name, or its
\* qualified name was given exactly, which always finds it; nothing is found only
\* when no table goes by the name.
NamesResolve ==
  call # None =>
    LET bearing == {t \in Range(schema.tables) : Bears(t, call)}
        exact == {t \in Range(schema.tables) : Exact(t, call)}
    IN  /\ answer.is = "not found" <=> bearing = {}
        /\ exact # {} => exact = {answer.table}
        /\ answer.table # None =>
             /\ answer.table \in bearing
             /\ exact = {} => \A t \in bearing \ {answer.table} :
                  InWords(answer.table, call) /\ ~InWords(t, call)

\* A profile counts what its names say, and nothing of an excluded column.
ProfileIsNamed ==
  answer.is = "profiled" =>
    LET p == answer.profile
    IN  /\ \A a \in p.query : p.fields[a.alias] = a.of
        /\ {a.of : a \in p.query} \cap ExcludedColumns(answer.table, p.asked) = {}
        /\ Cardinality({a.of : a \in p.query}) = Cardinality(p.query)

SchemaIsRight == SchemaIsWhole /\ NamesResolve /\ ProfileIsNamed
==============================================================================
