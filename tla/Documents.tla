------------------------------ MODULE Documents ------------------------------
(***************************************************************************)
(* Documents as tables: the columns a schema gives an Elasticsearch index  *)
(* or a MongoDB collection, and the columns of the rows that are read of   *)
(* it (ElasticsearchConnector.ts, MongoDBConnector.ts).  A name is the     *)
(* sequence of its parts between dots; a value is an object, an array,     *)
(* null or a scalar.                                                       *)
(***************************************************************************)
EXTENDS Naturals, Sequences, FiniteSets

CONSTANTS
  Indices,       \* mappings with responses that conform to them
  Collections,   \* sequences of documents
  Sample,        \* SCHEMA_SAMPLE_DOCUMENTS
  None

VARIABLES source, columns, rows

vars == <<source, columns, rows>>

Init == source \in Indices \cup Collections /\ columns = {} /\ rows = None

isRecord(v) == v.is = "object"
Fields(v) == IF isRecord(v) THEN v.of ELSE {}

-----------------------------------------------------------------------------
(* Elasticsearch.                                                          *)

\* The prefix of what is inside.
Below(prefix, name) == prefix \o name

\* A property, what is inside of it, and other ways it is indexed.
RECURSIVE flattenProperties(_, _)
flattenProperties(properties, prefix) ==
  UNION {{[name |-> prefix \o p.key,
           type |-> IF p.type # None THEN p.type ELSE IF p.properties # {} THEN "object" ELSE "unknown",
           nullable |-> TRUE]}
          \cup flattenProperties(p.properties \cup p.fields, Below(prefix, p.key)) : p \in properties}

formatCell(v) == IF v.is = "array" THEN "text" ELSE v.is

RECURSIVE flattenRecord(_, _)
flattenRecord(v, prefix) ==
  UNION {IF isRecord(f.value) THEN flattenRecord(f.value, prefix \o f.key)
         ELSE {[column |-> prefix \o f.key, cell |-> formatCell(f.value)]} : f \in v.of}

\* A value that is no object is a cell of its prefix.
flattenValue(v, prefix) ==
  IF isRecord(v) THEN flattenRecord(v, prefix)
  ELSE IF prefix = <<>> THEN {} ELSE {[column |-> prefix, cell |-> formatCell(v)]}

Cells(row, later) == {c \in row : ~\E d \in later : d.column = c.column} \cup later

Metadata == {[column |-> <<k>>, cell |-> "scalar"] : k \in {"_index", "_id", "_score"}}
HitRow(hit) == Cells(Cells(Metadata, flattenValue(hit.source, <<>>)), flattenValue(hit.fields, <<>>))

\* One row for each bucket, one for what has none; what is no object is passed over.
rowsFromAggregations(aggregations) ==
  UNION {LET buckets == {f.value : f \in {g \in Fields(a.value) : g.key = <<"buckets">>}}
         IN  IF ~isRecord(a.value) THEN {}
             ELSE IF \E b \in buckets : b.is = "array"
                  THEN {flattenValue(b, a.key) : b \in {c \in UNION {b.of : b \in buckets} : isRecord(c)}}
                  ELSE {flattenValue(a.value, a.key)} : a \in aggregations}

\* Of a search, whether it is shown or exported; only what is shown may be a count.
rowsFromSearchResponse(response, exporting) ==
  LET aggregated == rowsFromAggregations(response.aggregations)
  IN  IF aggregated # {} THEN aggregated
      ELSE IF response.hits # {} \/ exporting THEN {HitRow(h) : h \in response.hits}
      ELSE {{[column |-> <<"total_hits">>, cell |-> "scalar"]}}

-----------------------------------------------------------------------------
(* MongoDB.                                                                *)

mongoValueType(v) == IF v.is = "scalar" THEN "string" ELSE v.is

\* The fields of the sampled documents, with the types they had.
samplesToColumns(documents) ==
  {LET having == {i \in DOMAIN documents : \E f \in documents[i].of : f.key = name}
       types == {mongoValueType(f.value) : f \in {g \in UNION {documents[i].of : i \in having} : g.key = name}}
   IN  [name |-> name, type |-> types,
        nullable |-> Cardinality(having) < Len(documents) \/ "null" \in types]
   : name \in {f.key : f \in UNION {documents[i].of : i \in DOMAIN documents}}}

\* Objects become text.
normalizeDocument(v) ==
  {[column |-> f.key, cell |-> IF isRecord(f.value) THEN "text" ELSE f.value.is] : f \in v.of}

-----------------------------------------------------------------------------

Introspect ==
  /\ columns = {} /\ rows = None
  /\ columns' = IF source \in Indices THEN flattenProperties(source.properties, <<>>)
                ELSE samplesToColumns(SubSeq(source.documents, 1,
                       IF Len(source.documents) < Sample THEN Len(source.documents) ELSE Sample))
  /\ columns' # {}
  /\ UNCHANGED <<source, rows>>

Search(exporting) ==
  /\ columns # {} /\ rows = None
  /\ rows' = IF source \in Indices
             THEN [of |-> rowsFromSearchResponse(source.response, exporting), exporting |-> exporting]
             ELSE [of |-> {normalizeDocument(source.documents[i]) : i \in DOMAIN source.documents},
                   exporting |-> exporting]
  /\ UNCHANGED <<source, columns>>

Next == Introspect \/ \E exporting \in BOOLEAN : Search(exporting)

Spec == Init /\ [][Next]_vars

-----------------------------------------------------------------------------
(* Properties.                                                             *)

Counted == Metadata \cup {[column |-> <<"total_hits">>, cell |-> "scalar"]}

\* The columns of the rows of documents are among those of the schema, which gives
\* an object's field the name the rows give it; a row without a value in a column
\* has one the schema calls nullable, as long as the schema has seen the document;
\* a row has one cell in a column, and an export no row that is not a document's.
RowsFitSchema ==
  rows # None =>
    LET names == {c.name : c \in columns}
        documents == source \in Collections
        aggregated == ~documents /\ source.response.aggregations # {}
    IN  /\ ~documents /\ ~aggregated =>
             \A r \in rows.of : \A c \in r \ Counted : c.column \in names
        /\ documents /\ Len(source.documents) <= Sample =>
             \A r \in rows.of :
               /\ \A c \in r : \E k \in columns : k.name = c.column /\ (c.cell = "null" => k.nullable)
               /\ \A k \in columns : ~k.nullable => \E c \in r : c.column = k.name
        /\ \A r \in rows.of : Cardinality(r) = Cardinality({c.column : c \in r})
        /\ rows.exporting /\ ~documents /\ ~aggregated =>
             Cardinality(rows.of) <= Cardinality(source.response.hits)
==============================================================================
