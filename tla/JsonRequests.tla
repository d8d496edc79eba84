---------------------------- MODULE JsonRequests ----------------------------
(***************************************************************************)
(* Requests for MongoDB and Elasticsearch, which are JSON: what the server *)
(* takes one for (classifyQuery, src/server/connectors/QueryValidator.ts)  *)
(* and what the connectors make of the same text (mongodbValidation.ts,    *)
(* elasticsearchValidation.ts and the two connectors' executeQuery and     *)
(* exportQuery).  A value is an object, an array, a text that serves as a  *)
(* name, or something else.                                                *)
(***************************************************************************)
EXTENDS FiniteSets

CONSTANTS
  Requests,     \* the objects of this model, as sets of [key, value]
  Plain,        \* the lower case of a key, and what a "$" or "_script" makes of it
  None

VARIABLES request, safe, class, outcome

vars == <<request, safe, class, outcome>>

Object(fields) == [is |-> "object", of |-> fields]
Array(values) == [is |-> "array", of |-> values]
Text(t) == [is |-> "text", of |-> {t}]
Absent == [is |-> "absent", of |-> {}]

isRecord(v) == v.is = "object"
Has(o, key) == \E f \in o.of : f.key = key
At(o, key) == IF Has(o, key) THEN (CHOOSE f \in o.of : f.key = key).value ELSE Absent
Is(v, words) == v.is = "text" /\ v.of \subseteq words
Named(v) == Is(v, {"name", "pattern"})    \* not blank; "pattern" is not the name of one index
Concrete(v) == Is(v, {"name"})

Init ==
  /\ request \in Requests /\ safe \in BOOLEAN
  /\ class = None /\ outcome = [c \in {"mongodb", "elasticsearch"} |-> None]

-----------------------------------------------------------------------------
(* Keys that are blocked, at any depth.                                    *)

\* Plain[key].lower is the key in lower case, .name the same without a leading "$",
\* .script that it ends in "_script".
BlockedMongo(key) ==
  Plain[key].name \in {"function", "accumulator", "javascript", "where"} \/ Plain[key].script
BlockedStage(key) == key \in {"$out", "$merge", "$function", "$where", "$graphLookup"}
BlockedSearch(key) ==
  \/ Plain[key].lower \in {"delete", "doc", "id", "index", "pipeline", "runtime_mappings", "script",
                           "script_fields", "source", "update", "upsert"}
  \/ Plain[key].script

\* The values a value is made of.
Inside(v) ==
  CASE v.is = "object" -> {f.value : f \in v.of}
    [] v.is = "array" -> v.of
    [] OTHER -> {}

Blocks(rule, key) ==
  CASE rule = "mongodb" -> BlockedMongo(key)
    [] rule = "stage" -> BlockedStage(key)
    [] rule = "elasticsearch" -> BlockedSearch(key)

RECURSIVE findBlocked(_, _)
findBlocked(rule, v) ==
  \/ v.is = "object" /\ \E f \in v.of : Blocks(rule, f.key)
  \/ \E w \in Inside(v) : findBlocked(rule, w)

-----------------------------------------------------------------------------
(* MongoDB.                                                                *)

Writes == {"insertOne", "updateOne", "deleteOne"}

parseMongoDBReadQuery(r) ==
  Named(At(r, "collection")) /\ Is(At(r, "method"), {"find", "aggregate", "count"}) /\ isRecord(At(r, "body"))

\* What a write refers to; a filter is looked at by the connector alone.
parseWrite(r) ==
  /\ Concrete(At(r, "collection"))
  /\ Is(At(r, "method"), {"deleteOne", "updateOne"}) => isRecord(At(r, "filter"))
  /\ Is(At(r, "method"), {"updateOne"}) =>
       isRecord(At(r, "update")) /\ ~findBlocked("mongodb", At(r, "update"))
  /\ Is(At(r, "method"), {"insertOne"}) =>
       isRecord(At(r, "document")) /\ ~findBlocked("mongodb", At(r, "document"))

parseMongoDBQuery(r) ==
  IF Is(At(r, "method"), Writes)
  THEN IF parseWrite(r) THEN "write" ELSE "refused"
  ELSE IF parseMongoDBReadQuery(r) THEN "read" ELSE "refused"

\* The parsed request has these fields only.
Parsed(r) ==
  IF Is(At(r, "method"), {"deleteOne"}) THEN {At(r, "filter")}
  ELSE IF Is(At(r, "method"), {"updateOne"}) THEN {At(r, "filter"), At(r, "update")}
  ELSE IF Is(At(r, "method"), {"insertOne"}) THEN {At(r, "document")} ELSE {At(r, "body")}

Pipeline(r) == At(At(r, "body"), "pipeline")
Aggregates(r) == Is(At(r, "method"), {"aggregate"})

\* executeQuery and, of a read, executeRead; no pipeline is an empty one.
runMongoDB(r) ==
  IF parseMongoDBQuery(r) = "refused" \/ (\E v \in Parsed(r) : findBlocked("mongodb", v)) THEN "refused"
  ELSE IF parseMongoDBQuery(r) = "write" THEN (IF safe THEN "refused" ELSE "write")
  ELSE IF Aggregates(r) /\ Has(At(r, "body"), "pipeline") /\ findBlocked("stage", Pipeline(r))
       THEN "refused" ELSE "read"

-----------------------------------------------------------------------------
(* Elasticsearch.                                                          *)

SearchBody(r) ==
  IF Has(r, "body") THEN At(r, "body")
  ELSE IF Has(r, "queryBody") THEN At(r, "queryBody") ELSE At(r, "search")

parseElasticsearchSearchQuery(r) == Named(At(r, "index")) /\ isRecord(SearchBody(r))

parseOperation(r) ==
  /\ Is(At(r, "operation"), {"index", "update", "delete"}) /\ Concrete(At(r, "index"))
  /\ Has(r, "id") => Concrete(At(r, "id"))
  /\ ~Has(r, "id") => Is(At(r, "operation"), {"index"})
  /\ IF Is(At(r, "operation"), {"delete"}) THEN ~Has(r, "body")
     ELSE /\ isRecord(At(r, "body"))
          /\ Is(At(r, "operation"), {"update"}) =>
               /\ isRecord(At(At(r, "body"), "doc"))
               /\ \A f \in At(r, "body").of : f.key = "doc"

parseElasticsearchQuery(r) ==
  IF At(r, "operation").is = "text"
  THEN IF parseOperation(r) THEN "write" ELSE "refused"
  ELSE IF parseElasticsearchSearchQuery(r) THEN "read" ELSE "refused"

\* executeDocumentWrite looks at what is written.
Written(r) == IF Is(At(r, "operation"), {"update"}) THEN At(At(r, "body"), "doc") ELSE At(r, "body")

runElasticsearch(r) ==
  IF parseElasticsearchQuery(r) = "write"
  THEN IF safe \/ findBlocked("elasticsearch", Written(r)) THEN "refused" ELSE "write"
  ELSE IF parseElasticsearchQuery(r) = "refused" \/ findBlocked("elasticsearch", SearchBody(r)) THEN "refused"
  ELSE "read"

-----------------------------------------------------------------------------
(* classifyQuery.                                                          *)

ClassOfMongoDB(r) ==
  CASE parseMongoDBQuery(r) = "refused" -> "unknown"
    [] parseMongoDBQuery(r) = "write" -> "write"
    [] OTHER -> IF \/ findBlocked("mongodb", At(r, "body"))
                   \/ Aggregates(r) /\ (Pipeline(r).is # "array" \/ findBlocked("stage", Pipeline(r)))
                THEN "unknown" ELSE "read"

ClassOfElasticsearch(r) ==
  CASE parseElasticsearchQuery(r) = "refused" -> "unknown"
    [] parseElasticsearchQuery(r) = "write" -> "write"
    [] OTHER -> IF findBlocked("elasticsearch", SearchBody(r)) THEN "unknown" ELSE "read"

classifyQuery(r) ==
  IF Has(r, "collection")
  THEN IF Has(r, "index") \/ Has(r, "operation") THEN "unknown" ELSE ClassOfMongoDB(r)
  ELSE IF Has(r, "method") THEN "unknown" ELSE ClassOfElasticsearch(r)

-----------------------------------------------------------------------------

Classify ==
  /\ class = None /\ class' = classifyQuery(request)
  /\ UNCHANGED <<request, safe, outcome>>

\* executeQuery of the connector the chat has, whatever the request was written for.
Run(c) ==
  /\ class # None /\ outcome[c] = None
  /\ outcome' = [outcome EXCEPT ![c] =
       IF c = "mongodb" THEN runMongoDB(request) ELSE runElasticsearch(request)]
  /\ UNCHANGED <<request, safe, class>>

Next == Classify \/ \E c \in {"mongodb", "elasticsearch"} : Run(c)

Spec == Init /\ [][Next]_vars

-----------------------------------------------------------------------------
(* Properties.                                                             *)

\* The objects in a value.
Objects(v) ==
  LET Deeper(s) == UNION {IF w.is = "object" THEN {f.value : f \in w.of} ELSE w.of
                          : w \in {x \in s : x.is \in {"object", "array"}}}
      two == {v} \cup Deeper({v})
      all == two \cup Deeper(two) \cup Deeper(Deeper(two)) \cup Deeper(Deeper(Deeper(two)))
  IN  {w \in all : w.is = "object"}
KeysIn(v) == UNION {{f.key : f \in w.of} : w \in Objects(v)}

\* A request taken for a read is one to the connector it is written for, and no
\* write and nothing with a blocked key to either; a request taken for a write is
\* never run as a read: whichever connector the chat has.
ClassifiedAsRun ==
  LET own == IF Has(request, "collection") THEN "mongodb" ELSE "elasticsearch"
  IN  /\ class = "read" =>
           /\ outcome[own] \in {None, "read"}
           /\ \A c \in {"mongodb", "elasticsearch"} \ {own} : outcome[c] \in {None, "refused"}
           /\ own = "mongodb" => \A k \in KeysIn(At(request, "body")) : ~BlockedMongo(k)
           /\ own = "mongodb" /\ Aggregates(request) => \A k \in KeysIn(Pipeline(request)) : ~BlockedStage(k)
           /\ own = "elasticsearch" => \A k \in KeysIn(SearchBody(request)) : ~BlockedSearch(k)
      /\ class = "write" => "read" \notin {outcome[c] : c \in DOMAIN outcome}
      /\ safe => "write" \notin {outcome[c] : c \in DOMAIN outcome}
==============================================================================
