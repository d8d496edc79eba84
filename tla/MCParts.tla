------------------------------- MODULE MCParts -------------------------------
(***************************************************************************)
(* Parts that keep to themselves, in one run: a worker's lease, the        *)
(* accounts of a process without Supabase, the reading of a conversation,  *)
(* the pages and the composer of a browser tab, the evidence               *)
(* and the blocks of an answer, export slots, a session's tokens, the      *)
(* operation limiter, admission and shutdown, a model's stream, a query's  *)
(* text, a request in JSON, a schema, documents as tables, uploaded SQLite *)
(* files.  The parts share nothing, so a behaviour is one of one part,     *)
(* chosen first; the others rest in their first state.                     *)
(***************************************************************************)
EXTENDS WorkerLease, Sequences, FiniteSets

CONSTANTS None, Gone, t1, t2, t3, c1, c2, o1, o2, r1, r2

VARIABLES
  part,
  clock, session, connections, chosen, knowledge, login, used, left, \* LocalAccounts
  chat,                                                     \* SavedContext
  saved, page, loads, overlap, split,                       \* ChatPages
  chats, turns, tab, cancelled, posts, aborts, wish, wishes, stopped, missed, \* Composer
  result, request, outcome, shown,                          \* Evidence
  made, text, reply, reason, wanted,                          \* AnswerBlocks
  jobs, status, stage, aborted, expired, file, awaiting, ended, \* LocalExports
  row, current, reading, work, gone, upset,                 \* SessionRefresh
  given, queue, at, cut,                                    \* OperationLimiter
  handler, response, released, slots, turn, export, shutdown, awaited, timedOut, \* RequestAdmission
  script, arrived, buffer, heard, kept, past,               \* ModelStream
  query,                                                    \* QueryText
  object, safe, class, ran,                                 \* JsonRequests
  database, schema, lookup, found,                          \* Introspection
  source, columns, rows,                                    \* Documents
  uploads, files, upload, path, handling, sweep, loose, voided \* LocalUploads

accountVars == <<clock, session, connections, chosen, knowledge, login, used, left>>
pageVars == <<saved, page, loads, overlap, split>>
composerVars == <<chats, turns, tab, cancelled, posts, aborts, wish, wishes, stopped, missed>>
evidenceVars == <<result, request, outcome, shown>>
answerVars == <<made, text, reply, reason, wanted>>
jobVars == <<jobs, status, stage, aborted, expired, file, awaiting, ended>>
refreshVars == <<row, current, reading, work, gone, upset>>
limiterVars == <<given, queue, at, cut>>
admissionVars == <<handler, response, released, slots, turn, export, shutdown, awaited, timedOut>>
streamVars == <<script, arrived, buffer, heard, kept, past>>
jsonVars == <<object, safe, class, ran>>
schemaVars == <<database, schema, lookup, found>>
documentVars == <<source, columns, rows>>
uploadVars == <<uploads, files, upload, path, handling, sweep, loose, voided>>

Accounts == INSTANCE LocalAccounts WITH
  now <- clock, active <- chosen,
  Sessions <- {"s1"}, Connections <- {"d1", "d2"},
  Ttl <- 4, AbsoluteTtl <- 6, Cadence <- 2, MaxTime <- 7

Asked == [role |-> "user", size |-> 1, complete |-> TRUE, worded |-> FALSE,
          question |-> FALSE, pinned |-> FALSE]
Answered == [Asked EXCEPT !.role = "assistant"]
Reading == INSTANCE SavedContext WITH
  Kinds <- {Asked, [Asked EXCEPT !.worded = TRUE, !.size = 3], [Answered EXCEPT !.size = 2],
            [Answered EXCEPT !.complete = FALSE, !.worded = TRUE],
            [Answered EXCEPT !.question = TRUE, !.worded = TRUE]},
  Recent <- 1, Candidates <- 2, Each <- 2, Total <- 4, ReadLimit <- 6, MaxMessages <- 4

Pages == INSTANCE ChatPages WITH
  tab <- page, Chats <- {c1, c2}, Page <- 2, Earlier <- 2, SavedAlready <- 2,
  MaxSaved <- 5, MaxVisits <- 3, MaxLoads <- 2

Asking == INSTANCE Composer WITH
  Questions <- {"q1", "q2"}, Requests <- {"r1", "r2", "r3"}, Saved <- {c1}, New <- {c2},
  MaxVisits <- 1

Number(n, s) == [kind |-> "number", n |-> n, scale |-> s]
Worded(n, s) == [Number(n, s) EXCEPT !.kind = "string"]
\* One digit is a double: "12.0" is refused, "3.1" is rounded; 6 and 6 are too much.
Proof == INSTANCE Evidence WITH
  Columns <- <<"a", "b">>,
  Values <- {[Number(0, 0) EXCEPT !.kind = "absent"], [Number(0, 0) EXCEPT !.kind = "null"],
             Worded(120, 1), Worded(31, 1), Number(6, 0), Number(3, 1)},
  MaxRows <- 2, MaxSafe <- 9, TablePage <- 1, TableLimit <- 1, SliceLimit <- 1

Blocks == INSTANCE AnswerBlocks WITH
  answer <- reply, Payloads <- {"download", "chart", "report", "words"},
  Downloads <- {"download"}, Charts <- {"chart"}, Wordy <- {"words"}, MaxPieces <- 2

\* Two slots, for two accounts; one of them has two jobs.  At most two jobs are kept at a
\* time (in MCLocalServer they wait for one slot), and one may expire.
Jobs == INSTANCE LocalExports WITH
  closed <- ended, Jobs <- {t1, t2, t3}, Owners <- {o1, o2},
  OwnerOf <- [j \in {t1, t2, t3} |-> IF j = t3 THEN o2 ELSE o1],
  OwnerQuota <- 2, TotalQuota <- 2, Slots <- 2, ShortLived <- {t1}, MaxWaiting <- 1

Refresh == INSTANCE SessionRefresh WITH left <- gone, Workers <- {o1, o2}, MaxTokens <- 4

Limiter == INSTANCE OperationLimiter WITH
  active <- given, waiting <- queue, stage <- at, aborted <- cut,
  Operations <- {t1, t2, t3, c1}, Maximum <- 2, QueueLimit <- 1

Admission == INSTANCE RequestAdmission WITH
  phase <- shutdown, Requests <- {t1, t2, t3}, Turning <- {t1}, MaxConcurrent <- 2

\* One event without an end, two with one; two calls side by side with reasoning and text.
Event(kind, index, id) == [kind |-> kind, index |-> index, id |-> id]
Some == {Event(k, 0, FALSE) : k \in {"text", "think", "note", "bad"}}
        \cup {Event("call", i, TRUE) : i \in {0, 1}}
Mixed == <<Event("call", 1, TRUE), Event("text", 0, FALSE), Event("call", 0, TRUE),
           Event("call", 1, FALSE), Event("think", 0, FALSE)>>
Stream == INSTANCE ModelStream WITH
  at <- arrived, answer <- heard, saved <- kept,
  Scripts <- {<<e>> : e \in Some} \cup {<<e, f, Event("done", 0, FALSE)>> : e \in Some, f \in Some}
             \cup {Append(Mixed, Event("done", 0, FALSE))},
  Calls <- {0, 1}, MaxAnswers <- 2

Text == INSTANCE QueryText WITH
  Starts <- {<<>>, <<"SELECT">>},
  Atoms <- {"x", "DELETE", "INTO", "nl", "--", "/*", "*/", "'", "[", "]", ";", "#"},
  MaxAtoms <- 4

\* Objects with every shape of fields, and bodies with keys at three depths.
Value(is, of) == [is |-> is, of |-> of]
Word(t) == Value("text", {t})
Field(k, v) == [key |-> k, value |-> v]
Optional(k, values) == {{}} \cup {{Field(k, v)} : v \in values}
Other == Value("other", {})
Leaves == {Value("object", {Field(k, Other)}) : k \in {"$Where", "my_script", "$out", "script", "a"}}
Deep == Leaves \cup {Value("object", {Field("a", Value("array", {v}))}) : v \in Leaves}
Bodies ==
  {Other, Value("object", {})} \cup Deep
    \cup {Value("object", {Field("pipeline", p)}) : p \in {Other} \cup {Value("array", {v}) : v \in Deep}}
    \cup {Value("object", {Field("doc", v)}) : v \in {Other, Value("object", {})}}
Objects ==
  {Value("object", a \cup b \cup c \cup d) :
    a \in Optional("collection", {Word("name"), Word("pattern")}),
    b \in Optional("method", {Word(m) : m \in {"find", "aggregate", "deleteOne", "updateOne", "insertOne"}})
          \cup Optional("operation", {Word("index"), Word("update"), Word("delete"), Other}),
    c \in Optional("index", {Word("name"), Word("pattern")})
          \cup {{Field("index", Word("name")), Field("id", Word("name"))}},
    d \in Optional("body", Bodies) \cup Optional("search", Leaves)
          \cup {{Field("filter", v), Field("update", v), Field("document", v)} : v \in Deep}}
KeyOf(lower, name, ends) == [lower |-> lower, name |-> name, script |-> ends]
Request == INSTANCE JsonRequests WITH
  request <- object, outcome <- ran, Requests <- Objects,
  Plain <- [k \in {"$Where", "my_script", "$out", "script", "a", "doc", "pipeline"} |->
    IF k = "$Where" THEN KeyOf("$where", "where", FALSE)
    ELSE IF k = "$out" THEN KeyOf(k, "out", FALSE) ELSE KeyOf(k, k, k = "my_script")]

\* Three tables; names that differ by case or by schema, and one with a dot; up to two
\* constraints, whose names repeat on other tables (in PostgreSQL).
Table(s, n, cs, seen) == [schema |-> s, name |-> n, columns |-> cs, seen |-> seen]
Constraint(n, f, t, cs, ts) == [name |-> n, from |-> f, to |-> t, columns |-> cs, targets |-> ts]
First == {Constraint("n", f, t, <<"x", "y">>, <<"y", "x">>) : f \in 1 .. 3, t \in 1 .. 3}
Second == {Constraint(n, f, t, <<"x">>, <<"x">>) : n \in {"n", "m"}, f \in 1 .. 3, t \in 1 .. 3}
Pairs == {<<k, l>> : k \in First, l \in Second}
Listed(a, b, c, s, cs) ==
  {<<Table("s", a, cs, v[1]), Table("s", b, <<"x", "y">>, v[2]),
     Table(s, c, <<"x", "y", "password">>, TRUE)>> : v \in BOOLEAN \X BOOLEAN}
Database(kind, tables, constraints) == [kind |-> kind, tables |-> tables, constraints |-> constraints]
Schemas == INSTANCE Introspection WITH
  call <- lookup, answer <- found,
  Databases <-
    {Database("postgres", t, q) : t \in Listed(<<"A">>, <<"a">>, <<"a">>, "t", <<"x", "y">>),
                                  q \in {p \in Pairs : p[1].from # p[2].from \/ p[1].name # p[2].name}}
    \cup {Database("mysql", t, q) : t \in Listed(<<"A">>, <<"a">>, <<"b">>, "s", <<"x", "y">>),
                                    q \in {p \in Pairs : p[1].name # p[2].name}}
    \cup {Database(k, t, <<>>) : k \in {"postgres", "sqlite"},
                                 t \in Listed(<<"a">>, <<"b">>, <<"s", ".", "a">>, "t", <<>>)},
  Lower <- [w \in {"a", "A", "b", ".", "s", "t"} |-> IF w = "A" THEN "a" ELSE w],
  Asked <- {[quoted |-> q, words |-> w] : q \in {FALSE}, w \in {<<"a">>, <<"s", ".", "a">>}}
           \cup {[quoted |-> TRUE, words |-> <<"s", ".", "A">>]},
  Selections <- {[columns |-> None, exclude |-> {"x"}],
                 [columns |-> <<"y", "y", "x", "z">>, exclude |-> {}],
                 [columns |-> <<"x", "password", "y">>, exclude |-> {}]},
  Sensitive <- {"password"}, MaxColumns <- 5, MaxProfile <- 2

\* A mapping of every kind of property, and documents that conform to it; up to three
\* documents of a collection, two of which are sampled.
Property(k, type, properties, fields) ==
  [key |-> <<k>>, type |-> type, properties |-> properties, fields |-> fields]
Keyword(k) == Property(k, "keyword", {}, {})
Multi(k) == Property(k, "text", {}, {Keyword("raw")})
Mapping == {Property("a", None, {Property("b", None, {Keyword("c"), Multi("d")}, {})}, {}),
            Multi("e"), Property("u", None, {}, {})}
Record(fields) == Value("object", fields)
Scalar == Value("scalar", {})
Null == Value("null", {})
List == Value("array", {Scalar})
Inner == {Record(x \cup y) : x \in Optional(<<"c">>, {Scalar, Null, List}), y \in Optional(<<"d">>, {Scalar})}
Hits ==
  {[source |-> Record(x \cup y), fields |-> Record(f)] :
    x \in {{Field(<<"a">>, Record({Field(<<"b">>, i)}))} : i \in Inner \cup {Null, List}}
          \cup Optional(<<"a", "b">>, Inner),
    y \in Optional(<<"e">>, {Scalar, Null, List}),
    f \in Optional(<<"e", "raw">>, {List}) \cup Optional(<<"e">>, {List})}
Bucket(n) == Record({Field(<<"key">>, Scalar), Field(<<"n">>, n)})
Buckets(of) == Record({Field(<<"buckets">>, Value("array", of))})
Aggregations ==
  {{}, {Field(<<"g">>, Record({Field(<<"value">>, Scalar)}))},
   {Field(<<"g">>, Buckets({Bucket(Scalar), Bucket(Record({Field(<<"value">>, Null)}))}))},
   {Field(<<"g">>, Buckets({})), Field(<<"h">>, Scalar)}}
Documented == {Record(x \cup y) : x \in Optional("x", {Scalar, Null, Record({})}), y \in Optional("y", {Scalar})}
Tabular == INSTANCE Documents WITH
  Indices <- {[properties |-> Mapping, response |-> [hits |-> {h}, aggregations |-> {}]] : h \in Hits}
             \cup {[properties |-> Mapping, response |-> [hits |-> h, aggregations |-> a]] :
                     h \in {{}, {[source |-> Record({Field(<<"e">>, Scalar)}), fields |-> Record({})]}},
                     a \in Aggregations},
  Collections <- {[documents |-> d] : d \in UNION {[1 .. n -> Documented] : n \in 1 .. 3}},
  Sample <- 2

Uploading == INSTANCE LocalUploads WITH
  made <- uploads, request <- handling, MaxUploads <- 2, Aging <- {1},
  Connections <- {c1, c2}, Requests <- {r1, r2}

-----------------------------------------------------------------------------

PartsInit ==
  /\ part \in {"lease", "accounts", "reading", "pages", "asking", "evidence", "answer", "jobs",
              "refresh", "limiter", "admission", "stream", "query", "json", "schema", "documents", "uploads"}
  /\ Init /\ Accounts!Init /\ Reading!Init /\ Pages!Init /\ Asking!Init
  /\ IF part = "evidence"
     THEN Proof!Init /\ \A k \in DOMAIN result.rows :      \* each column with its own gaps
                          result.rows[k]["a"].kind # "null" /\ result.rows[k]["b"].kind # "string"
     ELSE /\ result = [rows |-> <<>>, count |-> 0, truncated |-> FALSE]
          /\ request = Proof!Nothing /\ outcome = Proof!Nothing /\ shown = Proof!Nothing
  /\ Blocks!Init /\ (part = "answer" \/ ~wanted)
  /\ Jobs!Init /\ Refresh!Init /\ Limiter!Init /\ Admission!Init
  /\ IF part = "stream" THEN Stream!Init
     ELSE script = <<>> /\ arrived = 0 /\ buffer = <<>> /\ heard = <<>> /\ kept = <<>> /\ past = <<>>
  /\ IF part = "query" THEN Text!Init ELSE query = <<>>
  /\ IF part = "json" THEN Request!Init ELSE object = None /\ safe = FALSE /\ class = None /\ ran = None
  /\ IF part = "schema" THEN Schemas!Init
     ELSE database = None /\ schema = None /\ lookup = None /\ found = None
  /\ IF part = "documents" THEN Tabular!Init ELSE source = None /\ columns = {} /\ rows = None
  /\ Uploading!Init

Rest(name, variables) == part # name => UNCHANGED variables

PartsNext ==
  /\ \/ part = "lease" /\ Next
     \/ part = "accounts" /\ Accounts!Next
     \/ part = "reading" /\ Reading!Next
     \/ part = "pages" /\ Pages!Next
     \/ part = "asking" /\ Asking!Next
     \/ part = "evidence" /\ Proof!Next
     \/ part = "answer" /\ Blocks!Next
     \/ part = "jobs" /\ Jobs!Next
     \/ part = "refresh" /\ Refresh!Next
     \/ part = "limiter" /\ Limiter!Next
     \/ part = "admission" /\ Admission!Next
     \/ part = "stream" /\ Stream!Next
     \/ part = "query" /\ Text!Next
     \/ part = "json" /\ Request!Next
     \/ part = "schema" /\ Schemas!Next
     \/ part = "documents" /\ Tabular!Next
     \/ part = "uploads" /\ Uploading!Next
  /\ Rest("lease", vars) /\ Rest("accounts", accountVars)
  /\ Rest("reading", chat) /\ Rest("pages", pageVars) /\ Rest("asking", composerVars)
  /\ Rest("evidence", evidenceVars) /\ Rest("answer", answerVars)
  /\ Rest("jobs", jobVars) /\ Rest("refresh", refreshVars) /\ Rest("limiter", limiterVars)
  /\ Rest("admission", admissionVars) /\ Rest("stream", streamVars) /\ Rest("query", query)
  /\ Rest("json", jsonVars) /\ Rest("schema", schemaVars) /\ Rest("documents", documentVars)
  /\ Rest("uploads", uploadVars)
  /\ UNCHANGED part

partsVars ==
  <<part, vars, accountVars, chat, pageVars, composerVars, evidenceVars, answerVars,
    jobVars, refreshVars, limiterVars, admissionVars, streamVars, query, jsonVars, schemaVars, documentVars, uploadVars>>

PartsSpec == PartsInit /\ [][PartsNext]_partsVars

-----------------------------------------------------------------------------
(* The properties of the parts, each while its part runs.                  *)

\* Sessions last no longer than allowed and no shorter than used, and the active
\* connection exists (LocalAccounts.SessionLimits and ActiveExists); viewers stay
\* signed in when workers refresh one session at the same time
\* (SessionRefresh.StaysSignedIn).
SessionsLast ==
  /\ part = "accounts" => Accounts!SessionLimits /\ Accounts!ActiveExists
  /\ part = "refresh" => Refresh!StaysSignedIn

\* What is read back of a conversation is the newest that fits, with what was
\* asked for, or refused (SavedContext.ReadIsWhole); what is read of a database's
\* schema is all of it, and a table found by a name is the one meant
\* (Introspection.SchemaIsRight), and the documents read as rows fit the columns the
\* schema has for them (Documents.RowsFitSchema).
ReadIsWhole ==
  /\ part = "reading" => Reading!ReadIsWhole
  /\ part = "schema" => Schemas!SchemaIsRight
  /\ part = "documents" => Tabular!RowsFitSchema

\* A tab shows messages of its chat only, without gaps, the newest at the end
\* (ChatPages).
PagesAreRight == part = "pages" => Pages!NothingForeign /\ Pages!HistoryHasNoGap /\ Pages!NewestShown

\* A question is asked once, the composer says what goes on, a cancelled
\* question is stopped (Composer).
QuestionsAreRight == part = "asking" => Asking!AskedOnce /\ Asking!ComposerIsSound /\ Asking!CancelledIsStopped

\* What is shown of a result is what the database returned, sums and coverage
\* included (Evidence.EvidenceIsTold).
EvidenceIsTold == part = "evidence" => Proof!EvidenceIsTold

\* An answer shows data blocks only as they were verified
\* (AnswerBlocks.OnlyVerifiedBlocks).
OnlyVerifiedBlocks == part = "answer" => Blocks!OnlyVerifiedBlocks

\* The three counters of slots: those of local exports (LocalExports.SlotsBounded
\* and NoIdleSlot), of database operations (OperationLimiter.SlotsReturned) and of
\* requests (RequestAdmission.SlotsCoverWork): never exceeded, lost or idle.
SlotsAreBounded ==
  /\ part = "jobs" => Jobs!SlotsBounded /\ Jobs!NoIdleSlot
  /\ part = "limiter" => Limiter!SlotsReturned
  /\ part = "admission" => Admission!SlotsCoverWork

\* A shutdown waits for all the work there is (RequestAdmission.DrainIsComplete).
DrainIsComplete == part = "admission" => Admission!DrainIsComplete

\* An answer of the model is put together as it was sent
\* (ModelStream.AnswerIsWhole).
AnswerIsWhole == part = "stream" => Stream!AnswerIsWhole

\* The bounded query is the query (QueryText.BoundedIsTheQuery), and a request in
\* JSON is run as what it was taken for (JsonRequests.ClassifiedAsRun).
QueriesAreRead ==
  /\ part = "query" => Text!BoundedIsTheQuery
  /\ part = "json" => Request!ClassifiedAsRun

\* A connection keeps its file, which is its alone, an upload that can be chosen
\* has its file, and a file nobody wants goes (LocalUploads.UploadsAreSafe).
UploadsAreSafe == part = "uploads" => Uploading!UploadsAreSafe
==============================================================================
