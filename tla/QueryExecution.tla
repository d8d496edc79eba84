--------------------------- MODULE QueryExecution ---------------------------
(***************************************************************************)
(* One database connector of src/server/connectors and what is done    *)
(* with it: the previews of a turn, one after the other on the connection  *)
(* of the turn (executeQuery behind WebPolicyConnector), or one export on   *)
(* a connection of its own (exportQuery consumed by writeDataExport).       *)
(*                                                                         *)
(* A query matches the rows 1 .. Len(data); data[i] is the size of row i.   *)
(* `want` is the limit an Elasticsearch or MongoDB request states itself;   *)
(* a limit written into a SQL text is part of what the query matches.       *)
(* An abort, a server error, a client timeout, a lost connection (which is  *)
(* also how a response over the transport limit ends) and a killed child    *)
(* process may come at every point at which the code waits.                 *)
(* BEGIN and ROLLBACK themselves are answered or find the connection lost.  *)
(***************************************************************************)
EXTENDS Integers, Sequences

CONSTANTS
  Data,          \* the row sizes a query may match: a set of sequences
  None,          \* no limit stated
  Wants,         \* the limits a request may state
  MaxRows,       \* setResultLimit: rows of a preview
  MaxBytes,      \* bytes of a preview
  DefaultLimit,  \* DEFAULT_LIMIT of the MongoDB connector
  MaxFrame,      \* bytes of one batch of an export
  BatchSize,     \* rows of one batch of an export
  ExportRows,    \* context.limits.maxRows
  ExportBytes,   \* context.limits.maxBytes
  MaxPreviews    \* bound: previews on one connection

Kinds == {"postgres", "mysql", "sqlite", "mongodb", "elasticsearch"}

\* The connectors that hold a session with transactions.
Transactional == {"postgres", "mysql"}

\* The connectors whose export gathers single rows into batches.
RowByRow == {"mysql", "mongodb", "sqlite"}

VARIABLES
  kind, mode, format, data,  \* fixed: connector, "turn" or "export", file, rows
  want, form,                \* of the operation: its limit; "rows" or "buckets"
  pc,
  handle,    \* the connector's client, connection, db or baseUrl is not null
  session,   \* the server's side: "none", "idle" or "transaction"
  busy,      \* a statement still runs in that session
  cursor,    \* portal, row stream, driver cursor, child or scroll:
             \* "none", "open" or "expiring" (left to the server's own timeout)
  aborted,   \* the caller's signal
  failed,    \* an error is on its way to the caller
  previews,
  fetched,   \* rows received
  rows,      \* gathered, not yet yielded
  batch,     \* yielded, not yet written
  file,      \* written
  completed, \* the source has no more rows
  answer     \* of the last preview

fixed == <<kind, mode, format, data>>
source == <<handle, session, busy, cursor>>
sink == <<fetched, rows, batch, file, completed>>
vars == <<fixed, want, form, pc, source, aborted, failed, previews, sink, answer>>

NoAnswer == [state |-> "none", count |-> 0, cut |-> FALSE]
Error == [state |-> "failed", count |-> 0, cut |-> FALSE]

-----------------------------------------------------------------------------
(* The size limits. *)

\* The bytes of rows i with lo < i <= hi.
Bytes(lo, hi) == LET sum[n \in lo .. hi] == IF n = lo THEN 0 ELSE sum[n - 1] + data[n]
                 IN  sum[hi]

SeqBytes(s) == LET sum[n \in 0 .. Len(s)] == IF n = 0 THEN 0 ELSE sum[n - 1] + data[s[n]]
               IN  sum[Len(s)]

Interval(lo, hi) == [i \in 1 .. (hi - lo) |-> lo + i]

Least(a, b) == IF a < b THEN a ELSE b

\* The rows the request asks for: its own limit, where it has one, is met by
\* the first `want` of them. 0 is, to MongoDB, no limit; here it also stands for
\* what else MongoDBConnector.ts does not take for one: a negative number, a text.
Asked == IF want = None \/ form = "buckets" \/ (kind = "mongodb" /\ want = 0)
         THEN Len(data) ELSE Least(want, Len(data))

\* What each connector asks its server for: one row more than it shows.
FetchesShown == Least(Len(data), MaxRows)
SqlFetches == Least(Len(data), MaxRows + 1)

MongoLimit == LET user == IF want \in Nat \ {0} THEN want ELSE DefaultLimit
              IN  Least(user, MaxRows)

MongoFetches ==
  LET user == IF want \in Nat \ {0} THEN want ELSE DefaultLimit
      limit == IF want = None \/ user > MaxRows THEN MongoLimit + 1 ELSE MongoLimit
  IN  IF form = "buckets" THEN Least(Len(data), MaxRows + 1)
      ELSE Least(Len(data), limit)

SearchSize == IF want = None THEN MaxRows + 1 ELSE want

SearchFetches == IF form = "buckets" THEN Len(data)
                 ELSE Least(Len(data), Least(SearchSize, MaxRows + 1))

Fetches == CASE kind = "mongodb" -> MongoFetches
             [] kind = "elasticsearch" -> SearchFetches
             [] OTHER -> SqlFetches

\* boundResult: at most `limit` rows, marked when rows were cut off.
BoundResult(r, limit) ==
  [r EXCEPT !.count = Least(r.count, limit), !.cut = r.cut \/ r.count > limit]

\* boundResultBytes: the binary search for the longest prefix that fits.
FittingRows(n) ==
  LET search[low \in 0 .. n, high \in 0 .. n] ==
        IF low >= high THEN low
        ELSE LET count == (low + high + 1) \div 2
             IN  IF Bytes(0, count) <= MaxBytes THEN search[count, high]
                 ELSE search[low, count - 1]
  IN  search[0, n]

BoundResultBytes(r) ==
  IF Bytes(0, r.count) <= MaxBytes THEN r
  ELSE [r EXCEPT !.count = FittingRows(r.count), !.cut = TRUE]

\* The bytes of the file: CSV quotes what it writes.
FileBytes(s) == SeqBytes(s) + (IF format = "csv" THEN Len(s) ELSE 0)

-----------------------------------------------------------------------------
(* Connecting, and what every operation shares. *)

Init ==
  /\ kind \in Kinds /\ mode \in {"turn", "export"} /\ format \in {"json", "csv"}
  /\ mode = "turn" => format = "json"
  /\ data \in Data
  /\ want = None /\ form = "rows" /\ pc = "new"
  /\ handle = FALSE /\ session = "none" /\ busy = FALSE /\ cursor = "none"
  /\ aborted = FALSE /\ failed = FALSE /\ previews = 0
  /\ fetched = 0 /\ rows = <<>> /\ batch = <<>> /\ file = <<>> /\ completed = FALSE
  /\ answer = NoAnswer

Connects ==
  /\ pc = "new"
  /\ handle' = TRUE /\ session' = "idle" /\ pc' = "ready"
  /\ UNCHANGED <<fixed, want, form, busy, cursor, aborted, failed, previews, sink, answer>>

\* Elasticsearch keeps its baseUrl until the caller closes; the others end
\* what they opened before they throw.
ConnectFails ==
  /\ pc = "new"
  /\ handle' = (kind = "elasticsearch") /\ pc' = "closing" /\ failed' = TRUE
  /\ UNCHANGED <<fixed, want, form, session, busy, cursor, aborted, previews, sink, answer>>

\* clearAndClose, invalidate: the client is given up; the server drops the
\* session, its transaction and its statement with the connection.
Dropped == handle' = FALSE /\ session' = "none" /\ busy' = FALSE /\ cursor' = "none"

\* close() by the caller, after the last operation or a failed one.
Close ==
  /\ pc = "closing" \/ (pc = "ready" /\ mode = "turn")
  /\ handle' = FALSE /\ session' = "none" /\ busy' = FALSE
  /\ cursor' = IF cursor = "expiring" THEN cursor ELSE "none"
  /\ pc' = "closed"
  /\ UNCHANGED <<fixed, want, form, aborted, failed, previews, sink, answer>>

\* A preview that throws leaves the connector for the next one; an export
\* that throws before its generator's try block is closed.
Rejects ==
  /\ pc' = IF mode = "turn" THEN "ready" ELSE "closing"
  /\ failed' = (mode = "export")
  /\ answer' = IF mode = "turn" THEN Error ELSE answer

\* An error inside the try block: the finally block is next.
Throws == failed' = TRUE /\ pc' = IF mode = "turn" THEN "rollback" ELSE "cleanup"

-----------------------------------------------------------------------------
(* A preview: executeQuery. *)

Preview ==
  /\ mode = "turn" /\ pc = "ready" /\ previews < MaxPreviews
  /\ previews' = previews + 1 /\ fetched' = 0
  /\ want' \in IF kind \in {"mongodb", "elasticsearch"} THEN Wants ELSE {None}
  /\ form' \in IF kind \in {"mongodb", "elasticsearch"} THEN {"rows", "buckets"} ELSE {"rows"}
  /\ IF aborted \/ ~handle
     THEN answer' = Error /\ UNCHANGED <<pc, cursor>>
     ELSE /\ answer' = NoAnswer
          /\ pc' = IF kind \in Transactional THEN "begin" ELSE "query"
          /\ cursor' = IF kind \in {"sqlite", "mongodb"} THEN "open" ELSE cursor
  /\ UNCHANGED <<fixed, handle, session, busy, aborted, failed, rows, batch, file, completed>>

\* BEGIN READ ONLY, START TRANSACTION READ ONLY; the next statement is sent.
\* MySQL's export creates its row stream with it.
Begin ==
  /\ pc = "begin" /\ session = "idle"
  /\ session' = "transaction"
  /\ pc' = CASE mode = "turn" -> "query" [] kind = "postgres" -> "declare" [] OTHER -> "fetch"
  /\ busy' = (mode = "turn" \/ kind = "mysql")
  /\ cursor' = IF mode = "export" /\ kind = "mysql" THEN "open" ELSE cursor
  /\ UNCHANGED <<fixed, want, form, handle, aborted, failed, previews, sink, answer>>

BeginFails ==
  /\ pc = "begin" /\ Rejects
  /\ \E lost \in BOOLEAN :
       /\ session' = IF lost THEN "none" ELSE session
       /\ handle' = (handle /\ ~(lost /\ kind = "postgres"))
  /\ UNCHANGED <<fixed, want, form, busy, cursor, aborted, previews, sink>>

\* After the statement: ROLLBACK where there is a transaction.
QueryThrows ==
  IF kind \in Transactional THEN Throws /\ UNCHANGED answer ELSE Rejects

QueryReturns ==
  /\ pc = "query"
  /\ fetched' = Fetches /\ busy' = FALSE /\ cursor' = "none"
  /\ pc' = IF kind \in Transactional THEN "rollback" ELSE "bound"
  /\ UNCHANGED <<fixed, want, form, handle, session, aborted, failed, previews, rows, batch, file,
                 completed, answer>>

\* The server refuses it or stops it; an incomplete search is an error too;
\* the sizes are checked here (child output, documents, response).
QueryFails ==
  /\ pc = "query" /\ QueryThrows
  /\ busy' = FALSE /\ cursor' = "none"
  /\ UNCHANGED <<fixed, want, form, handle, session, aborted, previews, sink>>

\* MySQL's own timer only rejects the promise: the code destroys the
\* connection, for ROLLBACK would wait behind the statement.
TimeoutRejects == cursor' = "none" /\ UNCHANGED <<handle, session, busy>>
TimeoutDrops == IF kind = "mysql" THEN Dropped
                ELSE cursor' = "none" /\ UNCHANGED <<handle, session, busy>>

QueryTimesOut ==
  /\ pc = "query" /\ QueryThrows /\ TimeoutDrops
  /\ UNCHANGED <<fixed, want, form, aborted, previews, sink>>

\* PostgreSQL's statement_timeout, or the end of a statement nobody waits for.
ServerStops ==
  /\ busy /\ pc \in {"rollback", "cleanup"}
  /\ busy' = FALSE
  /\ UNCHANGED <<fixed, want, form, pc, handle, session, cursor, aborted, failed, previews, sink,
                 answer>>

\* pg forgets the client in its error listener; mysql keeps a dead connection.
ConnectionLost ==
  /\ kind \in Transactional /\ session # "none" /\ pc \in {"query", "rollback", "cleanup"}
  /\ session' = "none" /\ busy' = FALSE /\ cursor' = "none"
  /\ handle' = (handle /\ kind # "postgres")
  /\ IF pc = "query" THEN Throws ELSE UNCHANGED <<pc, failed>>
  /\ UNCHANGED <<fixed, want, form, aborted, previews, sink, answer>>

RollbackOfAnswer ==
  /\ pc = "rollback" /\ ~busy
  /\ session' = IF session = "transaction" /\ ~failed THEN "idle" ELSE session
  /\ IF failed \/ (session = "none" /\ kind = "mysql")
     THEN Rejects
     ELSE pc' = "bound" /\ UNCHANGED <<failed, answer>>
  /\ UNCHANGED <<fixed, want, form, handle, busy, cursor, aborted, previews, sink>>

\* The finally block. An error of ROLLBACK is dropped by PostgreSQL and
\* thrown by MySQL when the query itself had none.
Rollback ==
  /\ pc = "rollback" /\ ~busy
  /\ session' = IF session = "transaction" THEN "idle" ELSE session
  /\ IF failed \/ (session = "none" /\ kind = "mysql")
     THEN Rejects
     ELSE pc' = "bound" /\ UNCHANGED <<failed, answer>>
  /\ UNCHANGED <<fixed, want, form, handle, busy, cursor, aborted, previews, sink>>

\* The connector's boundResult, then those of WebPolicyConnector. A search
\* is also marked by the number of its hits, which says nothing of buckets.
Bounded ==
  /\ pc = "bound"
  /\ \E hits \in IF form = "buckets" THEN {0, MaxRows + 1} ELSE {Len(data)} :
       LET limit == IF kind = "mongodb" /\ form = "rows" THEN MongoLimit ELSE MaxRows
           cut == kind = "elasticsearch" /\ SearchSize > MaxRows /\ hits > MaxRows
           read == [state |-> "rows", count |-> fetched, cut |-> cut]
       IN  answer' = BoundResultBytes(BoundResult(BoundResult(read, limit), MaxRows))
  /\ pc' = "ready"
  /\ UNCHANGED <<fixed, want, form, source, aborted, failed, previews, sink>>

-----------------------------------------------------------------------------
(* An export: exportQuery, pulled by writeDataExport. *)

Export ==
  /\ mode = "export" /\ pc = "ready"
  /\ want' \in IF kind \in {"mongodb", "elasticsearch"} THEN Wants ELSE {None}
  /\ form' \in IF kind = "mongodb" THEN {"rows", "buckets"} ELSE {"rows"}
  /\ IF aborted
     THEN pc' = "closing" /\ failed' = TRUE /\ UNCHANGED cursor
     ELSE /\ pc' = IF kind \in Transactional THEN "begin" ELSE "fetch"
          /\ cursor' = IF kind \in {"sqlite", "mongodb"} THEN "open" ELSE cursor
          /\ UNCHANGED failed
  /\ UNCHANGED <<fixed, handle, session, busy, aborted, previews, sink, answer>>

Declare ==
  /\ pc = "declare"
  /\ \/ pc' = "fetch" /\ cursor' = "open" /\ UNCHANGED failed
     \/ Throws /\ UNCHANGED cursor
  /\ UNCHANGED <<fixed, want, form, handle, session, busy, aborted, previews, sink, answer>>

Yields(next) == batch' = next /\ pc' = "write"
SourceDone == completed' = TRUE /\ pc' = "cleanup"

\* PostgreSQL: FETCH FORWARD until it returns nothing.
FetchBatch ==
  /\ kind = "postgres" /\ pc = "fetch"
  /\ LET end == Least(fetched + BatchSize, Len(data))
     IN  /\ fetched' = end
         /\ IF end = fetched THEN SourceDone /\ UNCHANGED batch
            ELSE Yields(Interval(fetched, end)) /\ UNCHANGED completed
  /\ UNCHANGED <<fixed, want, form, source, aborted, failed, previews, rows, file, answer>>

\* MySQL, MongoDB, and the child of SQLite: a row that would not fit goes
\* into the next batch.
RowArrives ==
  /\ kind \in RowByRow /\ pc = "fetch" /\ Len(rows) < BatchSize
  /\ fetched < Asked /\ data[fetched + 1] <= MaxFrame
  /\ fetched' = fetched + 1
  /\ IF rows # <<>> /\ SeqBytes(rows) + data[fetched + 1] > MaxFrame
     THEN Yields(rows) /\ rows' = <<fetched + 1>>
     ELSE rows' = Append(rows, fetched + 1) /\ UNCHANGED <<batch, pc>>
  /\ UNCHANGED <<fixed, want, form, source, aborted, failed, previews, file, completed, answer>>

BatchFull ==
  /\ kind \in RowByRow /\ pc = "fetch" /\ Len(rows) = BatchSize
  /\ Yields(rows) /\ rows' = <<>>
  /\ UNCHANGED <<fixed, want, form, source, aborted, failed, previews, fetched, file, completed,
                 answer>>

\* The rest is yielded after the loop.
RowsEnd ==
  /\ kind \in RowByRow /\ pc = "fetch" /\ Len(rows) < BatchSize /\ fetched = Asked
  /\ completed' = TRUE /\ busy' = FALSE /\ rows' = <<>>
  /\ cursor' = IF kind = "mongodb" THEN cursor ELSE "none"
  /\ IF rows = <<>> THEN pc' = "cleanup" /\ UNCHANGED batch ELSE Yields(rows)
  /\ UNCHANGED <<fixed, want, form, handle, session, aborted, failed, previews, fetched, file, answer>>

\* Elasticsearch: pages of a scroll, the last one cut to what remains.
PageArrives ==
  /\ kind = "elasticsearch" /\ pc = "fetch"
  /\ IF want = 0
     THEN SourceDone /\ UNCHANGED <<cursor, fetched, batch>>
     ELSE LET size == IF want = None THEN BatchSize ELSE Least(BatchSize, want)
              end == Least(Least(fetched + size, Len(data)), IF want = None THEN Len(data) ELSE want)
          IN  /\ cursor' = "open" /\ fetched' = end
              /\ IF end = fetched THEN SourceDone /\ UNCHANGED batch
                 ELSE Yields(Interval(fetched, end)) /\ completed' = (want = end)
  /\ UNCHANGED <<fixed, want, form, handle, session, busy, aborted, failed, previews, rows, file, answer>>

\* A page that timed out, ended early, lost shards or has no cursor. The
\* scroll of a first such page is not known to the finally block.
PageIncomplete ==
  /\ kind = "elasticsearch" /\ pc = "fetch" /\ want # 0
  /\ Throws
  /\ cursor' = IF cursor = "none" THEN "expiring" ELSE cursor
  /\ UNCHANGED <<fixed, want, form, handle, session, busy, aborted, previews, sink, answer>>

\* An error of the server, a row or a response over its limit, or the loss
\* of the connection.
StreamFails ==
  /\ pc = "fetch" /\ Throws
  /\ \E lost \in BOOLEAN :
       IF lost /\ kind \in Transactional
       THEN session' = "none" /\ busy' = FALSE /\ cursor' = "none" /\ handle' = (kind = "mysql")
       ELSE UNCHANGED source
  /\ UNCHANGED <<fixed, want, form, aborted, previews, sink, answer>>

\* query_timeout, MySQL's timer, SQLite's deadline, maxTimeMS, the request's.
FetchTimesOut ==
  /\ pc = "fetch" /\ Throws
  /\ busy' = (kind \in Transactional)
  /\ UNCHANGED <<fixed, want, form, handle, session, cursor, aborted, previews, sink, answer>>

\* The child of SQLite is killed from outside. Its output just ends; the
\* exit status tells.
ChildEnds == completed' = TRUE /\ pc' = "cleanup" /\ UNCHANGED failed
ChildStopped == Throws /\ UNCHANGED completed
ChildDies ==
  /\ kind = "sqlite" /\ pc = "fetch" /\ cursor = "open"
  /\ cursor' = "none" /\ ChildStopped
  /\ UNCHANGED <<fixed, want, form, handle, session, busy, aborted, previews, fetched, rows, batch,
                 file, answer>>

\* The writer takes a batch, checks the limits of the export for each row,
\* and pulls again.
Write ==
  /\ pc = "write" /\ ~aborted
  /\ Len(file \o batch) <= ExportRows /\ SeqBytes(file \o batch) <= ExportBytes
  /\ file' = file \o batch /\ batch' = <<>>
  /\ pc' = IF completed THEN "cleanup" ELSE "fetch"
  /\ UNCHANGED <<fixed, want, form, source, aborted, failed, previews, fetched, rows, completed, answer>>

\* A limit, the disk, or the abort: the generator is returned from where it
\* stands.
WriteFails ==
  /\ pc = "write" /\ Throws
  /\ UNCHANGED <<fixed, want, form, source, aborted, previews, sink, answer>>

\* The finally blocks of the five generators.
CleanPostgres ==
  /\ kind = "postgres" /\ (handle => ~busy)
  /\ session' = IF handle /\ session = "transaction" THEN "idle" ELSE session
  /\ cursor' = "none" /\ UNCHANGED <<handle, busy>>
CleanMysql ==
  /\ kind = "mysql"
  /\ IF completed
     THEN /\ session' = IF handle /\ session = "transaction" THEN "idle" ELSE session
          /\ cursor' = "none" /\ UNCHANGED <<handle, busy>>
     ELSE Dropped
CleanOther ==
  /\ kind \in {"sqlite", "mongodb"}
  /\ cursor' = "none" /\ UNCHANGED <<handle, session, busy>>
CleanScroll ==
  /\ kind = "elasticsearch"
  /\ cursor' \in IF cursor = "open" THEN {"none", "expiring"} ELSE {cursor}
  /\ UNCHANGED <<handle, session, busy>>

Cleanup ==
  /\ pc = "cleanup"
  /\ CleanPostgres \/ CleanMysql \/ CleanOther \/ CleanScroll
  /\ pc' = IF failed THEN "closing" ELSE "finish"
  /\ UNCHANGED <<fixed, want, form, aborted, failed, previews, sink, answer>>

\* The writer ends its file; CSV is written from the spool only now.
Finish ==
  /\ pc = "finish" /\ ~aborted /\ FileBytes(file) <= ExportBytes
  /\ answer' = [state |-> "published", count |-> Len(file), cut |-> FALSE]
  /\ pc' = "closing"
  /\ UNCHANGED <<fixed, want, form, source, aborted, failed, previews, sink>>

FinishFails ==
  /\ pc = "finish" /\ failed' = TRUE /\ pc' = "closing"
  /\ UNCHANGED <<fixed, want, form, source, aborted, previews, sink, answer>>

-----------------------------------------------------------------------------
(* The caller's signal: the turn is stopped or out of time, the job is      *)
(* cancelled. Who waits for the server is woken by its listener; who waits  *)
(* for the writer, or runs ROLLBACK, finds the flag later.                  *)

AbortStatement ==
  /\ kind \in Transactional /\ pc \in {"begin", "query", "declare", "fetch"}
  /\ Dropped
  /\ IF pc = "begin" THEN Rejects ELSE Throws /\ UNCHANGED answer

AbortRequest ==
  /\ kind \notin Transactional /\ pc \in {"query", "fetch"}
  /\ cursor' = IF kind = "sqlite" \/ pc = "query" THEN "none" ELSE cursor
  /\ IF pc = "query" THEN Rejects ELSE Throws /\ UNCHANGED answer
  /\ UNCHANGED <<handle, session, busy>>

\* MySQL's stream and SQLite's child listen for as long as they live.
AbortSource ==
  /\ pc = "write"
  /\ CASE kind = "mysql" -> Dropped
       [] kind = "sqlite" -> cursor' = "none" /\ UNCHANGED <<handle, session, busy>>
       [] OTHER -> UNCHANGED source
  /\ UNCHANGED <<pc, failed, answer>>

AbortUnheard ==
  /\ pc \in {"ready", "rollback", "bound", "cleanup", "finish"}
  /\ UNCHANGED <<source, pc, failed, answer>>

Abort ==
  /\ ~aborted /\ aborted' = TRUE
  /\ AbortStatement \/ AbortRequest \/ AbortSource \/ AbortUnheard
  /\ UNCHANGED <<fixed, want, form, previews, sink>>

Next ==
  \/ Connects \/ ConnectFails \/ Close
  \/ Preview \/ Begin \/ BeginFails \/ QueryReturns \/ QueryFails \/ QueryTimesOut
  \/ ServerStops \/ ConnectionLost \/ Rollback \/ Bounded
  \/ Export \/ Declare \/ FetchBatch \/ RowArrives \/ BatchFull \/ RowsEnd
  \/ PageArrives \/ PageIncomplete \/ StreamFails \/ FetchTimesOut \/ ChildDies
  \/ Write \/ WriteFails \/ Cleanup \/ Finish \/ FinishFails
  \/ Abort

Spec == Init /\ [][Next]_vars

\* Timers fire, control statements are answered, the code goes on. That a
\* server ends a statement whose client has given up is only promised by
\* PostgreSQL, where the connection sets statement_timeout.
Fairness ==
  /\ WF_vars(Connects \/ ConnectFails)
  /\ WF_vars(Begin \/ BeginFails)
  /\ WF_vars(QueryTimesOut)
  /\ WF_vars(kind = "postgres" /\ ServerStops)
  /\ WF_vars(Rollback)
  /\ WF_vars(Bounded)
  /\ WF_vars(Declare)
  /\ WF_vars(FetchTimesOut)
  /\ WF_vars(Write \/ WriteFails)
  /\ WF_vars(Cleanup)
  /\ WF_vars(Finish \/ FinishFails)
  /\ WF_vars(Close)

FairSpec == Spec /\ Fairness

-----------------------------------------------------------------------------
(* Properties. *)

TypeOK ==
  /\ kind \in Kinds /\ mode \in {"turn", "export"} /\ format \in {"json", "csv"}
  /\ data \in Data /\ want \in Wants \cup {None} /\ form \in {"rows", "buckets"}
  /\ pc \in {"new", "ready", "begin", "query", "rollback", "bound", "declare", "fetch", "write",
             "cleanup", "finish", "closing", "closed"}
  /\ handle \in BOOLEAN /\ session \in {"none", "idle", "transaction"} /\ busy \in BOOLEAN
  /\ cursor \in {"none", "open", "expiring"}
  /\ aborted \in BOOLEAN /\ failed \in BOOLEAN /\ previews \in 0 .. MaxPreviews
  /\ fetched \in Nat /\ completed \in BOOLEAN
  /\ rows \in Seq(Nat) /\ batch \in Seq(Nat) /\ file \in Seq(Nat)
  /\ answer \in [state : {"none", "failed", "rows", "published"}, count : Nat, cut : BOOLEAN]

\* Whatever ended the operation before (an answer, an error, a timeout, an
\* abort, a writer that gave up), the next preview starts on a session
\* without a transaction or a running statement, and an export hands its
\* connection back without an open portal, stream, cursor, child or scroll.
NothingLeftOpen ==
  pc \in {"ready", "finish", "closing", "closed"} =>
    session # "transaction" /\ ~busy /\ cursor # "open"

\* A file is published only with every row the query matches, once and in
\* order, and within the limits: batches, frames, pages, the cut of the last
\* page, errors and aborts between them never yield a partial one.
PublishedIsWhole ==
  answer.state = "published" =>
    /\ file = Interval(0, Asked)
    /\ Len(file) <= ExportRows /\ FileBytes(file) <= ExportBytes

\* A stated limit that is none: DEFAULT_LIMIT takes its place, but as a limit was
\* stated, no row beyond it is asked for (MongoDBConnector.ts:210).
DefaultForStated == kind = "mongodb" /\ form = "rows" /\ want = 0 /\ DefaultLimit <= MaxRows

\* What a preview shows is within both limits; of a row result it is never told
\* that rows are missing when none is, and no more is cut off than the limits
\* require; and rows that are missing are told. The code breaks the last of these
\* in one place: after the DEFAULT_LIMIT rows of DefaultForStated nothing tells
\* whether there are more.
TruncationIsTold ==
  answer.state = "rows" =>
    LET n == answer.count
        limit == IF kind = "mongodb" /\ form = "rows" THEN MongoLimit ELSE MaxRows
    IN  /\ n <= MaxRows /\ Bytes(0, n) <= MaxBytes
        /\ n < Asked => answer.cut \/ (DefaultForStated /\ n = DefaultLimit)
        /\ answer.cut /\ n = Asked => kind = "elasticsearch" /\ form = "buckets"
        /\ n < Asked => n = limit \/ Bytes(0, n + 1) > MaxBytes

\* Every operation comes to an end, also when the server never answers a
\* query again: no cleanup waits for a statement that only the lost
\* connection can stop.
Settles == pc \notin {"new", "ready", "closed"} ~> pc \in {"ready", "closed"}

=============================================================================
