---------------------------- MODULE MCLocalServer ----------------------------
(***************************************************************************)
(* What a server without Supabase does with its memory and its databases:  *)
(* the store of its turns (LocalStore), its export jobs (LocalExports),    *)
(* and the queries that feed an export or a preview (QueryExecution).  A   *)
(* behaviour is one of one of the three, chosen first; the others rest.    *)
(***************************************************************************)
EXTENDS MCLocalStore

CONSTANTS None, j1, j2, j3, o2

VARIABLES
  part,
  jobs, status, stage, aborted, expired, file, awaiting, closed,
  kind, mode, format, data, want, form, pc, handle, session, busy, cursor, aborting,
  failed, previews, fetched, rows, batch, written, completed, answer

jobVars == <<jobs, status, stage, aborted, expired, file, awaiting, closed>>
queryVars == <<kind, mode, format, data, want, form, pc, handle, session, busy, cursor, aborting,
               failed, previews, fetched, rows, batch, written, completed, answer>>

\* One account with two jobs, one with one; two kept at a time for one slot
\* (MCParts has two slots, and jobs that expire).
Job == INSTANCE LocalExports WITH
  Jobs <- {j1, j2, j3}, Owners <- {o1, o2}, OwnerOf <- [j \in {j1, j2, j3} |-> IF j = j3 THEN o2 ELSE o1],
  OwnerQuota <- 2, TotalQuota <- 2, Slots <- 1, MaxWaiting <- 1, ShortLived <- {}

\* Up to four rows of one or two units of size, cut by every limit.
Query == INSTANCE QueryExecution WITH
  aborted <- aborting, file <- written,
  Data <- UNION {[1 .. n -> 1 .. 2] : n \in 0 .. 4}, Wants <- {None, 0, 1, 3},
  MaxRows <- 2, MaxBytes <- 3, DefaultLimit <- 1, MaxFrame <- 3, BatchSize <- 2,
  ExportRows <- 3, ExportBytes <- 5, MaxPreviews <- 2

-----------------------------------------------------------------------------

\* A connection that was never used and is closed: nothing of it can happen.
Closed ==
  /\ kind = "sqlite" /\ mode = "turn" /\ format = "json" /\ data = <<>>
  /\ want = None /\ form = "rows" /\ pc = "closed"
  /\ handle = FALSE /\ session = "none" /\ busy = FALSE /\ cursor = "none"
  /\ aborting = FALSE /\ failed = FALSE /\ previews = 0
  /\ fetched = 0 /\ rows = <<>> /\ batch = <<>> /\ written = <<>> /\ completed = FALSE
  /\ answer = Query!NoAnswer

ServerInit ==
  /\ part \in {"store", "jobs", "query"}
  /\ Init /\ Job!Init
  /\ IF part = "query" THEN Query!Init ELSE Closed

ServerNext ==
  /\ \/ part = "store" /\ Next /\ UNCHANGED <<jobVars, queryVars>>
     \/ part = "jobs" /\ Job!Next /\ UNCHANGED <<vars, queryVars>>
     \/ part = "query" /\ Query!Next /\ UNCHANGED <<vars, jobVars>>
  /\ UNCHANGED part

ServerSpec ==
  /\ ServerInit /\ [][ServerNext]_<<part, vars, jobVars, queryVars>>
  /\ Job!Fairness /\ Query!Fairness

-----------------------------------------------------------------------------
(* The properties of jobs and queries; those of the store are LocalStore's. *)

\* A queued job is started or ends, whatever becomes of the jobs before it
\* (exportJobs.ts, pump).
QueuedJobsMove == Job!QueuedJobsMove

\* A session that is used again is in no transaction, cursor or statement of
\* an earlier query (the connectors' ROLLBACK, CLOSE and clearAndClose).
NothingLeftOpen == Query!NothingLeftOpen

\* A file that is published holds every row of its query, in order
\* (dataExport.ts, the connectors' exportQuery).
PublishedIsWhole == Query!PublishedIsWhole

\* A preview that left out rows of its query says so, but for one case
\* (boundResultBytes and the look-ahead row of each connector).
TruncationIsTold == Query!TruncationIsTold

\* Every query and export comes to an end (timeouts, aborts and cleanups).
Settles == Query!Settles
===============================================================================
