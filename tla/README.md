# DB Chat: TLA+ models and proofs

DB Chat answers questions about a database through a language model. A browser
tab asks; a Node worker accepts the turn (one question and its answer), lets an
agent alternate between the model and tools that query the user's database, and
streams the answer back. Several workers may serve the same accounts from one
Postgres database (Supabase), or one process serves them from a file. A turn is
accepted by any worker, run by that one, and must survive its crash, its lost
lease, its user's stop and the deletion of its account; so must exports and
uploaded files. This directory models that, checks the models with TLC and proves
the core of them with TLAPS. Paths below are relative to the repository; SQL
files are in `supabase/migrations/`.

## The system

| Part | State | Operations | What is hard | What makes it correct |
|---|---|---|---|---|
| Worker lease (`src/server/workerCoordinator.ts`, `202610030003`) | `dbchat_workers`; `active`, `closed`, `validUntil`, the awaited renewal | start, renew, lose, stop; register, heartbeat, release | late calls, lost answers, two readings of time | a worker that thinks it may go on holds a live lease |
| Turn store (SQL `202610030003`, `202609080001`, `202610030001`, `202610030005`) | turn rows, executions, messages, deletion gate | claim, save, finalize, finish, cancel, recover, delete | every order of calls by any worker, also of one that has lost its lease | history alternates, one answer per question, stops win, capacity holds |
| Turn execution (`server.ts`, `sessionStore.ts`) | the turn record, its abort signal, dirty events, `runningTurns` | POST turn, runTurn, abort, drain | answers lost or late, stop against commit, crash | what is published is what is saved; accepted turns end |
| Local store (`accountStore.ts`) | chats, turns, executions, sessions, connections, knowledge; one file | the same calls as the shared store; login, settings | restarts, a chat deleted under its run | it keeps the same contract as the shared store |
| Session refresh (`supabaseAccountStore.ts`) | `dbchat_sessions`, refresh lock, a cache per worker | session, refreshSession | two workers, a token that can be used once, lost answers | the viewer stays signed in |
| Local exports (`exports/exportJobs.ts`) | job map, executing set, files | start, pump, execute, cancel, remove, prune, close | a cancel between two awaits, slots held by dying runs | slots bounded and never idle, cancelled stays cancelled |
| Durable exports (`exports/supabaseExportJobs.ts`, `202610030006`) | registry rows with worker lease, token, phase; Storage objects | create, tick, finish, cancel, cleanup claim and finish | lease expiry during an upload, late objects, two cleaners | nothing offered that is not there, outcomes final, nothing left behind |
| Asset lifecycle and account deletion (`assetLifecycle.ts`, `202610030004`) | asset rows, deletion phases, claims, objects | upload, attach, detach, cleanup, gate, phases | a connection attached while the file is cleaned; a deletion that stops half way | no file in use removed; deletion resumes and finishes |
| Local uploads (`server.ts`) | uploads, connections, files | upload, claim, change, delete, sweep | the sweep races a claim at the age limit | a connection keeps its file |
| Agent loop (`agent/`, `webAgentService.ts`) | messages, rounds, calls, results, the open connector | run, tools, compaction, final answer | budgets against nested failures | well-formed requests, an answer that rests on evidence, an end |
| Model client (`model/OpenRouterClient.ts`) | the buffer, the deltas | streamChat | chunks cut anywhere, fragments, errors | the answer is what was sent |
| Connectors and validation (`connectors/`) | session, transaction, cursor, child process | connect, executeQuery, exportQuery, introspect | an end of any kind at any await; limits that meet | nothing left open, published files whole, cuts told |
| Evidence and blocks (`agent/tools/`, `web/contentBlocks.tsx`) | saved results, verified blocks | reports, charts, tables, hydration | decimals and limits; blocks the model invents | what is shown was returned by the database |
| Conversation context (`conversationContext.ts`, `savedDataLimits.ts`) | the messages of a chat | read for the model, pages | several limits at once | the newest that fits, with what was pinned |
| Event streams (`sessionStore.ts`, events route) | events, subscribers, slots | subscribe, replay, poll, acceptPersisted, forget | another worker, crash, reconnect | each event once, in order, and an end |
| Web client (`web/App.tsx`, `contentBlocks.tsx`) | messages, the followed turn, composer, downloads | submit, cancel, retry, open, load older, poll | answers that overtake each other, or reach a tab that moved on | one question once; one chat without gaps; the end is shown |
| Operation limiter, request slots, shutdown (`operationLimiter.ts`, `server.ts`) | counters, waiters, phases | run, handle, drain | an abort of a waiter being woken; work that outlives its request | no slot lost or given twice; the drain waits for all |
| Retention ledger, daily quotas (`202610030005`, `202610030002`) | counters | triggers, reserve | sums over rows | not modelled |

They interact so: the POST handler asks `WorkerCoordinator.assertReady`, claims
the turn in the store under the worker's id and starts `runTurn`, which lets
`WebAgentService.run` open a connector and answer; it saves progress and commits
through the fenced procedures, and streams show what is committed. The heartbeat
brings back the turns to stop, losing the lease aborts them all, and every worker
recovers turns nobody runs. A tool may start an export job, which opens a
connection of its own and outlives the turn. Account deletion first commits the
gate row, which turns answers in flight into "aborted", and goes on when nothing
of the account runs.

## Modules

Turns:

- `TurnContract.tla`: what a user is promised, with no worker in sight: a chat
  is a list of questions with their answers. `Ask`, `Answer`, `Stop`, `Erase`, `Close`.
- `TurnStore.tla`: the procedures of the database. Each is one transaction under
  the account lock and the `dbchat-turn-coordination` lock, hence one action.
  `StoreSpec` lets anybody call anything at any time, so stale workers, late
  commits and retries need no description of their own. `Contract` instantiates
  `TurnContract` with a refinement mapping that reads transcripts off messages
  and turn rows.
- `TurnCoordination.tla` (extends `TurnStore`): the workers. `pc[t]` is the await
  at which the handler or `runTurn` of a turn stands. A remote call is a message
  in `calls[t]` that the database executes at any later time, also after its
  caller timed out (15 s), failed or died; `LoseAnswer` is that failure. The
  operations in `LossyOps` may fail so.
- `WorkerLease.tla`: one worker's lease with a clock. `TurnStore` uses only
  what it shows: a live lease may end at any moment and never revives.
- `LocalStore.tla`: the same calls on `AccountStore`, with restarts; it implements
  `TurnContract` as well, though its calls are written otherwise. A crash between
  the two writes of `finalizeTurn` is the second disjunct of `Finalize`.
  `LocalAccounts.tla`: its sessions, connections and what was learned of them.
- `SessionRefresh.tla`: one session, the requests of several workers, the provider.

Files and exports:

- `LocalExports.tla`: `ExportJobs`, one action per stretch between two awaits.
- `DurableExports.tla`: the registry rows and objects; the poll, the run, the
  cleanup pass and the shutdown of each worker's `SupabaseExportJobs`. `late`
  holds calls that failed and are executed later, `air` uploads that land later.
- `AssetLifecycle.tla`: rows, objects and deletion of one account; the upload and
  connection routes; `pass` is where a worker's maintenance stands.
- `LocalUploads.tla`: the same files on a server without Supabase.

An answer:

- `AgentLoop.tla`: `run` and `runAgentLoop`; a message is its role and tool-call ids.
- `ModelStream.tla`: the provider's stream, cut into chunks by the network, and
  what client and loop put together of it.
- `QueryExecution.tla`: the five connectors' previews and exports: `pc` is the
  await, `session`, `cursor`, `busy`, `handle` what is open on the other side.
- `QueryText.tla`, `JsonRequests.tla`: what the server takes a text or a JSON
  request for, against what is executed. `Introspection.tla`, `Documents.tla`: how
  catalogue rows and documents become a schema and rows.
- `Evidence.tla`: from a saved result to key figures, tables and charts.
  `AnswerBlocks.tla`: from verified and invented blocks to the saved answer.
- `SavedContext.tla`: what the model is told of a saved chat.

The browser tab:

- `Viewing.tla`: the runner's events, saved snapshots, the streams of the workers,
  the tab that follows. `Downloads.tla`: a download block and its local job.
- `ChatPages.tla`: the pages of messages a tab loads. `Composer.tla`: asking,
  cancelling, retrying. Each takes the others' part as one step.

Slots: `OperationLimiter.tla`, `RequestAdmission.tla`.

`MC*.tla` and `*.cfg` are instances for TLC. `MCParts`, `MCLocalServer` and `MCViewing`
put several modules that share no state into one run: a behaviour is one of one
part, chosen in the first state, while the others rest; where the run checks
liveness they rest in a state in which nothing fair is enabled. This costs the sum
of the parts and never their product. The theorems are in `WorkerLeaseProofs`,
`TurnCoordinationProofs` (the turn store's and the workers'), `LocalStoreProofs`,
`DurableExportsProofs`, `AssetLifecycleProofs`, `AgentLoopProofs` and `ViewingProofs`;
`Filters.tla` is JavaScript's `filter`, and `FilterProofs` has the lemmas about it.

How actions match the code, where it is not one to one:

- Turns. A claim that finds the request already claimed answers `created: false`;
  the handler then discards its record, as after a refusal: reply `"refused"`. The
  daily quota, the retained-data quota and message identity are reasons for the
  same reply. `ClaimTurn`, `SaveTurn` may be refused at any time (a failing
  database); `FinalizeTurn` says when it is. `MayClaim` joins the checks of the three
  nested claim procedures. `Settle` is the storage routine under finalize and
  recover; the second disjunct of `FinalizeTurn` is the completion-limit fallback
  of `202610030005`. A snapshot is its number of events; `row` is the status with
  the `finalized` flag (`open` is not finalized, `deleted` a row gone with its chat).
- `DELETE /account` and maintenance abort local turns after `cancelOwnerTurns`;
  `AbortHere` covers that as well as the abort route. `Lose`/`LoseLease` may happen
  at any time: a failed recovery, the expiry timer and `assertReady` all lead
  there. `Recover(w, t)` is open to a worker that has lost its lease: the list of
  turns was read earlier and `dbchat_recover_turn` does not ask who calls. Drain and
  the abort route spare a committing turn, heartbeat and loss do not.
- `AgentLoop`: the ids of tool calls are distinct; the web service's tools need no
  approval, so that branch is never reached.
- `QueryExecution`: BEGIN and ROLLBACK are answered or the connection is lost. The
  scroll of a first Elasticsearch page that is incomplete, or whose DELETE failed,
  is left to its keepalive of a minute; only PostgreSQL ends abandoned
  statements by itself. Aggregations of Elasticsearch may be marked truncated
  although they are complete. A MongoDB `limit` of 0 stands for whatever the connector
  does not take for a limit (a negative number, a text). Writes are left out.
- `Evidence`: a cell that is a text becomes a double when it is plotted. A double has as
  many decimal digits here as `MaxSafe` (one, in the instance), and integrality is
  asked of the double: "12.0" is refused and "3.1" drawn at 3.
- `AnswerBlocks`: `reason` is `terminalReason`. `Complete` covers the final report too, whose
  answer is hydrated from an empty text; `Incomplete` the three fixed texts.
- `LocalExports`: `RemoveExpired` leaves the file (`exportJobs.ts:103`).
- `RequestAdmission`: deleting an account on a server without shared assets is not
  reached in production.

## Runs

| Run | Question | Instance and bounds |
|---|---|---|
| `turn_store` | Do the procedures keep history, stops, capacity and fencing in every order, and implement `TurnContract`? | 2 workers, 3 attempts: two share a chat, two share a request; account limit 1, global 2; 1 event; 39 352 states |
| `turn_coordination` | Is what workers report what is saved, and does saved progress never shrink, with every call late or lost? | 1 turn, 2 workers, 2 events; 1.1 million states |
| `turn_liveness` | Do accepted turns end? | 1 turn, 2 workers, 1 event; saves and terminal writes may be lost |
| `turn_orphan` | ... also when the claim's answer is lost? No. | 1 worker, lossy claim |
| `local_server` | Does the store of a single process keep one answer per turn and implement `TurnContract`, over restarts? Do queued jobs move? Does a query leave nothing open, publish whole files, tell what it cut? | 3 attempts: two share a chat, two a request; account limit 1; 3 starts. 3 jobs, 2 kept, 1 slot. Each connector, up to 4 rows, 2 previews or 1 export |
| `local_exports_cancel` | Is a cancel final? No. | 1 job |
| `durable_exports` | Do registry and storage agree, is what is over over, does everything end and vanish? | 1 export, 2 workers (one may crash), 1 cleanup token, 1 late call of a kind |
| `asset_lifecycle` | Are files in use safe, is an account erased after its work, does cleanup end? | 2 files, 2 connections, 2 workers (one may crash), 1 fault |
| `agent_loop` | Are requests to the model well formed, does an answer rest on evidence, does it end? | 3 rounds, 3 calls asked, 2 executed a round, 4 in all; 2 messages survive compaction |
| `viewing` | Does a tab show each event once, in order, and the saved end? | 2 workers, 2 streams, 2 events, 2 upsets, 1 recovery; downloads: 2 calls, 2 clicks, 1 visit |
| `parts` | Seventeen parts, one at a time, each against its own promise | instances in `MCParts.tla`; 1.3 million states |
| `local_deletion` | Is a deleted chat gone? No. | 3 turns, 2 chats |

A property that joins the promises of several modules, or the type invariant and
a promise of one, has a name of its own (`SessionsLast`, `ReadIsWhole`,
`SlotsAreBounded`, `FilesAreSafe`, `RowsMatchObjects`, ...), and the comment above it
says which ones.

Why the bounds are enough. In `turn_store` the properties relate at most two
turns (two of one request, two of one chat, two of one account): three attempts
arranged so that each pair shares something else give every such conflict, and an
account limit of 1 is reached by the first claim. The global limit of 2 is not
reached there; `CapacityHolds` proves both limits for all values. Two workers are one
that loses its lease and one that takes over. Two events give a save that is older
than another. In the lease part, lease 5, heartbeat 2 and 12 units of time contain a
renewal, a late one and a lost one in succession; the theorems remove the bound. Export
rows share nothing but counters and the cleanup's tokens, so one row meets
all that threatens it; quotas of 1 make its own slot the last one. Two files are
one that is attached and one that replaces it. The agent's budgets are small enough that
each is reached before and after the others: rounds, calls of a round, calls of a
turn. In the stream one break and one crash, or two of a kind, hit a tab on its way;
two events tell a repeated from a lost one. The parts' limits are all reached: a
session's cadence, term and absolute end; pages of 2 of up to 5 messages; a queue of
one behind two slots; more kept messages than are read.

`MaxEvents` of the turns, `MaxTime`, `MaxWaiting`, `MaxStarts`, `MaxFaults`, `MaxLate`,
`MaxUpsets`, `MaxAsked`, `Mortal`, `ShortLived`, `Aging` and whatever else a module
declares as a bound limit the models, not the code. Deadlock is
not checked: users may stop asking, workers may all be gone, clocks have an end,
answers end.

Fairness. Node runs its continuations and timers, a call that is not lossy is
executed, an awaited lossy call is answered or given up after its time limit, and
leases nobody renews run out; users owe nothing. In particular:

- Turns: a worker that stays ready keeps heartbeating and recovering, and the
  liveness properties assume that some worker stays ready.
- Local exports and queries: runs and file operations end, since driver calls have
  deadlines and honour the signal. In `QueryExecution` the deadline is fair and the
  answer is not.
- Durable exports: polls, runs on living workers and cleanup passes go on, an upload
  lands or vanishes. That a given row is claimed, its object deleted and its cleanup
  ended is strong fairness: the poll comes back every few minutes, a pass takes
  a bounded number of rows in turn, and requests to storage fail now and then but not
  always.
- Assets: the maintenance timer runs its passes, uploads and claims lapse, requests
  that outlive their callers are executed or lost. Work behind the gate ends
  (turns and exports are cancelled and have time limits).
- Agent: every await returns (connecting, schema and queries have deadlines, the
  model's stream 120 s); nobody has to abort.
- Viewing, downloads: the turn ends, a dead worker is replaced, the tab's
  `EventSource` and timers come back. Clicks are not fair.

## What the violations show

- `turn_orphan`, `StopTakesEffect`: the claim commits, its answer is lost, and the
  handler (`server.ts:1159-1161`) forgets the turn while its own worker keeps
  renewing the lease that makes the turn look executing. Nothing ends it before
  that worker goes. The same happens when both the terminal write and the
  acknowledgement (`server.ts:1673`) are lost.
- `local_exports_cancel`, `CancelIsFinal`: a cancel during `fs.stat`
  (`exportJobs.ts:64`) is overwritten by `ready`; the answer to the cancel offers
  a download whose file has just been removed.
- `local_deletion`, `DeletedForGood`: a chat deleted while its answer is written
  (`accountStore.ts:775-782`, `server.ts:915-921`) comes back in part with the next
  progress save, half a second later (`accountStore.ts:683`).

## What is proved

All theorems hold for every value of the constants under the named assumption of
their module (`TimingAssumption`, `StoreAssumption`, `DurableAssumption`,
`AssetAssumption`, `AgentAssumption`, `LocalAssumption`, `ViewingAssumption`): any number of
workers, turns, chats, accounts, exports, files, calls and streams, any limit and any timing. Every inductive
invariant was first checked by TLC on the instance of its run.

- `WorkerLeaseProofs`. `LeaseInv` is types plus `LeaseCoversAnswer`: while an
  "alive" answer is on its way, and after it is accepted, the database's lease
  is at least the moment of the call plus the lease time. `ReadyHasLease` is
  not inductive without it, because it says nothing of an answer not yet received.
  From it follow `ReadyWorkerHasLease`, `OverLeaseStaysOver`, `LostWorkerStaysLost`.
- `TurnCoordinationProofs`, the store. `StoreInv` adds to the types `ExecutionsMatch`: a final row has
  a finished execution, a complete one no stop, an absent or deleted one no
  execution, an open one a registered worker. Without "final implies finished" a
  late `CancelTurn` could mark a complete turn and `StopWins` would fail to be
  inductive. From it: `StopWinsHolds`, `FinalStaysFinal`, `LostWorkersAreFenced`,
  `RequestsAreAskedOnce`.
  Capacity. `StepExecuting`: a step either starts no turn or is a
  claim that adds one turn whose checks held. Here it matters that the
  worker of an execution is registered, or registering it again would revive its
  turns. From it `CapacityHolds`, with the finiteness of the executing set as part of
  the invariant instead of an assumption, and `DrainedAccountsStayDrained`.
  The contract. `Histories`: the message at an odd position is a question, at
  an even one the answer to the question before it; each is about a row of its chat
  that is final, the last question alone excepted, which is about the open row; and an
  open row is about the last question. The last part is what makes it inductive:
  `Settle` appends an answer without looking at the messages, and is right only because
  the open row of a chat is the one asked last. From it `ConversationsAreInTurns` and
  `StoreImplementsContract`: a claim maps to `Ask`, the storage of an outcome to
  `Answer`, stops, deletions and the gate to `Stop`, `Erase` and `Close`, and saves,
  acknowledgements and everything about workers to stutters.
- `TurnCoordinationProofs`, the workers. `NodeInv` is the types of the workers' state and
  `HostsKnown` (a turn with calls out has a worker as its host). Under it every step
  is a store step or leaves the store alone: `WorkersImplementStore`, which carries
  the theorems above over to the workers, `WorkersKeepContract` among them.
  `CoordinationTypes` and `AnswersAreSaved` follow. For `ProgressIsKept` the invariant
  (`SnapshotsOrdered`) is about the snapshots under way: none is ahead of the turn; a
  terminal write carries all of it; at most one progress save is out, it is not behind
  what is saved, and no other starts before it is answered.
- `LocalStoreProofs`. `LocalInv` says what ties the messages of a chat to its turns. As
  in the shared store they are questions and answers in turn, but `finalizeTurn` writes
  the answer before the turn is final, so that after a crash the open turn may have
  its answer already; recovery then replaces it, which is right only because the
  open turn is the last of its chat. A turn whose execution is not finished is open, if
  its chat still exists, and the execution knows of every stop that was recorded. From it `AnswersMatch`, and
  `LocalStoreKeepsContract` for the contract that `StoreImplementsContract` shows of the shared
  store: a claim maps to `Ask`, `finalizeTurn` and recovery to `Answer`, cancellations
  and deletions to `Stop` and `Erase`, and the first write of `finalizeTurn`, crashes
  and starts to stutters.
- `DurableExportsProofs`. `RowInv`: a row that is removed, claimed or waits for the end
  of its tombstone has an outcome that is not "ready"; without it the last cleanup of
  a row could delete what is offered. From it `WhatIsOver`. `MatchInv` adds what ties
  rows to objects: a DELETE is on its way only to a row that is dead; a run
  that has uploaded has its object as long as its row is not dead; once the tombstone
  is late no upload lands any more, and a cleanup that then holds the claim and is about
  to end has removed the object. From it `RegistryMatchesStorage`.
- `AssetLifecycleProofs`. `AssetInv` has two halves. `Erasure` says what each step of a
  maintenance pass relies on while other workers take the deletion over: past
  the hooks nothing runs, past the sweep no upload can complete. `FileSafe`
  holds until the account's files are swept: what may still be removed, by any
  pass or late DELETE, is a row that waits for deletion, and such a row is never
  attached again; a row becomes attached from "pending" only, with its object
  stored. From them `UsersAreErasedAfterWork` and `AttachedFilesAreSafe`.
- `AgentLoopProofs`. `LoopInv`: the calls of the batch still to come fit in the
  turn's budget; a call under execution was not blocked, and nothing changes its
  count meanwhile; `failures` counts at least the failures that happened; the flag
  `unresolved` is up as long as the last failed query was not followed by one that
  succeeded, and the reason of the end obeys the flag. From it `AnswersRestOnEvidence`
  and `FailuresAreBounded`.
  The conversation. `AgentInv` says what the model's next request consists of. Between
  rounds (`Sound`) it is the system message, user messages and whole blocks: an
  assistant message with calls, then one reply to each of them, the ids all of earlier
  rounds. During a round (`Underway`) it is such a conversation and the block begun: the
  calls over the limit, which are answered first, and those already carried out have
  their replies. `ToolCallsAreSound` alone is not inductive: it does not tell a block
  that is still growing from one that was cut. Compaction keeps `Sound` because it cuts
  only before a message that is no reply: the blocks behind the cut are whole, and a
  user message with the summary stands for all before it. From it `ToolCallsSound`.
- `ViewingProofs`. `ViewInv` says of each read that is under way or was handed to a
  response that it is of the turn as it was (`Reaches`: events are only added, and none
  after the end); of the response the tab is connected to, that it carries exactly the
  events from the tab's last id to the last one it has written (`Carries`); and of the
  tab that its cursor is the number of events it shows. Without `Carries` an event
  that is not fresh could be one that was never shown. A client's departure is part
  of it: a response that is destroyed or vacant is never the one a tab follows. For the
  places: one is held only by a response between its reservation and the first of its
  release events. From it `StreamsSound`.
- `FilterProofs`. `Filter` is a recursive function; what it returns for every sequence
  needs induction, and the library's induction theorems take an operator the provers
  cannot instantiate. Here induction is first-order: from the well-foundedness of `<`
  every non-empty set of numbers has a least member (`LeastNatural`), hence a set
  that has 0 and its members' successors is `Nat` (`Induction`), and the same holds of
  sequences and `Append` (`SequenceInduction`). From it the function exists and
  `FilterAppend`, `FilterConcat`, `FilterFrom` say what it returns. The three proof
  modules above that are about sequences (`LocalStoreProofs`, `AgentLoopProofs`,
  `ViewingProofs`) rest on them.

Only model-checked. Liveness (`AcceptedTurnsEnd`, `ExportsEnd`, `ExportsVanish`,
`CleanupEnds`, `TurnEnds`, `ViewersSettle`, `Settles`, `QueuedJobsMove`) and whatever
needs ENABLED are out of this prover's reach. What the pure algorithms compute
(`EvidenceIsTold`, `ReadIsWhole`, `QueriesAreRead`, `AnswerIsWhole`) is checked over bounded
inputs; `Documents` and `JsonRequests` use RECURSIVE operators besides. The safety of the
other parts of `MCParts` (slots, sessions, pages, composer, uploads, drain) and of
`QueryExecution` (`NothingLeftOpen`, `PublishedIsWhole`, `TruncationIsTold`) is finite and
not proved yet.

## Not modelled

- Retention ledger and daily quotas: sums that triggers keep inside the transactions
  modelled as atomic; here a full one is a reason for a refusal.
- Bytes: the encoding of exports and charts, artifacts' byte budgets (in `SavedContext`
  sizes are weights), the 64 KB bound of JSON requests, index and schema size limits
  other than SQLite's. Text is modelled as far as a property is about it (`QueryText`
  has atoms and a database that reads them as the server does, `JsonRequests` shapes
  without JSON null and empty strings).
- Windows of request and login budgets, the global limit of event streams and the
  limits of 8 and 4 subscribers, cookies and routing, forms of connections and
  settings, the desktop shell.
- Turns without a chat are in `Viewing` and `RequestAdmission` only. Worker rows are
  pruned after a day in the code and kept here.
- `LocalStore`: a persist that fails (a claim whose persist failed blocks its chat until
  a restart).
- `LocalAccounts`: `updateSettings` applies earlier fields before it refuses a later
  one. `saveConnectionKnowledge` after `deleteConnection` brings the knowledge back
  (`server.ts:1554`).
- `Introspection`: filters of system schemas; two MongoDB collections that differ by
  case. `Documents`: documents conform to their mapping and have no dotted or
  duplicate keys; samples and profiles.

Cases the code does not promise, which the properties exempt by a condition or a
history variable and a comment:

- `ChatPages`: two requests for pages out at one time (`overlap`), a turn that ends while
  a page is read (`split`). `Composer` (`missed`): a request that was cancelled and whose
  answer, or the abort of whose turn, is lost.
- `Viewing` (`returned`): a tab that comes back to a chat whose answer is still written
  has emptied its text but keeps the event cursor (`App.tsx:2085`).
- `Downloads`: a failed poll ends polling, an overtaken answer, a cancelled job that
  became ready, a job that is gone.
- `SessionRefresh` (`upset`): a worker that gave the lock up for another, against the
  comment at `supabaseAccountStore.ts:166`; a revocation after 401 or 403 is not modelled.
- `LocalUploads` (`loose`, `voided`): a write that failed leaves its file; a connection
  that was read before another request changed it leaks one (`server.ts:950`, `965`);
  so does a save that throws after memory was changed.
- `QueryExecution` (`DefaultForStated`): SDD-WEB-CHAT.md:165 says "Previews fetch one
  extra row to detect truncation". After a stated MongoDB limit of 0, a negative one or
  one that is no number `MongoDBConnector.ts:204-210` shows `DEFAULT_LIMIT` rows and fetches
  none beyond, so a larger collection is cut without a mark; `TruncationIsTold` holds of
  every other preview.
- `AnswerBlocks`: an answer that ends "incomplete" (a failed query never repaired, rounds or
  calls used up) is a fixed text without the reports, charts and downloads made before
  (`AgentLoop.ts:171`, `390`); the query results stay in the turn's activity. Of such an
  answer `OnlyVerifiedBlocks` says only that a chart added to it is the server's.
- `Evidence`: of a text with more digits than a double holds, the point of a chart is the
  nearest double; tables and key figures keep the text.
- `SavedContext`: the shared store does not ask whether the selected message is relevant.

## The plan

What is left to prove, in order of weight: `NothingLeftOpen` of `QueryExecution`, whose
invariant relates what is open on the other side to the await the query stands at; the
slots of `LocalExports` (`SlotsBounded`, `NoIdleSlot`), `OperationLimiter` and
`RequestAdmission`, which need the counting lemmas of `ViewingProofs` (`PlacesStay`,
`Released`); `SessionsLast` of `SessionRefresh`.
