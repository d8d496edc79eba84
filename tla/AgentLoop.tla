------------------------------ MODULE AgentLoop ------------------------------
(***************************************************************************)
(* One answer: WebAgentService.run (src/server/webAgentService.ts) opens a *)
(* connector and calls runAgentLoop (src/server/agent/AgentLoop.ts), which *)
(* alternates between the model and the tools it asks for, within budgets, *)
(* and compacts the conversation (ContextManager.ts) when it grows.        *)
(*                                                                         *)
(* A message is its role and the ids of the tool calls it makes or         *)
(* answers; a tool call is what the loop can tell of it.  Code between two *)
(* awaits is one step.  The permissions are those of the web service:      *)
(* level "safe" and a list of tools of which none has to be approved, so   *)
(* the branch that waits for an approval is never reached.                 *)
(***************************************************************************)
EXTENDS Integers, Sequences, FiniteSets, FiniteSetsExt, Filters

CONSTANTS
  MaxTurnRounds,      \* 6 in the web service
  MaxParallelTools,   \* 5
  MaxTotalToolCalls,  \* 8
  KeepRecent,         \* messages that compaction keeps, 8
  MaxAsked,           \* bound: calls in one response (the code refuses more than 32)
  Calls,              \* tool calls the model may write, see Call
  Texts,              \* argument texts, some of them the canonical form of an input
  AllowedTools        \* the tools of setAllowedTools

\* raw: the arguments as written; input: their canonical JSON, "malformed" if they
\* are no object; operation: what classifyQuery says of a query; results: what
\* executing the call may return; finalize: the report claims to be the answer.
Call == [tool : STRING, raw : Texts, input : Texts \cup {"malformed"},
         operation : {"read", "write", "ddl", "unknown"},
         results : SUBSET {"ok", "failed", "refused"}, finalize : BOOLEAN]

ASSUME AgentAssumption ==
  /\ {MaxTurnRounds, MaxParallelTools, MaxTotalToolCalls, KeepRecent} \subseteq Nat \ {0}
  /\ MaxAsked \in Nat /\ MaxAsked >= MaxParallelTools
  /\ \A c \in Calls : c \in Call /\ c.results # {}
  /\ \A c \in Calls : "failed" \in c.results => c.tool = "run_database_query"

VARIABLES
  pc,          \* where the answer stands
  link,        \* the turn's connector: "shared" is the configured one, not its own
  aborted,     \* the signal: cancelled, lease lost, or 300 s are over
  round,
  conv,        \* the conversation: a sequence of [role, ids]
  batch,       \* pendingCalls of this round
  at,          \* the call of batch that is next
  trimmed,     \* the response asked for more calls than batch has
  length,      \* the response ended with finishReason "length"
  clean,       \* every result of this round so far is ok
  total,       \* totalToolCalls
  failures,    \* failedCallSignatures
  unresolved,  \* unresolvedQueryFailure
  repaired,    \* queryRepairPromptUsed
  terminal,    \* terminalReason
  log          \* history: the executed calls and their results

loop == <<round, conv, batch, at, trimmed, length, clean, total, failures, unresolved, repaired, log>>
vars == <<pc, link, aborted, loop, terminal>>

Signatures == {c.tool : c \in Calls} \X Texts

\* A call's id is its round and its place.
MessageOf(roles) == [role : roles, ids : SUBSET (Nat \X Nat)]
Message == MessageOf({"system", "user", "assistant", "tool"})

TypeOK ==
  /\ pc \in {"start", "connecting", "introspecting", "schema", "context", "model",
             "tools", "executing", "answered", "failing", "ended"}
  /\ link \in {"none", "shared", "open", "closed"}
  /\ aborted \in BOOLEAN
  /\ round \in 0..MaxTurnRounds
  /\ conv \in Seq(Message)
  /\ Len(batch) <= MaxParallelTools /\ \A i \in 1..Len(batch) : batch[i] \in Calls
  /\ at \in 1..(MaxParallelTools + 1)
  /\ {trimmed, length, clean, unresolved, repaired} \subseteq BOOLEAN
  /\ total \in 0..MaxTotalToolCalls
  /\ failures \in [Signatures -> 0..MaxTotalToolCalls]
  /\ terminal \in {"none", "completed", "length", "incomplete", "cancelled", "error"}
  /\ Len(log) <= MaxTotalToolCalls

User == [role |-> "user", ids |-> {}]
System == [role |-> "system", ids |-> {}]
Assistant(ids) == [role |-> "assistant", ids |-> ids]
Reply(id) == [role |-> "tool", ids |-> {id}]

\* A chat with its question; webAgentService has a configured connection or opens one.
Init ==
  /\ pc = "start" /\ link \in {"none", "shared"} /\ aborted = FALSE
  /\ round = 0 /\ conv \in {<<System, User>>, <<System, User, Assistant({}), User>>}
  /\ batch = <<>> /\ at = 1 /\ trimmed = FALSE /\ length = FALSE /\ clean = TRUE
  /\ total = 0 /\ failures = [s \in Signatures |-> 0]
  /\ unresolved = FALSE /\ repaired = FALSE
  /\ terminal = "none" /\ log = <<>>

\* The signal can fire at any moment; only the checks below look at it.
Abort ==
  /\ ~aborted /\ pc # "ended"
  /\ aborted' = TRUE
  /\ UNCHANGED <<pc, link, loop, terminal>>

-----------------------------------------------------------------------------
(* The connector of the turn.                                              *)

Release == IF link = "open" THEN "closed" ELSE link    \* the finally of run

\* run: a connection of its own is created, and owned before it connects.
Connects ==
  /\ pc = "start" /\ ~aborted
  /\ IF link = "shared" THEN pc' = "schema" /\ UNCHANGED link
                        ELSE pc' = "connecting" /\ link' = "open"
  /\ UNCHANGED <<aborted, loop, terminal>>

Connected ==
  /\ pc = "connecting" /\ ~aborted
  /\ pc' = "introspecting"
  /\ UNCHANGED <<link, aborted, loop, terminal>>

\* The schema is read, then saved by onSchema.
Introspected ==
  /\ pc = "introspecting" /\ pc' = "schema"
  /\ UNCHANGED <<link, aborted, loop, terminal>>

\* The schema is there; runAgentLoop checks the signal first.  Without an API key
\* the answer is a fixed message and the loop is not entered.
SchemaSaved ==
  /\ pc = "schema"
  /\ \/ ~aborted /\ pc' = "context"
     \/ pc' = "ended"
  /\ link' = IF pc' = "ended" THEN Release ELSE link
  /\ UNCHANGED <<aborted, loop, terminal>>

\* The 35 s deadline of WebPolicyConnector.introspect closes the connector itself.
DiscoveryTooLong ==
  /\ pc = "introspecting"
  /\ pc' = "failing" /\ link' = "closed"
  /\ UNCHANGED <<aborted, loop, terminal>>

\* Mutant of ConnectionFails: a connector whose connect or introspect fails is kept.
ConnectionFailsOpen ==
  /\ pc \in {"start", "connecting", "introspecting", "schema", "failing"}
  /\ pc = "start" => aborted
  /\ pc' = "ended"
  /\ UNCHANGED <<link, aborted, loop, terminal>>

\* Connecting, the schema or saving it fails, or the signal is found aborted.
ConnectionFails ==
  /\ pc \in {"start", "connecting", "introspecting", "schema", "failing"}
  /\ pc = "start" => aborted
  /\ pc' = "ended" /\ link' = Release
  /\ UNCHANGED <<aborted, loop, terminal>>

-----------------------------------------------------------------------------
(* A round: the context, the model.                                        *)

\* Mutant of CutOff: the most recent messages are kept, whatever they are.
CutOffPlain(history) == Max({0, Len(history) - KeepRecent})

\* compact: where the history is cut, moved back while the cut is before a reply.
CutOff(history) ==
  LET start == Max({0, Len(history) - KeepRecent})
      Clear(k) == k = 0 \/ k = Len(history) \/ history[k + 1].role # "tool"
  IN Max({k \in 0..start : Clear(k)})

Compacted(messages) ==
  LET system == Filter(messages, MessageOf({"system"}))
      history == Filter(messages, MessageOf({"user", "assistant", "tool"}))
      cut == CutOff(history)
  IN IF cut = 0 THEN messages
     ELSE system \o <<User>> \o SubSeq(history, cut + 1, Len(history))

\* compact: below the watermark, or when the summary fails, nothing changes.  The
\* signal is checked at the start of the round and while the summary is written.
Compact ==
  /\ pc = "context" /\ round < MaxTurnRounds /\ ~aborted
  /\ conv' \in {conv, Compacted(conv)}
  /\ pc' = "model"
  /\ UNCHANGED <<link, aborted, round, batch, at, trimmed, length, clean, total, failures,
                 unresolved, repaired, terminal, log>>

Ends(reason) == terminal' = reason /\ pc' = "answered"

\* The condition of the repair prompt, sent once in a turn.
RepairDue(isLength) ==
  /\ unresolved /\ ~repaired
  /\ round + 1 < MaxTurnRounds /\ total < MaxTotalToolCalls /\ ~isLength

\* A response without tool calls is the answer, unless a query failed and was never
\* put right: then the model is told to, once.  The signal is not checked here.
ModelAnswers ==
  /\ pc = "model"
  /\ \E isLength \in BOOLEAN, content \in BOOLEAN :
       IF RepairDue(isLength)
       THEN /\ repaired' = TRUE
            /\ conv' = conv \o <<Assistant({}), User>>
            /\ round' = round + 1 /\ pc' = "context"
            /\ UNCHANGED terminal
       ELSE /\ Ends(IF isLength THEN "length"
                    ELSE IF unresolved \/ ~content THEN "incomplete" ELSE "completed")
            /\ UNCHANGED <<repaired, conv, round>>
  /\ UNCHANGED <<link, aborted, batch, at, trimmed, length, clean, total, failures, unresolved, log>>

\* Which of the calls asked for are carried out: the first MaxParallelTools of them,
\* and no more than the turn has left.
Permitted(asked) == Min({asked, MaxParallelTools, MaxTotalToolCalls - total})

\* A response with tool calls: the message is recorded with all of them, and those
\* over a limit are answered at once.  The calls over the limit are only counted.
ModelCalls ==
  /\ pc = "model"
  /\ \E asked \in 1..MaxAsked :
       LET n == Permitted(asked) IN
       /\ batch' \in [1..n -> Calls]
       /\ trimmed' = (n < asked)
       /\ conv' = conv \o <<Assistant({<<round, i>> : i \in 1..asked})>>
                       \o [i \in 1..(asked - n) |-> Reply(<<round, n + i>>)]
  /\ length' \in BOOLEAN
  /\ at' = 1 /\ clean' = TRUE
  /\ pc' = "tools"
  /\ UNCHANGED <<link, aborted, round, total, failures, unresolved, repaired, terminal, log>>

\* The stream fails, exceeds a limit, or is given up: by the signal or after 120 s.
ModelFails ==
  /\ pc = "model"
  /\ Ends(IF aborted THEN "cancelled" ELSE "error")
  /\ UNCHANGED <<link, aborted, loop>>

-----------------------------------------------------------------------------
(* The tools of a round, one after the other.                              *)

call == batch[at]
Turned == pc = "tools" /\ at <= Len(batch) /\ ~aborted
Id == <<round, at>>

RawSignature(c) == <<c.tool, c.raw>>

CallSignature(c) == <<c.tool, c.input>>

Blocked(c) ==
  \/ failures[RawSignature(c)] >= 2
  \/ c.input # "malformed" /\ failures[CallSignature(c)] >= 2

\* check, at level "safe": an unlisted tool or a query that is not a read is denied.
Denied(c) == c.tool \notin AllowedTools \/ (c.tool = "run_database_query" /\ c.operation # "read")

Answered == conv' = Append(conv, Reply(Id)) /\ total' = total + 1

\* The call is answered without being executed: it failed twice already, is
\* malformed, or is not permitted.  Only a malformed one counts as a failure.
RefuseCall ==
  /\ Turned /\ (Blocked(call) \/ call.input = "malformed" \/ Denied(call))
  /\ Answered
  /\ at' = at + 1 /\ clean' = FALSE
  /\ failures' = IF ~Blocked(call) /\ call.input = "malformed"
                 THEN [failures EXCEPT ![RawSignature(call)] = @ + 1] ELSE failures
  /\ UNCHANGED <<pc, link, aborted, round, batch, trimmed, length, unresolved, repaired, terminal, log>>

StartTool ==
  /\ Turned /\ ~Blocked(call) /\ call.input # "malformed" /\ ~Denied(call)
  /\ pc' = "executing"
  /\ UNCHANGED <<link, aborted, loop, terminal>>

\* executeToolAndRecord: "failed" is QUERY_EXECUTION_FAILED of a query, "refused" any
\* other result that is not ok.  Nothing is recorded when the signal has fired.
ToolReturns ==
  /\ pc = "executing" /\ ~aborted
  /\ \E result \in call.results :
       /\ failures' = IF result = "ok" THEN failures
                      ELSE [failures EXCEPT ![CallSignature(call)] = @ + 1]
       /\ unresolved' = IF call.tool # "run_database_query" \/ result = "refused" THEN unresolved
                        ELSE result = "failed"
       /\ clean' = (clean /\ result = "ok")
       /\ log' = Append(log, [tool |-> call.tool, input |-> call.input, result |-> result])
  /\ Answered
  /\ at' = at + 1 /\ pc' = "tools"
  /\ UNCHANGED <<link, aborted, round, batch, trimmed, length, repaired, terminal>>

ToolAborted ==
  /\ pc = "executing" /\ aborted
  /\ Ends("cancelled")
  /\ UNCHANGED <<link, aborted, loop>>

\* Mutant of Finalizes: a final report ends the turn though a query failed before it.
FinalizesAnyway ==
  /\ Len(batch) > 0 /\ batch[Len(batch)].tool = "create_report" /\ batch[Len(batch)].finalize
  /\ ~trimmed /\ clean /\ ~length

\* A final report that succeeded, last of a round in which all did, is the answer.
Finalizes ==
  /\ Len(batch) > 0 /\ batch[Len(batch)].tool = "create_report" /\ batch[Len(batch)].finalize
  /\ ~trimmed /\ clean /\ ~unresolved /\ ~length

RoundEnds ==
  /\ pc = "tools" /\ at = Len(batch) + 1
  /\ IF Finalizes
     THEN Ends(IF aborted THEN "cancelled" ELSE "completed") /\ UNCHANGED round
     ELSE round' = round + 1 /\ pc' = "context" /\ UNCHANGED terminal
  /\ batch' = <<>> /\ at' = 1 /\ trimmed' = FALSE /\ length' = FALSE /\ clean' = TRUE
  /\ UNCHANGED <<link, aborted, conv, total, failures, unresolved, repaired, log>>

\* Every round is used: a fixed text says that the analysis is incomplete.
BudgetEnds ==
  /\ pc = "context" /\ round = MaxTurnRounds
  /\ Ends("incomplete")
  /\ UNCHANGED <<link, aborted, loop>>

\* The checks at the start of a round, before a call, and in the compaction.
Cancelled ==
  /\ aborted
  /\ \/ pc = "context" /\ round < MaxTurnRounds
     \/ pc = "tools" /\ at <= Len(batch)
  /\ Ends("cancelled")
  /\ UNCHANGED <<link, aborted, loop>>

\* run: an answer is handed over only if the signal has not fired; the connector closes.
RunReturns ==
  /\ pc = "answered"
  /\ pc' = "ended" /\ link' = Release
  /\ terminal' = IF aborted THEN "cancelled" ELSE terminal
  /\ UNCHANGED <<aborted, loop>>

Step ==
  \/ Connects \/ Connected \/ Introspected \/ SchemaSaved \/ DiscoveryTooLong \/ ConnectionFails
  \/ Compact \/ ModelAnswers \/ ModelCalls \/ ModelFails
  \/ RefuseCall \/ StartTool \/ ToolReturns \/ ToolAborted
  \/ RoundEnds \/ BudgetEnds \/ Cancelled \/ RunReturns

Next == Step \/ Abort

Spec == Init /\ [][Next]_vars

\* Every await of the program returns: connecting, the schema and queries have
\* deadlines of their own, the model's stream 120 s.  Nobody has to abort.
FairSpec == Spec /\ WF_vars(Step)

-----------------------------------------------------------------------------
(* Properties.                                                             *)

Replied(i, id) == {j \in 1..Len(conv) : j > i /\ conv[j].role = "tool" /\ conv[j].ids = {id}}

\* A conversation the model's API accepts: the calls of an assistant message are
\* answered by the messages right after it, each once, and nothing else is an answer.
WellFormed ==
  \A i \in 1..Len(conv) :
    /\ conv[i].role = "assistant" =>
         LET n == Cardinality(conv[i].ids) IN
         /\ i + n <= Len(conv)
         /\ \A id \in conv[i].ids : \E j \in (i + 1)..(i + n) : Replied(i, id) = {j}
    /\ conv[i].role = "tool" =>
         \E j \in 1..(i - 1) : conv[j].role = "assistant" /\ conv[i].ids \subseteq conv[j].ids

\* Whatever was refused, cut off by a limit or compacted away, the model is never
\* sent a tool call without its reply or a reply without its call
\* (AgentLoop.ts:186-223, ContextManager.ts:48-53).
ToolCallsAnswered == pc = "model" => WellFormed

\* An input that failed twice is not executed again, however the model spells it,
\* whatever else it tried in between (AgentLoop.ts:217, 259).
NoThirdFailure ==
  \A t \in {c.tool : c \in Calls}, x \in Texts :
    Cardinality({i \in 1..Len(log) : /\ log[i].tool = t /\ log[i].input = x
                                     /\ log[i].result # "ok"}) <= 2

\* What the model is told of its tool calls, and how often it may fail.
ToolCallsAreSound == TypeOK /\ ToolCallsAnswered /\ NoThirdFailure

FailedLast ==
  \E i \in 1..Len(log) :
    /\ log[i].result = "failed"
    /\ \A j \in (i + 1)..Len(log) : log[j].tool # "run_database_query" \/ log[j].result # "ok"

\* A turn is reported as completed only if a query succeeded after the last one the
\* database failed; and with budget left it does not give up on a failed query
\* before the model was told to repair it (AgentLoop.ts:157-173, 382-388).
AnsweredOnEvidence ==
  /\ terminal = "completed" => ~FailedLast
  /\ (pc = "answered" /\ terminal = "incomplete" /\ FailedLast /\ round + 1 < MaxTurnRounds
        /\ total < MaxTotalToolCalls) => repaired

\* The turn ends, whatever fails or is cancelled, and leaves no connection of its own
\* open (webAgentService.ts:151-169, 273).
TurnEnds == <>(pc = "ended" /\ link # "open")

=============================================================================
