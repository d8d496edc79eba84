--------------------------- MODULE AgentLoopProofs ---------------------------
(***************************************************************************)
(* What holds of an answer for every budget, every set of tool calls the    *)
(* model may write and every result they may have: what is counted of its   *)
(* calls, and the conversation, which compaction filters and cuts.          *)
(***************************************************************************)
EXTENDS AgentLoop, FilterProofs, FiniteSetTheorems

Tools == {c.tool : c \in Calls}
Record == [tool : Tools, input : Texts, result : {"ok", "failed", "refused"}]

\* The executed calls with tool and input s that did not succeed.
Failed(s) == {i \in 1..Len(log) : /\ log[i].tool = s[1] /\ log[i].input = s[2]
                                  /\ log[i].result # "ok"}

LoopTypes ==
  /\ batch \in Seq(Calls) /\ at \in 1..(Len(batch) + 1)
  /\ total \in Nat /\ round \in Nat
  /\ failures \in [Signatures -> Nat]
  /\ unresolved \in BOOLEAN /\ repaired \in BOOLEAN
  /\ log \in Seq(Record)

\* The calls of the batch still to come fit in the turn's budget.
WithinBudget ==
  /\ total + (Len(batch) + 1 - at) <= MaxTotalToolCalls
  /\ Len(log) <= total

\* A call under execution was not blocked: nothing changes its count meanwhile.
MayExecute ==
  pc = "executing" =>
    /\ at <= Len(batch) /\ call.input # "malformed"
    /\ failures[CallSignature(call)] < 2

\* The program counts at least the failures that happened.
Counted == \A s \in Signatures : Cardinality(Failed(s)) <= 2 /\ Cardinality(Failed(s)) <= failures[s]

\* The program's flag remembers the failed query, and the reason of the end obeys it.
Remembered ==
  /\ FailedLast => unresolved
  /\ terminal # "none" => pc \in {"answered", "ended"}
  /\ terminal = "completed" => ~unresolved
  /\ (pc = "answered" /\ terminal = "incomplete" /\ unresolved /\ round + 1 < MaxTurnRounds
        /\ total < MaxTotalToolCalls) => repaired

LoopInv == LoopTypes /\ WithinBudget /\ MayExecute /\ Counted /\ Remembered

\* Where the answer stands, and what bounds the rounds, their calls and the counts.
Talking == {"start", "connecting", "introspecting", "schema", "context", "model"}
Asking == {"tools", "executing"}
Bounded ==
  /\ pc \in Talking \cup Asking \cup {"answered", "failing", "ended"}
  /\ link \in {"none", "shared", "open", "closed"}
  /\ aborted \in BOOLEAN /\ trimmed \in BOOLEAN /\ length \in BOOLEAN /\ clean \in BOOLEAN
  /\ round \in 0..MaxTurnRounds
  /\ pc \in Asking \cup {"model"} => round < MaxTurnRounds
  /\ Len(batch) <= MaxParallelTools
  /\ \A s \in Signatures : failures[s] <= total
  /\ terminal \in {"none", "completed", "length", "incomplete", "cancelled", "error"}

-----------------------------------------------------------------------------
(* Operators.                                                              *)

\* The least of three integers is one of them and exceeds none.
LEMMA LeastOfThree ==
  ASSUME NEW a \in Int, NEW b \in Int, NEW c \in Int
  PROVE  Min({a, b, c}) \in {a, b, c} /\ Min({a, b, c}) <= a /\ Min({a, b, c}) <= b
           /\ Min({a, b, c}) <= c
<1>1. \E x \in {a, b, c} : \A y \in {a, b, c} : x <= y
  OBVIOUS
<1>2. QED
  BY <1>1 DEF Min

\* A round takes no more calls than the turn has left.
LEMMA PermittedFits ==
  ASSUME AgentAssumption, total \in Nat, total <= MaxTotalToolCalls, NEW asked \in 1..MaxAsked
  PROVE  Permitted(asked) \in Nat /\ total + Permitted(asked) <= MaxTotalToolCalls
<1>1. asked \in Int /\ MaxParallelTools \in Nat /\ MaxTotalToolCalls - total \in Nat /\ asked > 0
      /\ MaxTotalToolCalls \in Nat
  BY DEF AgentAssumption
<1>2. Permitted(asked) \in {asked, MaxParallelTools, MaxTotalToolCalls - total}
      /\ Permitted(asked) <= MaxTotalToolCalls - total
  <2>1. MaxParallelTools \in Int /\ MaxTotalToolCalls - total \in Int
    BY <1>1
  <2>2. QED
    BY <1>1, <2>1, LeastOfThree DEF Permitted
<1>3. Permitted(asked) \in Nat
  BY <1>1, <1>2
<1>4. QED
  BY <1>1, <1>2, <1>3

\* What the model writes is a call with its parts.
LEMMA CallParts ==
  ASSUME AgentAssumption, NEW c \in Calls
  PROVE  /\ c.tool \in Tools /\ c.raw \in Texts /\ c.input \in Texts \cup {"malformed"}
         /\ c.results \subseteq {"ok", "failed", "refused"}
         /\ "failed" \in c.results => c.tool = "run_database_query"
         /\ RawSignature(c) \in Signatures
         /\ c.input # "malformed" => CallSignature(c) \in Signatures
<1>1. c \in Call
  BY DEF AgentAssumption
<1>2. QED
  BY <1>1 DEF AgentAssumption, Call, Tools, RawSignature, CallSignature, Signatures

\* The next call of the batch is one of them.
LEMMA NextCall ==
  ASSUME LoopTypes, at <= Len(batch)
  PROVE  call \in Calls
<1>1. PICK n \in Nat : n = Len(batch)
  BY DEF LoopTypes
<1>2. at \in 1..Len(batch)
  BY <1>1 DEF LoopTypes
<1>3. QED
  BY <1>2 DEF LoopTypes, call

\* One more executed call adds at most itself to the failures of its signature.
LEMMA FailureAdds ==
  ASSUME LoopTypes, NEW r \in Record, log' = Append(log, r), NEW s
  PROVE  /\ Cardinality(Failed(s)) \in Nat
         /\ Cardinality(Failed(s)') \in Nat
         /\ Cardinality(Failed(s)') <= Cardinality(Failed(s)) + 1
         /\ (r.result = "ok" \/ s # <<r.tool, r.input>>) /\ s \in Signatures
               => Failed(s)' = Failed(s)
<1>1. PICK n \in Nat : n = Len(log)
  BY DEF LoopTypes
<1>2. Len(log') = n + 1 /\ log'[n + 1] = r /\ \A i \in 1..n : log'[i] = log[i]
  BY <1>1 DEF LoopTypes
<1>3. Failed(s) \subseteq 1..n /\ IsFiniteSet(Failed(s))
  <2>1. Failed(s) \subseteq 1..n
    BY <1>1 DEF Failed
  <2>2. IsFiniteSet(1..n)
    BY FS_Interval
  <2>3. QED
    BY <2>1, <2>2, FS_Subset
<1>4. Failed(s)' \subseteq Failed(s) \cup {n + 1}
  BY <1>1, <1>2 DEF Failed
<1>5. Failed(s) \subseteq Failed(s)'
  BY <1>1, <1>2 DEF Failed
<1>6. IsFiniteSet(Failed(s) \cup {n + 1})
      /\ Cardinality(Failed(s) \cup {n + 1}) <= Cardinality(Failed(s)) + 1
  <2>1. n + 1 \notin Failed(s)
    BY <1>3
  <2>2. IsFiniteSet(Failed(s) \cup {n + 1})
        /\ Cardinality(Failed(s) \cup {n + 1}) = Cardinality(Failed(s)) + 1
    BY <2>1, <1>3, FS_AddElement
  <2>3. Cardinality(Failed(s)) \in Nat
    BY <1>3, FS_CardinalityType
  <2>4. QED
    BY <2>2, <2>3
<1>7. /\ IsFiniteSet(Failed(s)')
      /\ Cardinality(Failed(s)') <= Cardinality(Failed(s) \cup {n + 1})
  BY <1>4, <1>6, FS_Subset
<1>8. (r.result = "ok" \/ s # <<r.tool, r.input>>) /\ s \in Signatures => n + 1 \notin Failed(s)'
  BY <1>2 DEF Failed, Signatures
<1>9. (r.result = "ok" \/ s # <<r.tool, r.input>>) /\ s \in Signatures => Failed(s)' = Failed(s)
  BY <1>4, <1>5, <1>8
<1>10. Cardinality(Failed(s)) \in Nat /\ Cardinality(Failed(s)') \in Nat
       /\ Cardinality(Failed(s) \cup {n + 1}) \in Nat
  BY <1>3, <1>6, <1>7, FS_CardinalityType
<1>11. QED
  BY <1>6, <1>7, <1>9, <1>10

-----------------------------------------------------------------------------
(* The invariant.                                                          *)

LEMMA LoopInit ==
  ASSUME AgentAssumption, Init
  PROVE  LoopInv
<1>1. LoopTypes
  <2>1. batch \in Seq(Calls) /\ log \in Seq(Record) /\ Len(batch) = 0
    BY DEF Init
  <2>2. at \in 1..(Len(batch) + 1)
    BY <2>1 DEF Init
  <2>3. QED
    BY <2>1, <2>2 DEF Init, LoopTypes
<1>2. WithinBudget
  BY DEF Init, WithinBudget, AgentAssumption
<1>3. MayExecute
  BY DEF Init, MayExecute
<1>4. Counted
  <2> SUFFICES ASSUME NEW s \in Signatures
               PROVE  Cardinality(Failed(s)) <= 2 /\ Cardinality(Failed(s)) <= failures[s]
    BY DEF Counted
  <2>1. Failed(s) = {}
    BY DEF Init, Failed
  <2>2. QED
    BY <2>1, FS_EmptySet DEF Init
<1>5. Remembered
  BY DEF Init, Remembered, FailedLast
<1>6. QED
  BY <1>1, <1>2, <1>3, <1>4, <1>5 DEF LoopInv

\* A step that executes nothing and forgets no failure keeps the count.
LEMMA NothingExecuted ==
  ASSUME LoopInv, log' = log, failures' \in [Signatures -> Nat],
         \A s \in Signatures : failures[s] <= failures'[s]
  PROVE  Counted' /\ (FailedLast' => unresolved)
<1>1. ASSUME NEW s \in Signatures
      PROVE  Cardinality(Failed(s))' <= 2 /\ Cardinality(Failed(s))' <= failures'[s]
  <2>1. Failed(s)' = Failed(s)
    BY DEF Failed
  <2>2. Cardinality(Failed(s)) \in Nat
    <3>1. PICK n \in Nat : n = Len(log)
      BY DEF LoopInv, LoopTypes
    <3>2. Failed(s) \subseteq 1..n
      BY <3>1 DEF Failed
    <3>3. IsFiniteSet(1..n)
      BY FS_Interval
    <3>4. IsFiniteSet(Failed(s))
      BY <3>2, <3>3, FS_Subset
    <3>5. QED
      BY <3>4, FS_CardinalityType
  <2>3. Cardinality(Failed(s)) <= 2 /\ Cardinality(Failed(s)) <= failures[s]
    BY DEF LoopInv, Counted
  <2>4. failures[s] \in Nat /\ failures'[s] \in Nat /\ failures[s] <= failures'[s]
    BY DEF LoopInv, LoopTypes
  <2>5. QED
    BY <2>1, <2>2, <2>3, <2>4
<1>2. FailedLast' = FailedLast
  BY DEF FailedLast
<1>3. QED
  BY <1>1, <1>2 DEF Counted, LoopInv, Remembered

\* A step between the loop's own variables: only pc, terminal and the link move.
LEMMA LoopRests ==
  ASSUME LoopInv, UNCHANGED loop,
         pc' = "executing" => pc = "executing" \/ MayExecute',
         terminal' # "none" => pc' \in {"answered", "ended"},
         terminal' = "completed" => ~unresolved,
         (pc' = "answered" /\ terminal' = "incomplete" /\ unresolved /\ round + 1 < MaxTurnRounds
            /\ total < MaxTotalToolCalls) => repaired
  PROVE  LoopInv'
<1>1. LoopTypes' /\ WithinBudget'
  BY DEF LoopInv, LoopTypes, WithinBudget, loop
<1>2. MayExecute'
  BY DEF LoopInv, MayExecute, loop, call
<1>3. Counted' /\ (FailedLast' => unresolved)
  <2>1. \A s \in Signatures : failures[s] <= failures'[s]
    BY DEF LoopInv, LoopTypes, loop
  <2>2. QED
    BY <2>1, NothingExecuted DEF loop, LoopInv, LoopTypes
<1>4. Remembered'
  BY <1>3 DEF Remembered, loop
<1>5. QED
  BY <1>1, <1>2, <1>3, <1>4 DEF LoopInv

-----------------------------------------------------------------------------
(* The actions that do more.                                               *)

LEMMA ModelAnswersKeeps ==
  ASSUME AgentAssumption, LoopInv, ModelAnswers
  PROVE  LoopInv'
<1>1. LoopTypes' /\ WithinBudget' /\ MayExecute'
  <2>1. pc' \in {"context", "answered"} /\ round' \in {round, round + 1}
        /\ repaired' \in {repaired, TRUE}
    BY DEF ModelAnswers, Ends
  <2>2. UNCHANGED <<batch, at, total, failures, unresolved, log>>
    BY DEF ModelAnswers
  <2>3. round' \in Nat /\ repaired' \in BOOLEAN
    <3>1. round \in Nat /\ repaired \in BOOLEAN
      BY DEF LoopInv, LoopTypes
    <3>2. round' \in Nat
      BY <2>1, <3>1
    <3>3. repaired' \in BOOLEAN
      BY <2>1, <3>1
    <3>4. QED
      BY <3>2, <3>3
  <2>4. QED
    BY <2>1, <2>2, <2>3 DEF LoopInv, LoopTypes, WithinBudget, MayExecute
<1>2. log' = log /\ failures' = failures /\ unresolved' = unresolved
  BY DEF ModelAnswers
<1>3. Counted' /\ (FailedLast' => unresolved)
  <2>1. \A s \in Signatures : failures[s] <= failures'[s]
    BY <1>2 DEF LoopInv, LoopTypes
  <2>2. QED
    BY <2>1, <1>2, NothingExecuted DEF LoopInv, LoopTypes
<1>4. Remembered'
  <2>1. PICK isLength \in BOOLEAN, content \in BOOLEAN :
          IF RepairDue(isLength)
          THEN pc' = "context" /\ terminal' = terminal
          ELSE /\ Ends(IF isLength THEN "length"
                        ELSE IF unresolved \/ ~content THEN "incomplete" ELSE "completed")
               /\ repaired' = repaired /\ round' = round
    BY DEF ModelAnswers
  <2>2. terminal = "none" /\ total' = total
    BY DEF ModelAnswers, LoopInv, Remembered
  <2>3. CASE RepairDue(isLength)
    BY <2>1, <2>2, <2>3, <1>2, <1>3 DEF Remembered
  <2>4. CASE ~RepairDue(isLength)
    <3>1. CASE isLength
      BY <2>1, <2>2, <2>4, <3>1, <1>2, <1>3 DEF Remembered, Ends
    <3>2. CASE ~isLength
      <4>1. unresolved /\ round + 1 < MaxTurnRounds /\ total < MaxTotalToolCalls => repaired
        BY <2>4, <3>2 DEF RepairDue
      <4>2. QED
        BY <2>1, <2>2, <2>4, <3>2, <4>1, <1>2, <1>3 DEF Remembered, Ends
    <3>3. QED
      BY <3>1, <3>2
  <2>5. QED
    BY <2>3, <2>4
<1>5. QED
  BY <1>1, <1>3, <1>4 DEF LoopInv

LEMMA ModelCallsKeeps ==
  ASSUME AgentAssumption, LoopInv, ModelCalls
  PROVE  LoopInv'
<1>1. PICK asked \in 1..MaxAsked : batch' \in [1..Permitted(asked) -> Calls]
  BY DEF ModelCalls
<1>2. total \in Nat /\ total <= MaxTotalToolCalls /\ MaxTotalToolCalls \in Nat
  <2>1. PICK n \in Nat : n = Len(batch)
    BY DEF LoopInv, LoopTypes
  <2>2. QED
    BY <2>1 DEF LoopInv, LoopTypes, WithinBudget, AgentAssumption
<1>3. PICK k \in Nat : k = Permitted(asked) /\ total + k <= MaxTotalToolCalls
  BY <1>2, PermittedFits
<1>4. batch' \in Seq(Calls) /\ Len(batch') = k
  BY <1>1, <1>3
<1>5. at' = 1 /\ total' = total /\ log' = log /\ failures' = failures /\ pc' = "tools"
      /\ unresolved' = unresolved /\ repaired' = repaired /\ terminal' = terminal /\ round' = round
      /\ pc = "model"
  BY DEF ModelCalls
<1>6. LoopTypes'
  <2>1. at' \in 1..(Len(batch') + 1)
    BY <1>3, <1>4, <1>5
  <2>2. QED
    BY <1>4, <1>5, <2>1 DEF LoopInv, LoopTypes
<1>7. WithinBudget'
  BY <1>2, <1>3, <1>4, <1>5 DEF LoopInv, WithinBudget
<1>8. MayExecute'
  BY <1>5 DEF MayExecute
<1>9. Counted' /\ (FailedLast' => unresolved)
  <2>1. \A s \in Signatures : failures[s] <= failures'[s]
    BY <1>5 DEF LoopInv, LoopTypes
  <2>2. QED
    BY <2>1, <1>5, NothingExecuted DEF LoopInv, LoopTypes
<1>10. Remembered'
  BY <1>5, <1>9 DEF LoopInv, Remembered
<1>11. QED
  BY <1>6, <1>7, <1>8, <1>9, <1>10 DEF LoopInv

\* Answering the next call takes it from the batch and from the budget.
LEMMA AnsweredFits ==
  ASSUME LoopInv, AgentAssumption, at <= Len(batch), batch' = batch, at' = at + 1, total' = total + 1
  PROVE  /\ at' \in 1..(Len(batch') + 1)
         /\ total' \in Nat
         /\ total' + (Len(batch') + 1 - at') <= MaxTotalToolCalls
<1>1. PICK n \in Nat : n = Len(batch)
  BY DEF LoopInv, LoopTypes
<1>2. at \in 1..(n + 1) /\ total \in Nat /\ at <= n /\ MaxTotalToolCalls \in Nat
      /\ total + (n + 1 - at) <= MaxTotalToolCalls
  BY <1>1 DEF LoopInv, LoopTypes, WithinBudget, AgentAssumption
<1>3. QED
  BY <1>1, <1>2

LEMMA RefuseCallKeeps ==
  ASSUME AgentAssumption, LoopInv, RefuseCall
  PROVE  LoopInv'
<1>1. call \in Calls
  BY NextCall DEF LoopInv, RefuseCall, Turned
<1>2. RawSignature(call) \in Signatures
  BY <1>1, CallParts
<1>3. failures' \in [Signatures -> Nat] /\ \A s \in Signatures : failures[s] <= failures'[s]
  <2>1. failures \in [Signatures -> Nat]
    BY DEF LoopInv, LoopTypes
  <2>2. failures' = failures
        \/ failures' = [failures EXCEPT ![RawSignature(call)] = @ + 1]
    BY DEF RefuseCall
  <2>3. QED
    BY <2>1, <2>2, <1>2
<1>4. at <= Len(batch) /\ batch' = batch /\ at' = at + 1 /\ total' = total + 1 /\ log' = log
      /\ unresolved' = unresolved /\ repaired' = repaired /\ terminal' = terminal /\ pc' = pc
      /\ pc = "tools" /\ round' = round
  BY DEF RefuseCall, Turned, Answered
<1>5. LoopTypes'
  BY <1>3, <1>4, AnsweredFits DEF LoopInv, LoopTypes
<1>6. WithinBudget'
  <2>1. PICK m \in Nat : m = Len(log)
    BY DEF LoopInv, LoopTypes
  <2>2. Len(log') <= total'
    BY <2>1, <1>4 DEF LoopInv, LoopTypes, WithinBudget
  <2>3. QED
    BY <2>2, <1>4, AnsweredFits DEF WithinBudget
<1>7. MayExecute'
  BY <1>4 DEF MayExecute
<1>8. Counted' /\ (FailedLast' => unresolved)
  BY <1>3, <1>4, NothingExecuted
<1>9. Remembered'
  BY <1>4, <1>8 DEF LoopInv, Remembered
<1>10. QED
  BY <1>5, <1>6, <1>7, <1>8, <1>9 DEF LoopInv

\* The flag after a call: a failed query raises it, only a query that succeeded lowers it.
LEMMA FailureRemembered ==
  ASSUME LoopInv, NEW r \in Record, log' = Append(log, r),
         r.result = "failed" => r.tool = "run_database_query",
         unresolved' = IF r.tool # "run_database_query" \/ r.result = "refused" THEN unresolved
                       ELSE r.result = "failed"
  PROVE  FailedLast' => unresolved'
<1>1. PICK n \in Nat : n = Len(log)
  BY DEF LoopInv, LoopTypes
<1>2. Len(log') = n + 1 /\ log'[n + 1] = r /\ \A i \in 1..n : log'[i] = log[i]
  BY <1>1 DEF LoopInv, LoopTypes
<1>3. SUFFICES ASSUME NEW i \in 1..(n + 1), log'[i].result = "failed",
                      \A j \in (i + 1)..(n + 1) :
                         log'[j].tool # "run_database_query" \/ log'[j].result # "ok"
               PROVE  unresolved'
  BY <1>2 DEF FailedLast
<1>4. CASE i = n + 1
  BY <1>2, <1>3, <1>4
<1>5. CASE i # n + 1
  <2>1. i \in 1..n
    BY <1>5
  <2>2. log[i].result = "failed"
    BY <2>1, <1>2, <1>3
  <2>3. \A j \in (i + 1)..n : log[j].tool # "run_database_query" \/ log[j].result # "ok"
    <3>1. TAKE j \in (i + 1)..n
    <3>2. j \in 1..n /\ j \in (i + 1)..(n + 1)
      BY <2>1
    <3>3. QED
      BY <3>2, <1>2, <1>3
  <2>4. FailedLast
    BY <2>1, <2>2, <2>3, <1>1 DEF FailedLast
  <2>5. unresolved
    BY <2>4 DEF LoopInv, Remembered
  <2>6. n + 1 \in (i + 1)..(n + 1)
    BY <2>1
  <2>7. r.tool # "run_database_query" \/ r.result # "ok"
    BY <2>6, <1>2, <1>3
  <2>8. r.result \in {"ok", "failed", "refused"}
    BY DEF Record
  <2>9. QED
    BY <2>5, <2>7, <2>8
<1>6. QED
  BY <1>4, <1>5

LEMMA ToolReturnsKeeps ==
  ASSUME AgentAssumption, LoopInv, ToolReturns
  PROVE  LoopInv'
<1>1. at <= Len(batch) /\ call.input # "malformed" /\ failures[CallSignature(call)] < 2
  BY DEF LoopInv, MayExecute, ToolReturns
<1>2. call \in Calls
  BY <1>1, NextCall DEF LoopInv
<1>3. PICK result \in call.results :
        /\ failures' = IF result = "ok" THEN failures
                       ELSE [failures EXCEPT ![CallSignature(call)] = @ + 1]
        /\ unresolved' = IF call.tool # "run_database_query" \/ result = "refused" THEN unresolved
                         ELSE result = "failed"
        /\ log' = Append(log, [tool |-> call.tool, input |-> call.input, result |-> result])
  BY DEF ToolReturns
<1> DEFINE r == [tool |-> call.tool, input |-> call.input, result |-> result]
           s0 == CallSignature(call)
<1>4. r \in Record /\ s0 \in Signatures /\ s0 = <<r.tool, r.input>>
      /\ (r.result = "failed" => r.tool = "run_database_query")
  BY <1>1, <1>2, <1>3, CallParts DEF Record, CallSignature
<1>5. batch' = batch /\ at' = at + 1 /\ total' = total + 1
      /\ repaired' = repaired /\ terminal' = terminal /\ pc' = "tools" /\ pc = "executing"
      /\ round' = round
  BY DEF ToolReturns, Answered
<1>6. failures' \in [Signatures -> Nat] /\ failures \in [Signatures -> Nat]
      /\ (r.result # "ok" => failures' = [failures EXCEPT ![s0] = @ + 1])
      /\ (r.result = "ok" => failures' = failures)
  <2>1. failures \in [Signatures -> Nat] /\ s0 \in Signatures /\ r.result = result
    BY <1>4 DEF LoopInv, LoopTypes
  <2>2. (result # "ok" => failures' = [failures EXCEPT ![s0] = @ + 1])
        /\ (result = "ok" => failures' = failures)
    BY <1>3
  <2> HIDE DEF r, s0
  <2> QED
    BY <2>1, <2>2
<1>7. log' = Append(log, r) /\ unresolved' \in BOOLEAN
  BY <1>3 DEF LoopInv, LoopTypes
<1>8. LoopTypes'
  <2>1. log' \in Seq(Record)
    BY <1>4, <1>7 DEF LoopInv, LoopTypes
  <2>2. QED
    BY <2>1, <1>1, <1>5, <1>6, <1>7, AnsweredFits DEF LoopInv, LoopTypes
<1>9. WithinBudget'
  <2>1. PICK m \in Nat : m = Len(log)
    BY DEF LoopInv, LoopTypes
  <2>2. Len(log') = m + 1
    BY <2>1, <1>4, <1>7 DEF LoopInv, LoopTypes
  <2>3. Len(log') <= total'
    BY <2>1, <2>2, <1>5 DEF LoopInv, LoopTypes, WithinBudget
  <2>4. QED
    BY <2>3, <1>1, <1>5, AnsweredFits DEF WithinBudget
<1>10. MayExecute'
  BY <1>5 DEF MayExecute
<1>11. Counted'
  <2> SUFFICES ASSUME NEW s \in Signatures
               PROVE  Cardinality(Failed(s)') <= 2 /\ Cardinality(Failed(s)') <= failures'[s]
    BY DEF Counted
  <2>1. /\ Cardinality(Failed(s)) \in Nat /\ Cardinality(Failed(s)') \in Nat
        /\ Cardinality(Failed(s)') <= Cardinality(Failed(s)) + 1
        /\ (r.result = "ok" \/ s # s0) => Failed(s)' = Failed(s)
    BY <1>4, <1>7, FailureAdds DEF LoopInv
  <2>2. Cardinality(Failed(s)) <= 2 /\ Cardinality(Failed(s)) <= failures[s]
        /\ failures[s] \in Nat /\ failures'[s] \in Nat
    BY <1>6 DEF LoopInv, Counted
  <2>3. CASE r.result = "ok" \/ s # s0
    <3>1. failures'[s] = failures[s]
      BY <2>3, <1>4, <1>6
    <3>2. QED
      BY <3>1, <2>1, <2>2, <2>3
  <2>4. CASE r.result # "ok" /\ s = s0
    <3>1. failures'[s] = failures[s] + 1 /\ failures[s] < 2
      BY <2>4, <1>1, <1>4, <1>6
    <3>2. QED
      BY <3>1, <2>1, <2>2
  <2>5. QED
    BY <2>3, <2>4
<1>12. FailedLast' => unresolved'
  BY <1>3, <1>4, <1>7, FailureRemembered
<1>13. Remembered'
  BY <1>5, <1>12 DEF LoopInv, Remembered
<1>14. QED
  BY <1>8, <1>9, <1>10, <1>11, <1>13 DEF LoopInv

LEMMA RoundEndsKeeps ==
  ASSUME AgentAssumption, LoopInv, RoundEnds
  PROVE  LoopInv'
<1>1. batch' = <<>> /\ at' = 1 /\ total' = total /\ failures' = failures /\ log' = log
      /\ unresolved' = unresolved /\ repaired' = repaired /\ pc = "tools" /\ at = Len(batch) + 1
  BY DEF RoundEnds
<1>2. round' \in Nat /\ pc' \in {"context", "answered"}
      /\ (pc' = "context" => terminal' = terminal)
      /\ (pc' = "answered" => terminal' \in {"cancelled", "completed"} /\ ~unresolved)
  BY DEF RoundEnds, Ends, Finalizes, LoopInv, LoopTypes
<1>3. LoopTypes'
  <2>1. batch' \in Seq(Calls) /\ Len(batch') = 0
    BY <1>1
  <2>2. QED
    BY <2>1, <1>1, <1>2 DEF LoopInv, LoopTypes
<1>4. WithinBudget'
  <2>1. PICK n \in Nat : n = Len(batch)
    BY DEF LoopInv, LoopTypes
  <2>2. Len(batch') = 0
    BY <1>1
  <2>3. QED
    BY <2>1, <2>2, <1>1 DEF LoopInv, LoopTypes, WithinBudget
<1>5. MayExecute'
  BY <1>2 DEF MayExecute
<1>6. Counted' /\ (FailedLast' => unresolved)
  <2>1. \A s \in Signatures : failures[s] <= failures'[s]
    BY <1>1 DEF LoopInv, LoopTypes
  <2>2. QED
    BY <2>1, <1>1, NothingExecuted DEF LoopInv, LoopTypes
<1>7. terminal = "none"
  BY <1>1 DEF LoopInv, Remembered
<1>8. Remembered'
  BY <1>1, <1>2, <1>6, <1>7 DEF Remembered
<1>9. QED
  BY <1>3, <1>4, <1>5, <1>6, <1>8 DEF LoopInv

-----------------------------------------------------------------------------
(* The conversation: after its system message, whole blocks of calls.      *)

\* The calls of message i are answered by the messages right after it.
Block(c, i) ==
  LET n == Cardinality(c[i].ids) IN
  /\ n \in Nat /\ i + n <= Len(c)
  /\ \A j \in (i + 1)..(i + n) : \E id \in c[i].ids : c[j] = Reply(id)
  /\ \A id \in c[i].ids : \E j \in (i + 1)..(i + n) : c[j] = Reply(id)

Within(c, j) ==
  \E i \in 1..(j - 1) : c[i].role = "assistant" /\ j <= i + Cardinality(c[i].ids)

Led(c) == Len(c) > 0 /\ \A i \in 1..Len(c) : c[i].role = "system" <=> i = 1
Blocks(c) == \A i \in 1..Len(c) : c[i].role = "assistant" => Block(c, i)
Called(c) == \A j \in 1..Len(c) : c[j].role = "tool" => Within(c, j)
RepliedOnce(c) ==
  \A j, k \in 1..Len(c) : c[j].role = "tool" /\ c[k].role = "tool" /\ c[j].ids = c[k].ids => j = k
Before(r) == (0..(r - 1)) \X Nat
Past(c, r) == \A i \in 1..Len(c) : c[i].ids \subseteq Before(r)

\* Nothing is to be answered, and the ids are those of rounds before r.
Sound(c, r) ==
  c \in Seq(Message) /\ Led(c) /\ Blocks(c) /\ Called(c) /\ RepliedOnce(c) /\ Past(c, r)

\* Before a round ends: the asked calls over the limit and those before at are answered.
Ids(r, asked) == {<<r, k>> : k \in 1..asked}
Place(asked, n, j) == IF j <= asked - n THEN n + j ELSE j - (asked - n)
Replies(r, asked, n, next) ==
  [j \in 1..(asked - n + next - 1) |-> Reply(<<r, Place(asked, n, j)>>)]
Join(p, m, t) == p \o <<m>> \o t
Asks(c, p, r, asked, n, next) ==
  /\ Sound(p, r) /\ n <= asked
  /\ c = Join(p, Assistant(Ids(r, asked)), Replies(r, asked, n, next))
Underway(c, r, n, next) == \E p \in Seq(Message), asked \in Nat : Asks(c, p, r, asked, n, next)

TalkInv ==
  /\ conv \in Seq(Message)
  /\ pc \in Talking => Sound(conv, round)
  /\ pc \in Asking => Underway(conv, round, Len(batch), at)

LEMMA MessageParts ==
  /\ User \in Message /\ System \in Message
  /\ \A r \in Nat, k \in Nat : Reply(<<r, k>>) \in Message
  /\ \A r \in Nat, n \in Nat : Assistant(Ids(r, n)) \in Message
  /\ \A m \in Message : m.role \in {"system", "user", "assistant", "tool"}
  /\ \A id : Reply(id).role = "tool" /\ Reply(id).ids = {id}
  /\ \A I : Assistant(I).role = "assistant" /\ Assistant(I).ids = I
BY DEF User, System, Reply, Assistant, Message, MessageOf, Ids

\* A sound conversation is one that the model's API accepts.
LEMMA SoundIsWellFormed ==
  ASSUME NEW r, Sound(conv, r)
  PROVE  WellFormed
<1>1. PICK n \in Nat : n = Len(conv)
  BY DEF Sound
<1>2. ASSUME NEW i \in 1..Len(conv), conv[i].role = "assistant"
      PROVE  LET k == Cardinality(conv[i].ids) IN
             /\ i + k <= Len(conv)
             /\ \A id \in conv[i].ids : \E j \in (i + 1)..(i + k) : Replied(i, id) = {j}
  <2>1. PICK k \in Nat : k = Cardinality(conv[i].ids)
    BY <1>2 DEF Sound, Blocks, Block
  <2>2. Block(conv, i)
    BY <1>2 DEF Sound, Blocks
  <2>3. i + k <= n
    BY <1>1, <2>1, <2>2 DEF Block
  <2>4. ASSUME NEW id \in conv[i].ids
        PROVE  \E j \in (i + 1)..(i + k) : Replied(i, id) = {j}
    <3>1. PICK j \in (i + 1)..(i + k) : conv[j] = Reply(id)
      BY <2>1, <2>2 DEF Block
    <3>2. j \in 1..n /\ j > i /\ conv[j].role = "tool" /\ conv[j].ids = {id}
      BY <1>1, <2>1, <2>3, <3>1, MessageParts
    <3>3. j \in Replied(i, id)
      BY <1>1, <3>2 DEF Replied
    <3>4. \A l \in Replied(i, id) : l = j
      BY <1>1, <3>2 DEF Replied, Sound, RepliedOnce
    <3> QED
      BY <3>3, <3>4
  <2> QED
    BY <1>1, <2>1, <2>3, <2>4
<1>3. ASSUME NEW j \in 1..Len(conv), conv[j].role = "tool"
      PROVE  \E i \in 1..(j - 1) : conv[i].role = "assistant" /\ conv[j].ids \subseteq conv[i].ids
  <2>1. PICK i \in 1..(j - 1) : conv[i].role = "assistant" /\ j <= i + Cardinality(conv[i].ids)
    BY <1>3 DEF Sound, Called, Within
  <2>2. j \in (i + 1)..(i + Cardinality(conv[i].ids)) /\ i \in 1..Len(conv) /\ Block(conv, i)
    <3>1. i \in 1..Len(conv)
      BY <1>1, <2>1
    <3>2. Block(conv, i)
      BY <2>1, <3>1 DEF Sound, Blocks
    <3>3. Cardinality(conv[i].ids) \in Nat
      BY <3>2 DEF Block
    <3> QED
      BY <1>1, <2>1, <3>1, <3>2, <3>3
  <2>3. PICK id \in conv[i].ids : conv[j] = Reply(id)
    BY <2>2 DEF Block
  <2> QED
    BY <2>1, <2>3, MessageParts
<1> QED
  BY <1>2, <1>3 DEF WellFormed

LEMMA SoundLater ==
  ASSUME NEW c, NEW r \in Nat, Sound(c, r)
  PROVE  Sound(c, r + 1)
<1>1. Before(r) \subseteq Before(r + 1)
  BY DEF Before
<1> QED
  BY <1>1 DEF Sound, Past

\* A block that is complete stays so when messages follow.
LEMMA BlockStays ==
  ASSUME NEW c \in Seq(Message), NEW d \in Seq(Message), Len(c) <= Len(d),
         \A k \in 1..Len(c) : d[k] = c[k],
         NEW i \in 1..Len(c), Block(c, i)
  PROVE  Block(d, i)
<1>1. PICK n \in Nat : n = Cardinality(c[i].ids)
  BY DEF Block
<1>2. PICK m \in Nat : m = Len(c)
  OBVIOUS
<1>3. d[i] = c[i] /\ i + n <= m /\ Len(d) \in Nat
  BY <1>1, <1>2 DEF Block
<1>4. \A j \in (i + 1)..(i + n) : d[j] = c[j]
  BY <1>2, <1>3
<1>5. i + n <= Len(d)
  BY <1>2, <1>3
<1>6. /\ \A j \in (i + 1)..(i + n) : \E id \in d[i].ids : d[j] = Reply(id)
      /\ \A id \in d[i].ids : \E j \in (i + 1)..(i + n) : d[j] = Reply(id)
  <2>1. /\ \A j \in (i + 1)..(i + n) : \E id \in c[i].ids : c[j] = Reply(id)
        /\ \A id \in c[i].ids : \E j \in (i + 1)..(i + n) : c[j] = Reply(id)
    BY <1>1 DEF Block
  <2>2. \A j \in (i + 1)..(i + n) : \E id \in d[i].ids : d[j] = Reply(id)
    BY <1>3, <1>4, <2>1
  <2>3. ASSUME NEW id \in d[i].ids
        PROVE  \E j \in (i + 1)..(i + n) : d[j] = Reply(id)
    <3>1. PICK j \in (i + 1)..(i + n) : c[j] = Reply(id)
      BY <1>3, <2>1
    <3>2. d[j] = Reply(id)
      BY <1>4, <3>1
    <3> QED
      BY <3>2
  <2> QED
    BY <2>2, <2>3
<1> QED
  BY <1>1, <1>3, <1>5, <1>6 DEF Block

\* d is c, the calls I of round r, and their n replies in some order.
Numbers(f, n, I) ==
  /\ \A k \in 1..n : f[k] \in I
  /\ \A id \in I : \E k \in 1..n : f[k] = id
  /\ \A k, l \in 1..n : f[k] = f[l] => k = l
Adds(c, r, I, n, f, d) ==
  /\ Cardinality(I) = n /\ I \subseteq {r} \X Nat /\ Numbers(f, n, I)
  /\ Len(d) = Len(c) + 1 + n /\ \A i \in 1..Len(c) : d[i] = c[i]
  /\ d[Len(c) + 1] = Assistant(I) /\ \A k \in 1..n : d[Len(c) + 1 + k] = Reply(f[k])

LEMMA BlockAdded ==
  ASSUME NEW r \in Nat, NEW c \in Seq(Message), Sound(c, r),
         NEW n \in Nat, NEW I, NEW f, NEW d \in Seq(Message), Adds(c, r, I, n, f, d)
  PROVE  Sound(d, r + 1)
<1>1. PICK m \in Nat : m = Len(c)
  OBVIOUS
<1>2. Len(d) = m + 1 + n /\ m > 0
  BY <1>1 DEF Sound, Led, Adds
<1>3. \A j \in 1..Len(d) : j \in 1..m \/ j = m + 1 \/ \E k \in 1..n : j = m + 1 + k
  <2> SUFFICES ASSUME NEW j \in 1..Len(d), j \notin 1..m, j # m + 1
               PROVE  \E k \in 1..n : j = m + 1 + k
    OBVIOUS
  <2>1. j - (m + 1) \in 1..n /\ j = m + 1 + (j - (m + 1))
    BY <1>2
  <2> QED
    BY <2>1
<1>4. /\ d[m + 1].role = "assistant" /\ d[m + 1].ids = I
      /\ \A k \in 1..n : d[m + 1 + k].role = "tool" /\ d[m + 1 + k].ids = {f[k]}
      /\ \A i \in 1..m : d[i] = c[i]
  <2>1. d[m + 1] = Assistant(I) /\ \A k \in 1..n : d[m + 1 + k] = Reply(f[k])
    BY <1>1 DEF Adds
  <2>2. \A i \in 1..m : d[i] = c[i]
    BY <1>1 DEF Adds
  <2>3. d[m + 1].role = "assistant" /\ d[m + 1].ids = I
    BY <2>1, MessageParts
  <2>4. \A k \in 1..n : d[m + 1 + k].role = "tool" /\ d[m + 1 + k].ids = {f[k]}
    BY <2>1, MessageParts
  <2> QED
    BY <2>2, <2>3, <2>4
<1>5. Led(d)
  <2>1. \A i \in 1..m : d[i].role = "system" <=> i = 1
    BY <1>1, <1>4 DEF Sound, Led
  <2>2. d[m + 1].role # "system" /\ \A k \in 1..n : d[m + 1 + k].role # "system"
    BY <1>4
  <2>3. m + 1 # 1 /\ \A k \in 1..n : m + 1 + k # 1
    BY <1>2
  <2>4. \A i \in 1..Len(d) : d[i].role = "system" <=> i = 1
    BY <1>3, <2>1, <2>2, <2>3
  <2>5. Len(d) > 0
    BY <1>2
  <2> QED
    BY <2>4, <2>5 DEF Led
<1>6. Blocks(d)
  <2>1. ASSUME NEW i \in 1..m, d[i].role = "assistant"
        PROVE  Block(d, i)
    <3>1. Block(c, i)
      BY <1>1, <1>4, <2>1 DEF Sound, Blocks
    <3>2. Len(c) <= Len(d) /\ i \in 1..Len(c) /\ \A k \in 1..Len(c) : d[k] = c[k]
      BY <1>1, <1>2, <1>4
    <3> QED
      BY <3>1, <3>2, BlockStays
  <2>2. Block(d, m + 1)
    <3>1. Cardinality(d[m + 1].ids) = n /\ m + 1 + n <= Len(d)
      BY <1>2, <1>4 DEF Adds
    <3>2. ASSUME NEW j \in (m + 1 + 1)..(m + 1 + n)
          PROVE  \E id \in I : d[j] = Reply(id)
      <4>1. j - (m + 1) \in 1..n /\ j = m + 1 + (j - (m + 1))
        OBVIOUS
      <4>2. PICK k \in 1..n : j = m + 1 + k
        BY <4>1
      <4>3. f[k] \in I /\ d[j] = Reply(f[k])
        BY <4>2, <1>1 DEF Adds, Numbers
      <4> QED
        BY <4>3
    <3>3. ASSUME NEW id \in I
          PROVE  \E j \in (m + 1 + 1)..(m + 1 + n) : d[j] = Reply(id)
      <4>1. PICK k \in 1..n : f[k] = id
        BY DEF Adds, Numbers
      <4>2. m + 1 + k \in (m + 1 + 1)..(m + 1 + n)
        OBVIOUS
      <4>3. d[m + 1 + k] = Reply(id)
        BY <4>1, <1>1 DEF Adds
      <4> QED
        BY <4>2, <4>3
    <3> QED
      BY <3>1, <3>2, <3>3, <1>4 DEF Block
  <2> QED
    BY <1>3, <1>4, <2>1, <2>2 DEF Blocks
<1>7. Called(d)
  <2>1. ASSUME NEW j \in 1..m, d[j].role = "tool"
        PROVE  Within(d, j)
    <3>1. Within(c, j)
      BY <1>1, <1>4, <2>1 DEF Sound, Called
    <3>2. \A i \in 1..(j - 1) : i \in 1..m
      OBVIOUS
    <3> QED
      BY <3>1, <3>2, <1>4 DEF Within
  <2>2. ASSUME NEW k \in 1..n
        PROVE  Within(d, m + 1 + k)
    <3>1. m + 1 \in 1..(m + 1 + k - 1) /\ m + 1 + k <= m + 1 + Cardinality(d[m + 1].ids)
      BY <1>4 DEF Adds
    <3> QED
      BY <3>1, <1>4 DEF Within
  <2>3. d[m + 1].role # "tool"
    BY <1>4
  <2>4. ASSUME NEW j \in 1..Len(d), d[j].role = "tool"
        PROVE  Within(d, j)
    <3>1. CASE j \in 1..m
      BY <2>1, <2>4, <3>1
    <3>2. CASE j \notin 1..m
      <4>1. PICK k \in 1..n : j = m + 1 + k
        BY <1>3, <2>3, <2>4, <3>2
      <4> QED
        BY <2>2, <4>1
    <3> QED
      BY <3>1, <3>2
  <2> QED
    BY <2>4 DEF Called
<1>8. RepliedOnce(d)
  <2>1. ASSUME NEW j \in 1..m, NEW k \in 1..n, d[j].ids = {f[k]}
        PROVE  FALSE
    <3>1. f[k] \in Before(r)
      <4>1. d[j].ids \subseteq Before(r)
        BY <1>1, <1>4 DEF Sound, Past
      <4> QED
        BY <2>1, <4>1
    <3>2. f[k] \in {r} \X Nat
      BY DEF Adds, Numbers
    <3> QED
      BY <3>1, <3>2 DEF Before
  <2>2. ASSUME NEW j \in 1..m, NEW k \in 1..m, d[j].role = "tool", d[k].role = "tool", d[j].ids = d[k].ids
        PROVE  j = k
    BY <1>1, <1>4, <2>2 DEF Sound, RepliedOnce
  <2>3. ASSUME NEW k \in 1..n, NEW l \in 1..n, {f[k]} = {f[l]}
        PROVE  k = l
    <3>1. f[k] = f[l]
      <4>1. f[k] \in {f[l]}
        BY <2>3
      <4> QED
        BY <4>1
    <3> QED
      BY <3>1 DEF Adds, Numbers
  <2> SUFFICES ASSUME NEW j \in 1..Len(d), NEW k \in 1..Len(d),
                      d[j].role = "tool", d[k].role = "tool", d[j].ids = d[k].ids
               PROVE  j = k
    BY DEF RepliedOnce
  <2>4. j # m + 1 /\ k # m + 1
    BY <1>4
  <2>5. CASE j \in 1..m
    <3>1. CASE k \in 1..m
      BY <2>2, <2>5, <3>1
    <3>2. CASE k \notin 1..m
      <4>1. PICK y \in 1..n : k = m + 1 + y
        BY <1>3, <2>4, <3>2
      <4>2. d[j].ids = {f[y]}
        BY <1>4, <4>1
      <4> QED
        BY <2>1, <2>5, <4>2
    <3> QED
      BY <3>1, <3>2
  <2>6. CASE j \notin 1..m
    <3>1. PICK x \in 1..n : j = m + 1 + x
      BY <1>3, <2>4, <2>6
    <3>2. CASE k \in 1..m
      <4>1. d[k].ids = {f[x]}
        BY <1>4, <3>1
      <4> QED
        BY <2>1, <3>2, <4>1
    <3>3. CASE k \notin 1..m
      <4>1. PICK y \in 1..n : k = m + 1 + y
        BY <1>3, <2>4, <3>3
      <4>2. {f[x]} = {f[y]}
        BY <1>4, <3>1, <4>1
      <4>3. x = y
        BY <2>3, <4>2
      <4> QED
        BY <3>1, <4>1, <4>3
    <3> QED
      BY <3>2, <3>3
  <2> QED
    BY <2>5, <2>6
<1>9. Past(d, r + 1)
  <2>1. Before(r) \subseteq Before(r + 1) /\ I \subseteq Before(r + 1)
        /\ \A k \in 1..n : f[k] \in I
    BY DEF Before, Adds, Numbers
  <2>2. \A i \in 1..m : d[i].ids \subseteq Before(r + 1)
    BY <1>1, <1>4, <2>1 DEF Sound, Past
  <2>3. \A k \in 1..n : d[m + 1 + k].ids \subseteq Before(r + 1)
    <3> SUFFICES ASSUME NEW k \in 1..n
                 PROVE  d[m + 1 + k].ids \subseteq Before(r + 1)
      OBVIOUS
    <3>1. f[k] \in Before(r + 1) /\ d[m + 1 + k].ids = {f[k]}
      BY <1>4, <2>1
    <3> QED
      BY <3>1
  <2> QED
    BY <1>3, <1>4, <2>1, <2>2, <2>3 DEF Past
<1> QED
  BY <1>5, <1>6, <1>7, <1>8, <1>9 DEF Sound

LEMMA UserAdded ==
  ASSUME NEW r \in Nat, NEW c \in Seq(Message), Sound(c, r)
  PROVE  Sound(Append(c, User), r)
<1>1. PICK m \in Nat : m = Len(c)
  OBVIOUS
<1>2. PICK d \in Seq(Message) : d = Append(c, User)
  <2>1. User \in Message
    BY MessageParts
  <2> DEFINE x == User
  <2> HIDE DEF x
  <2>2. x \in Message
    BY <2>1 DEF x
  <2>3. Append(c, x) \in Seq(Message)
    BY <2>2
  <2> QED
    BY <2>3 DEF x
<1>3. /\ Len(d) = m + 1 /\ d[m + 1] = User /\ \A i \in 1..m : d[i] = c[i]
      /\ m > 0 /\ User.role = "user" /\ User.ids = {}
      /\ \A i \in 1..Len(d) : i \in 1..m \/ i = m + 1
  BY <1>1, <1>2 DEF Sound, Led, User
<1>4. Led(d)
  BY <1>1, <1>3 DEF Sound, Led
<1>5. Blocks(d)
  <2>1. ASSUME NEW i \in 1..m, d[i].role = "assistant"
        PROVE  Block(d, i)
    <3>1. Block(c, i)
      BY <1>1, <1>3, <2>1 DEF Sound, Blocks
    <3>2. Len(c) <= Len(d) /\ i \in 1..Len(c) /\ \A k \in 1..Len(c) : d[k] = c[k]
      BY <1>1, <1>3
    <3> QED
      BY <3>1, <3>2, BlockStays
  <2> QED
    BY <1>3, <2>1 DEF Blocks
<1>6. Called(d)
  <2>1. ASSUME NEW j \in 1..m, d[j].role = "tool"
        PROVE  Within(d, j)
    <3>1. Within(c, j)
      BY <1>1, <1>3, <2>1 DEF Sound, Called
    <3>2. \A i \in 1..(j - 1) : i \in 1..m
      OBVIOUS
    <3> QED
      BY <3>1, <3>2, <1>3 DEF Within
  <2> QED
    BY <1>3, <2>1 DEF Called
<1>7. RepliedOnce(d)
  BY <1>1, <1>3 DEF Sound, RepliedOnce
<1>8. Past(d, r)
  BY <1>1, <1>3 DEF Sound, Past
<1> QED
  BY <1>2, <1>4, <1>5, <1>6, <1>7, <1>8 DEF Sound

-----------------------------------------------------------------------------
(* Compaction.                                                             *)

LEMMA GreatestBounded ==
  ASSUME NEW S \in SUBSET Nat, NEW n \in Nat, S # {}, \A x \in S : x <= n
  PROVE  Max(S) \in S
<1> DEFINE T == {n - x : x \in S}
<1>1. T \in SUBSET Nat /\ T # {}
  <2>1. \A x \in S : n - x \in Nat
    OBVIOUS
  <2>2. PICK x \in S : TRUE
    OBVIOUS
  <2>3. n - x \in T
    OBVIOUS
  <2> QED
    BY <2>1, <2>3
<1>2. PICK t \in T : \A u \in T : t <= u
  <2> HIDE DEF T
  <2> QED
    BY <1>1, LeastNatural
<1>3. PICK x \in S : t = n - x
  OBVIOUS
<1>4. ASSUME NEW y \in S
      PROVE  x >= y
  <2>1. n - y \in T
    OBVIOUS
  <2>2. n - x <= n - y
    BY <1>2, <1>3, <2>1
  <2> QED
    BY <2>2
<1> QED
  BY <1>4 DEF Max

\* History is cut before a message that is no reply, or not at all.
LEMMA CutOffFacts ==
  ASSUME NEW h \in Seq(Message), KeepRecent \in Nat \ {0}
  PROVE  /\ CutOff(h) \in Nat
         /\ CutOff(h) = 0 \/ (CutOff(h) < Len(h) /\ h[CutOff(h) + 1].role # "tool")
<1>1. PICK n \in Nat : n = Len(h)
  OBVIOUS
<1> DEFINE start == Max({0, n - KeepRecent})
           Clear(k) == k = 0 \/ k = n \/ h[k + 1].role # "tool"
           S == {k \in 0..start : Clear(k)}
<1>2. start \in {0, n - KeepRecent} /\ start >= 0
  <2>1. \E x \in {0, n - KeepRecent} : \A y \in {0, n - KeepRecent} : x >= y
    OBVIOUS
  <2> QED
    BY <2>1 DEF Max
<1>3. start \in Nat /\ (start = 0 \/ start < n)
  BY <1>2
<1>4. CutOff(h) = Max(S)
  BY <1>1 DEF CutOff
<1> HIDE DEF start
<1>5. S \in SUBSET Nat /\ S # {} /\ \A x \in S : x <= start
  <2>1. 0 \in S
    BY <1>3
  <2> QED
    BY <1>3, <2>1
<1>6. Max(S) \in S
  <2> HIDE DEF S
  <2> QED
    BY <1>3, <1>5, GreatestBounded
<1>7. CutOff(h) \in 0..start /\ Clear(CutOff(h))
  BY <1>4, <1>6
<1> QED
  BY <1>1, <1>3, <1>7

\* What follows a cut before a message that is no reply consists of whole blocks.
Cuts(c, k, d) ==
  /\ k \in Nat \ {0} /\ k + 2 <= Len(c) /\ c[k + 2].role # "tool"
  /\ Len(d) = Len(c) - k + 1 /\ d[1] = c[1] /\ d[2] = User
  /\ \A j \in 3..Len(d) : d[j] = c[j + k - 1]

LEMMA CutSound ==
  ASSUME NEW r \in Nat, NEW c \in Seq(Message), Sound(c, r), NEW k, NEW d \in Seq(Message), Cuts(c, k, d)
  PROVE  Sound(d, r)
<1>1. PICK m \in Nat : m = Len(c)
  OBVIOUS
<1>2. k \in Nat \ {0} /\ k + 2 <= m /\ Len(d) = m - k + 1
  BY <1>1 DEF Cuts
<1>3. /\ d[1].role = "system" /\ d[2].role = "user" /\ d[2].ids = {} /\ d[1] = c[1]
      /\ \A j \in 3..Len(d) : d[j] = c[j + k - 1] /\ j + k - 1 \in 1..m /\ j + k - 1 > 1
  <2>1. c[1].role = "system"
    BY <1>1, <1>2 DEF Sound, Led
  <2>2. \A j \in 3..Len(d) : d[j] = c[j + k - 1]
    BY DEF Cuts
  <2>3. \A j \in 3..Len(d) : j + k - 1 \in 1..m /\ j + k - 1 > 1
    BY <1>2
  <2>4. d[1] = c[1] /\ d[2] = User
    BY DEF Cuts
  <2> QED
    BY <2>1, <2>2, <2>3, <2>4 DEF User
<1>4. \A j \in 1..Len(d) : j = 1 \/ j = 2 \/ j \in 3..Len(d)
  BY <1>2
<1>5. Led(d)
  <2>1. \A j \in 3..Len(d) : d[j].role # "system" /\ j # 1
    BY <1>1, <1>3 DEF Sound, Led
  <2>2. \A j \in 1..Len(d) : d[j].role = "system" <=> j = 1
    BY <1>3, <1>4, <2>1
  <2>3. Len(d) > 0
    BY <1>2
  <2> QED
    BY <2>2, <2>3 DEF Led
<1>6. Blocks(d)
  <2> SUFFICES ASSUME NEW i \in 3..Len(d), d[i].role = "assistant"
               PROVE  Block(d, i)
    BY <1>3, <1>4 DEF Blocks
  <2>1. Block(c, i + k - 1) /\ d[i] = c[i + k - 1]
    BY <1>1, <1>3 DEF Sound, Blocks
  <2>2. PICK n \in Nat : n = Cardinality(d[i].ids)
    BY <2>1 DEF Block
  <2>3. (i + k - 1) + n <= m
    BY <1>1, <2>1, <2>2 DEF Block
  <2>4. i + n <= Len(d)
    BY <1>2, <2>3
  <2>5. \A j \in (i + 1)..(i + n) : /\ d[j] = c[j + k - 1]
                                   /\ j + k - 1 \in ((i + k - 1) + 1)..((i + k - 1) + n)
    BY <1>2, <1>3, <2>4
  <2>6. ASSUME NEW j \in (i + 1)..(i + n)
        PROVE  \E id \in d[i].ids : d[j] = Reply(id)
    <3>1. \A l \in ((i + k - 1) + 1)..((i + k - 1) + n) : \E id \in d[i].ids : c[l] = Reply(id)
      BY <2>1, <2>2 DEF Block
    <3>2. PICK l \in ((i + k - 1) + 1)..((i + k - 1) + n) : l = j + k - 1
      BY <2>5
    <3>3. PICK id \in d[i].ids : c[l] = Reply(id)
      BY <3>1
    <3>4. d[j] = c[l]
      BY <2>5, <3>2
    <3> QED
      BY <3>3, <3>4
  <2>7. ASSUME NEW id \in d[i].ids
        PROVE  \E j \in (i + 1)..(i + n) : d[j] = Reply(id)
    <3>1. PICK l \in ((i + k - 1) + 1)..((i + k - 1) + n) : c[l] = Reply(id)
      BY <2>1, <2>2 DEF Block
    <3>2. l - k + 1 \in (i + 1)..(i + n) /\ (l - k + 1) + k - 1 = l
      BY <1>2
    <3>3. PICK j \in (i + 1)..(i + n) : j + k - 1 = l
      BY <3>2
    <3>4. d[j] = Reply(id)
      BY <2>5, <3>1, <3>3
    <3> QED
      BY <3>4
  <2> QED
    BY <2>2, <2>4, <2>6, <2>7 DEF Block
<1>7. Called(d)
  <2> SUFFICES ASSUME NEW j \in 3..Len(d), d[j].role = "tool"
               PROVE  Within(d, j)
    BY <1>3, <1>4 DEF Called
  <2>1. Within(c, j + k - 1)
    BY <1>1, <1>3 DEF Sound, Called
  <2>2. PICK l \in 1..((j + k - 1) - 1) :
          c[l].role = "assistant" /\ j + k - 1 <= l + Cardinality(c[l].ids)
    BY <2>1 DEF Within
  <2>3. l \in 1..Len(c) /\ Block(c, l)
    <3>1. l \in 1..Len(c)
      BY <1>1, <1>2, <1>3
    <3> QED
      BY <2>2, <3>1 DEF Sound, Blocks
  <2>4. PICK n \in Nat : n = Cardinality(c[l].ids)
    BY <2>3 DEF Block
  <2>5. l >= k + 2
    <3> SUFFICES ASSUME l < k + 2
                 PROVE  FALSE
      BY <1>2
    <3>1. k + 2 \in (l + 1)..(l + n)
      BY <1>2, <2>2, <2>4
    <3>2. PICK id \in c[l].ids : c[k + 2] = Reply(id)
      BY <2>3, <2>4, <3>1 DEF Block
    <3>3. c[k + 2].role = "tool"
      BY <3>2, MessageParts
    <3> QED
      BY <3>3 DEF Cuts
  <2>6. PICK i \in 3..Len(d) : i + k - 1 = l /\ i \in 1..(j - 1)
    <3>1. l - k + 1 \in 3..Len(d) /\ (l - k + 1) + k - 1 = l /\ l - k + 1 \in 1..(j - 1)
      BY <1>2, <2>2, <2>5
    <3> QED
      BY <3>1
  <2>7. d[i] = c[l] /\ j <= i + n
    <3>1. d[i] = c[l]
      BY <1>3, <2>6
    <3>2. j + k - 1 <= l + n
      BY <2>2, <2>4
    <3>3. i \in Nat /\ j \in Nat /\ k \in Nat /\ n \in Nat /\ l = i + k - 1
      BY <1>2, <2>4, <2>6
    <3>4. j <= i + n
      BY <3>2, <3>3
    <3> QED
      BY <3>1, <3>4
  <2> QED
    BY <2>2, <2>4, <2>6, <2>7 DEF Within
<1>8. RepliedOnce(d)
  <2> SUFFICES ASSUME NEW i \in 3..Len(d), NEW j \in 3..Len(d),
                      d[i].role = "tool", d[j].role = "tool", d[i].ids = d[j].ids
               PROVE  i = j
    BY <1>3, <1>4 DEF RepliedOnce
  <2>1. i + k - 1 = j + k - 1
    BY <1>1, <1>3 DEF Sound, RepliedOnce
  <2> QED
    BY <1>2, <2>1
<1>9. Past(d, r)
  <2>1. \A j \in 3..Len(d) : d[j].ids \subseteq Before(r)
    BY <1>1, <1>3 DEF Sound, Past
  <2>2. d[1].ids \subseteq Before(r)
    BY <1>1, <1>2, <1>3 DEF Sound, Past
  <2> QED
    BY <1>3, <1>4, <2>1, <2>2 DEF Past
<1> QED
  BY <1>5, <1>6, <1>7, <1>8, <1>9 DEF Sound

History == MessageOf({"user", "assistant", "tool"})

\* What compaction filters: the system message, and all that follows.
LEMMA Parted ==
  ASSUME NEW r, NEW c \in Seq(Message), Sound(c, r)
  PROVE  \E a \in Message, h \in Seq(Message) :
           /\ c = Put(a, h)
           /\ Filter(c, MessageOf({"system"})) = <<a>>
           /\ Filter(c, History) = h
<1>1. PICK m \in Nat : m = Len(c) /\ m > 0
  BY DEF Sound, Led
<1>2. PICK a \in Message : a = c[1]
  BY <1>1
<1>3. PICK h \in Seq(Message) : h = Tail(c)
  <2>1. c # <<>> /\ c \in Seq(Message)
    BY <1>1
  <2>2. Tail(c) \in Seq(Message)
    BY <2>1, HeadTailProperties
  <2> QED
    BY <2>2
<1>4. Len(h) = m - 1 /\ \A i \in 1..Len(h) : h[i] = c[i + 1] /\ i + 1 \in 1..m
  <2>1. c # <<>> /\ c \in Seq(Message)
    BY <1>1
  <2>2. Len(Tail(c)) = Len(c) - 1 /\ \A i \in 1..Len(Tail(c)) : Tail(c)[i] = c[i + 1]
    BY <2>1, HeadTailProperties
  <2>3. Len(h) = m - 1 /\ \A i \in 1..Len(h) : h[i] = c[i + 1]
    BY <1>1, <1>3, <2>2
  <2> QED
    BY <1>1, <2>3
<1>5. c = Put(a, h)
  <2>1. PICK q \in Seq(Message) : q = Put(a, h)
    BY Headed
  <2>2. Len(q) = m /\ q[1] = a /\ \A i \in 1..Len(h) : q[i + 1] = h[i]
    <3>1. IsPut(q, a, h)
      BY <2>1, Headed
    <3> QED
      BY <1>1, <1>4, <3>1 DEF IsPut
  <2>3. ASSUME NEW i \in 1..m, i # 1
        PROVE  q[i] = c[i]
    <3>1. PICK l \in 1..Len(h) : l + 1 = i
      <4>1. i - 1 \in 1..Len(h) /\ (i - 1) + 1 = i
        BY <1>1, <1>4, <2>3
      <4> QED
        BY <4>1
    <3> QED
      BY <1>4, <2>2, <3>1
  <2>4. \A i \in 1..m : q[i] = c[i]
    BY <1>2, <2>2, <2>3
  <2> QED
    BY <1>1, <2>1, <2>2, <2>4, SeqEqual
<1>6. a \in MessageOf({"system"}) /\ a \notin History
  <2>1. a.role = "system"
    BY <1>1, <1>2 DEF Sound, Led
  <2>2. a = [role |-> "system", ids |-> a.ids] /\ a.ids \in SUBSET (Nat \X Nat)
    BY <2>1 DEF Message, MessageOf
  <2> QED
    BY <2>1, <2>2 DEF MessageOf, History
<1>7. h \in Seq(History)
  <2>1. \A i \in 1..Len(h) : h[i] \in History
    <3> SUFFICES ASSUME NEW i \in 1..Len(h)
                 PROVE  h[i] \in History
      OBVIOUS
    <3>1. h[i] \in Message /\ h[i].role # "system"
      BY <1>1, <1>4 DEF Sound, Led
    <3> QED
      BY <3>1 DEF Message, MessageOf, History
  <2> QED
    BY <2>1
<1>8. History \cap MessageOf({"system"}) = {}
  BY DEF History, MessageOf
<1>9. Filter(h, MessageOf({"system"})) = <<>> /\ Filter(h, History) = h
  BY <1>7, <1>8, FilterNone, FilterAll
<1>10. \A T : Filter(Put(a, h), T) = IF a \in T THEN Put(a, Filter(h, T)) ELSE Filter(h, T)
  BY FilterHead
<1>12. Put(a, <<>>) = <<a>>
  BY DEF Put
<1> QED
  BY <1>5, <1>6, <1>9, <1>10, <1>12

LEMMA CompactionSound ==
  ASSUME NEW r \in Nat, NEW c \in Seq(Message), Sound(c, r), KeepRecent \in Nat \ {0}
  PROVE  Compacted(c) \in Seq(Message) /\ Sound(Compacted(c), r)
<1>1. PICK a \in Message, h \in Seq(Message) :
        /\ c = Put(a, h)
        /\ Filter(c, MessageOf({"system"})) = <<a>>
        /\ Filter(c, History) = h
  BY Parted
<1>2. PICK k \in Nat : k = CutOff(h) /\ (k = 0 \/ (k < Len(h) /\ h[k + 1].role # "tool"))
  BY CutOffFacts
<1>3. Compacted(c) = IF k = 0 THEN c ELSE <<a>> \o <<User>> \o SubSeq(h, k + 1, Len(h))
  BY <1>1, <1>2 DEF Compacted, History
<1>4. CASE k = 0
  BY <1>3, <1>4
<1>5. CASE k # 0
  <2>1. PICK n \in Nat : n = Len(h)
    OBVIOUS
  <2>2. PICK s \in Seq(Message) : s = SubSeq(h, k + 1, n)
    <3>1. \A i \in (k + 1)..n : h[i] \in Message
      BY <1>2, <2>1
    <3>2. SubSeq(h, k + 1, n) \in Seq(Message)
      BY <1>2, <2>1, <3>1, SubSeqProperties
    <3> QED
      BY <3>2
  <2>3. Len(s) = n - k /\ \A i \in 1..(n - k) : s[i] = h[k + i]
    <3>1. k + 1 \in 1..(n + 1) /\ n \in k..n /\ k < n
      BY <1>2, <1>5, <2>1
    <3>2. Len(s) = n - k
      BY <2>1, <2>2, <3>1
    <3>3. \A i \in 1..(n - k) : s[i] = h[k + i]
      BY <2>1, <2>2, <3>1
    <3> QED
      BY <3>2, <3>3
  <2>4. PICK u \in Message : u = User
    BY MessageParts
  <2>5. PICK q \in Seq(Message) : q = Put(u, s)
    BY Headed
  <2>6. PICK d \in Seq(Message) : d = Put(a, q)
    BY Headed
  <2>13. d = <<a>> \o <<u>> \o s
    BY <2>5, <2>6, HeadedTwice
  <2>14. Len(d) = 2 + (n - k) /\ d[1] = a /\ d[2] = u /\ \A j \in 3..Len(d) : d[j] = s[j - 2]
    <3>1. Len(q) = Len(s) + 1 /\ q[1] = u /\ \A i \in 1..Len(s) : q[i + 1] = s[i]
      <4>1. IsPut(q, u, s)
        BY <2>5, Headed
      <4> QED
        BY <4>1 DEF IsPut
    <3>2. Len(d) = Len(q) + 1 /\ d[1] = a /\ \A i \in 1..Len(q) : d[i + 1] = q[i]
      <4>1. IsPut(d, a, q)
        BY <2>6, Headed
      <4> QED
        BY <4>1 DEF IsPut
    <3>3. PICK l \in Nat : l = n - k
      BY <2>3
    <3>4. Len(q) = l + 1 /\ Len(d) = l + 2 /\ d[1 + 1] = u
      BY <2>3, <3>1, <3>2, <3>3
    <3>5. ASSUME NEW j \in 3..Len(d)
          PROVE  d[j] = s[j - 2]
      <4>1. PICK i \in 1..l : i = j - 2
        <5>1. j - 2 \in 1..l
          BY <3>4
        <5> QED
          BY <5>1
      <4>2. d[(i + 1) + 1] = s[i] /\ (i + 1) + 1 = j
        BY <2>3, <3>1, <3>2, <3>3, <3>4, <4>1
      <4> QED
        BY <4>1, <4>2
    <3> QED
      BY <3>2, <3>3, <3>4, <3>5
  <2>7. Len(c) = n + 1 /\ c[1] = a /\ \A i \in 1..n : c[i + 1] = h[i]
    <3>1. IsPut(c, a, h)
      BY <1>1, Headed
    <3> QED
      BY <2>1, <3>1 DEF IsPut
  <2>8. \A j \in 3..Len(d) : d[j] = c[j + k - 1]
    <3> SUFFICES ASSUME NEW j \in 3..Len(d)
                 PROVE  d[j] = c[j + k - 1]
      OBVIOUS
    <3>1. j - 2 \in 1..(n - k) /\ k + (j - 2) \in 1..n /\ (k + (j - 2)) + 1 = j + k - 1
      <4>1. k \in Nat /\ n \in Nat /\ j \in Nat /\ 3 <= j /\ j <= 2 + (n - k)
        BY <1>2, <2>1, <2>14
      <4> QED
        BY <4>1
    <3>2. d[j] = s[j - 2] /\ s[j - 2] = h[k + (j - 2)] /\ c[(k + (j - 2)) + 1] = h[k + (j - 2)]
      BY <2>3, <2>14, <2>7, <3>1
    <3> QED
      BY <3>1, <3>2
  <2>9. k + 2 <= Len(c) /\ c[k + 2] = h[k + 1] /\ h[k + 1].role # "tool"
    <3>1. k + 1 \in 1..n /\ (k + 1) + 1 = k + 2
      BY <1>2, <1>5, <2>1
    <3>2. c[(k + 1) + 1] = h[k + 1]
      BY <2>7, <3>1
    <3> QED
      BY <1>2, <1>5, <2>7, <3>1, <3>2
  <2>10. Len(d) = Len(c) - k + 1
    BY <1>2, <2>1, <2>14, <2>7
  <2>11. Cuts(c, k, d)
    BY <1>5, <2>4, <2>14, <2>7, <2>8, <2>9, <2>10 DEF Cuts
  <2>12. Compacted(c) = d
    BY <1>3, <1>5, <2>1, <2>2, <2>4, <2>13
  <2> QED
    BY <2>11, <2>12, CutSound
<1> QED
  BY <1>4, <1>5

-----------------------------------------------------------------------------
(* A round of calls.                                                       *)

Joined(c, p, m, t) ==
  /\ Len(c) = Len(p) + 1 + Len(t) /\ \A i \in 1..Len(p) : c[i] = p[i]
  /\ c[Len(p) + 1] = m /\ \A k \in 1..Len(t) : c[Len(p) + 1 + k] = t[k]

LEMMA JoinParts ==
  ASSUME NEW p \in Seq(Message), NEW m \in Message, NEW t \in Seq(Message)
  PROVE  Join(p, m, t) \in Seq(Message) /\ Joined(Join(p, m, t), p, m, t)
<1>1. PICK b \in Seq(Message) : b = <<m>> /\ Len(b) = 1 /\ b[1] = m
  <2>1. <<m>> \in Seq(Message) /\ Len(<<m>>) = 1 /\ <<m>>[1] = m
    OBVIOUS
  <2> QED
    BY <2>1
<1>2. PICK q \in Seq(Message) : q = p \o b
  BY ConcatProperties
<1>3. PICK c \in Seq(Message) : c = q \o t
  BY ConcatProperties
<1>4. PICK n \in Nat, l \in Nat : n = Len(p) /\ l = Len(t)
  OBVIOUS
<1>5. Len(q) = n + 1 /\ \A i \in 1..(n + 1) : q[i] = IF i <= n THEN p[i] ELSE b[i - n]
  BY <1>1, <1>2, <1>4
<1>6. Len(c) = n + 1 + l /\ \A i \in 1..(n + 1 + l) : c[i] = IF i <= n + 1 THEN q[i] ELSE t[i - (n + 1)]
  <2>1. /\ Len(q \o t) = Len(q) + Len(t)
        /\ \A i \in 1..(Len(q) + Len(t)) : (q \o t)[i] = IF i <= Len(q) THEN q[i] ELSE t[i - Len(q)]
    BY ConcatProperties
  <2>2. Len(q) = n + 1 /\ Len(t) = l
    BY <1>4, <1>5
  <2> QED
    BY <1>3, <2>1, <2>2
<1>7. \A i \in 1..n : c[i] = p[i]
  <2>1. \A i \in 1..n : i \in 1..(n + 1 + l) /\ i <= n + 1 /\ i \in 1..(n + 1)
    OBVIOUS
  <2>2. \A i \in 1..n : q[i] = p[i]
    BY <1>5, <2>1
  <2>3. \A i \in 1..n : c[i] = q[i]
    BY <1>6, <2>1
  <2> QED
    BY <2>2, <2>3
<1>8. c[n + 1] = m
  <2>1. q[n + 1] = b[1]
    BY <1>5
  <2> QED
    BY <1>1, <1>6, <2>1
<1>9. ASSUME NEW k \in 1..l
      PROVE  c[n + 1 + k] = t[k]
  <2>1. n + 1 + k \in 1..(n + 1 + l) /\ ~(n + 1 + k <= n + 1) /\ (n + 1 + k) - (n + 1) = k
    OBVIOUS
  <2> QED
    BY <1>6, <2>1
<1>10. Joined(c, p, m, t)
  BY <1>4, <1>6, <1>7, <1>8, <1>9 DEF Joined
<1>11. c = Join(p, m, t)
  BY <1>1, <1>2, <1>3 DEF Join
<1> QED
  BY <1>10, <1>11

LEMMA JoinAppend ==
  ASSUME NEW p \in Seq(Message), NEW m \in Message, NEW t \in Seq(Message), NEW e \in Message
  PROVE  Join(p, m, Append(t, e)) = Append(Join(p, m, t), e)
<1>1. PICK q \in Seq(Message) : q = p \o <<m>>
  <2>1. Append(p, m) \in Seq(Message) /\ Append(p, m) = p \o <<m>>
    OBVIOUS
  <2> QED
    BY <2>1
<1>2. q \o Append(t, e) = Append(q \o t, e)
  OBVIOUS
<1> QED
  BY <1>1, <1>2 DEF Join

AreReplies(s, r, asked, n, l) ==
  Len(s) = l /\ \A j \in 1..l : s[j] = Reply(<<r, Place(asked, n, j)>>)

LEMMA RepliesAre ==
  ASSUME NEW r \in Nat, NEW asked \in Nat, NEW n \in Nat, n <= asked, NEW next \in Nat \ {0},
         NEW l, l = asked - n + next - 1
  PROVE  /\ Replies(r, asked, n, next) \in Seq(Message)
         /\ AreReplies(Replies(r, asked, n, next), r, asked, n, l)
<1>1. l \in Nat
  OBVIOUS
<1> DEFINE F(j) == Reply(<<r, Place(asked, n, j)>>)
<1>2. \A j \in 1..l : F(j) \in Message
  <2>1. ASSUME NEW j \in 1..l
        PROVE  Place(asked, n, j) \in Nat
    BY DEF Place
  <2> QED
    BY <2>1, MessageParts
<1> HIDE DEF F
<1>3. [j \in 1..l |-> F(j)] \in Seq(Message) /\ Len([j \in 1..l |-> F(j)]) = l
  BY <1>2
<1>4. Replies(r, asked, n, next) = [j \in 1..l |-> F(j)]
  BY DEF Replies, F
<1>5. Replies(r, asked, n, next) \in Seq(Message) /\ Len(Replies(r, asked, n, next)) = l
  BY <1>3, <1>4
<1>6. \A j \in 1..l : Replies(r, asked, n, next)[j] = F(j)
  BY <1>4
<1> QED
  BY <1>5, <1>6 DEF F, AreReplies

\* A call carried out adds its reply.
LEMMA RepliesGrow ==
  ASSUME NEW r \in Nat, NEW asked \in Nat, NEW n \in Nat, n <= asked, NEW next \in Nat \ {0}
  PROVE  Replies(r, asked, n, next + 1) = Append(Replies(r, asked, n, next), Reply(<<r, next>>))
<1>1. PICK s \in Seq(Message) : s = Replies(r, asked, n, next)
  BY RepliesAre
<1>2. PICK t \in Seq(Message) : t = Replies(r, asked, n, next + 1)
  <2>1. next + 1 \in Nat \ {0}
    OBVIOUS
  <2> QED
    BY <2>1, RepliesAre
<1>3. PICK l \in Nat : l = asked - n + next - 1
  <2>1. asked - n + next - 1 \in Nat
    OBVIOUS
  <2> QED
    BY <2>1
<1>4. Len(s) = l /\ \A j \in 1..l : s[j] = Reply(<<r, Place(asked, n, j)>>)
  <2>1. AreReplies(s, r, asked, n, l)
    BY <1>1, <1>3, RepliesAre
  <2> QED
    BY <2>1 DEF AreReplies
<1>5. Len(t) = l + 1 /\ \A j \in 1..(l + 1) : t[j] = Reply(<<r, Place(asked, n, j)>>)
  <2>1. next + 1 \in Nat \ {0} /\ asked - n + (next + 1) - 1 = l + 1
    BY <1>3
  <2>2. AreReplies(t, r, asked, n, l + 1)
    BY <1>2, <2>1, RepliesAre
  <2> QED
    BY <2>2 DEF AreReplies
<1>6. Place(asked, n, l + 1) = next
  BY <1>3 DEF Place
<1>7. PICK e \in Message : e = Reply(<<r, next>>)
  BY MessageParts
<1>8. t = Append(s, e)
  <2>1. Append(s, e) \in Seq(Message) /\ Len(Append(s, e)) = l + 1
    BY <1>4
  <2>2. Append(s, e)[l + 1] = t[l + 1]
    <3>1. t[l + 1] = e
      BY <1>5, <1>6, <1>7
    <3> QED
      BY <1>4, <3>1
  <2>3. \A j \in 1..l : Append(s, e)[j] = s[j] /\ j \in 1..(l + 1)
    BY <1>4
  <2>4. \A j \in 1..l : s[j] = t[j]
    BY <1>4, <1>5, <2>3
  <2>5. \A j \in 1..(l + 1) : j \in 1..l \/ j = l + 1
    OBVIOUS
  <2>6. \A j \in 1..(l + 1) : Append(s, e)[j] = t[j]
    BY <2>2, <2>3, <2>4, <2>5
  <2> QED
    BY <1>5, <2>1, <2>6, SeqEqual
<1> QED
  BY <1>1, <1>2, <1>7, <1>8

LEMMA UnderwayGrows ==
  ASSUME NEW c, NEW r \in Nat, NEW n \in Nat, NEW next \in Nat \ {0}, Underway(c, r, n, next)
  PROVE  /\ Append(c, Reply(<<r, next>>)) \in Seq(Message)
         /\ Underway(Append(c, Reply(<<r, next>>)), r, n, next + 1)
<1>1. PICK p \in Seq(Message), asked \in Nat : Asks(c, p, r, asked, n, next)
  BY DEF Underway
<1>2. PICK m \in Message : m = Assistant(Ids(r, asked))
  BY MessageParts
<1>3. PICK t \in Seq(Message) : t = Replies(r, asked, n, next)
  <2>1. n <= asked
    BY <1>1 DEF Asks
  <2> QED
    BY <2>1, RepliesAre
<1>4. PICK e \in Message : e = Reply(<<r, next>>)
  BY MessageParts
<1>5. Replies(r, asked, n, next + 1) = Append(t, e)
  BY <1>1, <1>3, <1>4, RepliesGrow DEF Asks
<1>6. c = Join(p, m, t)
  BY <1>1, <1>2, <1>3 DEF Asks
<1>7. Append(c, e) = Join(p, m, Append(t, e))
  BY <1>6, JoinAppend
<1>8. Append(c, e) \in Seq(Message)
  <2>1. PICK d \in Seq(Message) : d = c
    BY <1>6, JoinParts
  <2>2. Append(d, e) \in Seq(Message)
    OBVIOUS
  <2> QED
    BY <2>1, <2>2
<1>9. Asks(Append(c, e), p, r, asked, n, next + 1)
  BY <1>1, <1>2, <1>5, <1>7 DEF Asks
<1> QED
  BY <1>4, <1>8, <1>9 DEF Underway

LEMMA IdsCounted ==
  ASSUME NEW r \in Nat, NEW asked \in Nat
  PROVE  Cardinality(Ids(r, asked)) = asked
<1> DEFINE f == [k \in 1..asked |-> <<r, k>>]
<1>1. f \in [1..asked -> Ids(r, asked)]
  BY DEF Ids
<1>2. \A k, l \in 1..asked : f[k] = f[l] => k = l
  OBVIOUS
<1>3. \A id \in Ids(r, asked) : \E k \in 1..asked : f[k] = id
  BY DEF Ids
<1> HIDE DEF f
<1>4. f \in Bijection(1..asked, Ids(r, asked))
  BY <1>1, <1>2, <1>3 DEF Bijection, Injection, Surjection, IsInjective
<1>5. ExistsBijection(1..asked, Ids(r, asked))
  BY <1>4 DEF ExistsBijection
<1> QED
  BY <1>5, FS_CountingElements

\* When every call has its reply, the round is one more block.
LEMMA UnderwayEnds ==
  ASSUME NEW c, NEW r \in Nat, NEW n \in Nat, Underway(c, r, n, n + 1)
  PROVE  Sound(c, r + 1)
<1>1. PICK p \in Seq(Message), asked \in Nat : Asks(c, p, r, asked, n, n + 1)
  BY DEF Underway
<1>2. PICK m \in Message : m = Assistant(Ids(r, asked))
  BY MessageParts
<1>3. n + 1 \in Nat \ {0} /\ n <= asked /\ asked - n + (n + 1) - 1 = asked
  BY <1>1 DEF Asks
<1>4. PICK t \in Seq(Message) :
        /\ t = Replies(r, asked, n, n + 1) /\ Len(t) = asked
        /\ \A j \in 1..asked : t[j] = Reply(<<r, Place(asked, n, j)>>)
  <2>1. /\ Replies(r, asked, n, n + 1) \in Seq(Message)
        /\ AreReplies(Replies(r, asked, n, n + 1), r, asked, n, asked)
    BY <1>3, RepliesAre
  <2> QED
    BY <2>1 DEF AreReplies
<1>5. c = Join(p, m, t)
  BY <1>1, <1>2, <1>4 DEF Asks
<1>6. c \in Seq(Message) /\ Joined(c, p, m, t)
  BY <1>5, JoinParts
<1> DEFINE f == [j \in 1..asked |-> <<r, Place(asked, n, j)>>]
<1>7. Numbers(f, asked, Ids(r, asked))
  <2>1. \A j \in 1..asked : Place(asked, n, j) \in 1..asked
    BY <1>3 DEF Place
  <2>2. \A j, l \in 1..asked : Place(asked, n, j) = Place(asked, n, l) => j = l
    BY <1>3 DEF Place
  <2>3. ASSUME NEW k \in 1..asked
        PROVE  \E j \in 1..asked : Place(asked, n, j) = k
    <3>1. CASE k > n
      <4>1. k - n \in 1..asked /\ Place(asked, n, k - n) = k
        BY <1>3, <3>1 DEF Place
      <4> QED
        BY <4>1
    <3>2. CASE k <= n
      <4>1. k + (asked - n) \in 1..asked /\ Place(asked, n, k + (asked - n)) = k
        BY <1>3, <3>2 DEF Place
      <4> QED
        BY <4>1
    <3> QED
      BY <3>1, <3>2
  <2>4. \A j \in 1..asked : f[j] \in Ids(r, asked)
    BY <2>1 DEF Ids
  <2>5. \A id \in Ids(r, asked) : \E j \in 1..asked : f[j] = id
    BY <2>3 DEF Ids
  <2>6. \A j, l \in 1..asked : f[j] = f[l] => j = l
    BY <2>2
  <2> QED
    BY <2>4, <2>5, <2>6 DEF Numbers
<1>8. \A j \in 1..asked : t[j] = Reply(f[j])
  BY <1>4
<1> HIDE DEF f
<1>9. Ids(r, asked) \subseteq {r} \X Nat
  BY DEF Ids
<1>10. Adds(p, r, Ids(r, asked), asked, f, c)
  BY <1>2, <1>4, <1>6, <1>7, <1>8, <1>9, IdsCounted DEF Adds, Joined
<1> QED
  BY <1>1, <1>6, <1>10, BlockAdded DEF Asks

-----------------------------------------------------------------------------
(* The conversation in each action.                                        *)

LEMMA TalkInit ==
  ASSUME Init
  PROVE  TalkInv
<1>1. PICK c \in Seq(Message) : c = conv
  <2>1. <<System, User>> \in Seq(Message) /\ <<System, User, Assistant({}), User>> \in Seq(Message)
    <3>1. Assistant({}) \in Message
      BY DEF Assistant, Message, MessageOf
    <3> DEFINE x == System
               y == User
               z == Assistant({})
    <3>2. x \in Message /\ y \in Message /\ z \in Message
      BY <3>1, MessageParts
    <3> HIDE DEF x, y, z
    <3>3. <<x, y>> \in Seq(Message) /\ <<x, y, z, y>> \in Seq(Message)
      BY <3>2
    <3> QED
      BY <3>3 DEF x, y, z
  <2> QED
    BY <2>1 DEF Init
<1>2. /\ Len(c) \in {2, 4} /\ c[1] = System /\ c[2] = User
      /\ Len(c) = 4 => c[3] = Assistant({}) /\ c[4] = User
  <2>1. conv \in {<<System, User>>, <<System, User, Assistant({}), User>>}
    BY DEF Init
  <2> DEFINE x == System
             y == User
             z == Assistant({})
  <2>2. c = <<x, y>> \/ c = <<x, y, z, y>>
    BY <1>1, <2>1
  <2> HIDE DEF x, y, z
  <2>3. Len(c) \in {2, 4} /\ c[1] = x /\ c[2] = y /\ (Len(c) = 4 => c[3] = z /\ c[4] = y)
    BY <2>2
  <2> QED
    BY <2>3 DEF x, y, z
<1>3. \A i \in 1..Len(c) : i = 1 \/ i = 2 \/ (Len(c) = 4 /\ i = 3) \/ (Len(c) = 4 /\ i = 4)
  <2>1. CASE Len(c) = 2
    BY <2>1
  <2>2. CASE Len(c) = 4
    BY <2>2
  <2> QED
    BY <1>2, <2>1, <2>2
<1>4. /\ \A i \in 1..Len(c) : c[i].ids = {} /\ c[i].role # "tool"
      /\ \A i \in 1..Len(c) : c[i].role = "system" <=> i = 1
  BY <1>2, <1>3 DEF System, User, Assistant
<1>5. Led(c) /\ Called(c) /\ RepliedOnce(c) /\ Past(c, 0)
  BY <1>2, <1>4 DEF Led, Called, RepliedOnce, Past
<1>6. Blocks(c)
  <2> SUFFICES ASSUME NEW i \in 1..Len(c)
               PROVE  Block(c, i)
    BY DEF Blocks
  <2>1. Cardinality(c[i].ids) = 0 /\ c[i].ids = {}
    BY <1>4, FS_EmptySet
  <2>2. i + 0 <= Len(c) /\ (i + 1)..(i + 0) = {} /\ 0 \in Nat
    BY <1>2
  <2> QED
    BY <2>1, <2>2 DEF Block
<1>7. Sound(c, 0)
  BY <1>5, <1>6 DEF Sound
<1>8. pc = "start" /\ round = 0
  BY DEF Init
<1> QED
  BY <1>1, <1>7, <1>8 DEF TalkInv, Talking, Asking

\* Nothing is said: the conversation and the round's calls are what they were.
LEMMA TalkRests ==
  ASSUME TalkInv, conv' = conv,
         pc' \in Talking => pc \in Talking /\ round' = round,
         pc' \in Asking => pc \in Asking /\ round' = round /\ batch' = batch /\ at' = at
  PROVE  TalkInv'
<1>1. pc' \in Talking => Sound(conv', round')
  BY DEF TalkInv
<1>2. pc' \in Asking => Underway(conv', round', Len(batch'), at')
  BY DEF TalkInv
<1> QED
  BY <1>1, <1>2 DEF TalkInv

LEMMA CompactTalks ==
  ASSUME AgentAssumption, LoopInv, TalkInv, Compact
  PROVE  TalkInv'
<1>1. round \in Nat /\ KeepRecent \in Nat \ {0}
  BY DEF LoopInv, LoopTypes, AgentAssumption
<1>2. pc = "context" /\ pc' = "model" /\ round' = round /\ conv' \in {conv, Compacted(conv)}
  BY DEF Compact
<1>3. conv \in Seq(Message) /\ Sound(conv, round)
  BY <1>2 DEF TalkInv, Talking
<1>4. Compacted(conv) \in Seq(Message) /\ Sound(Compacted(conv), round)
  BY <1>1, <1>3, CompactionSound
<1>5. conv' \in Seq(Message) /\ Sound(conv', round')
  BY <1>2, <1>3, <1>4
<1>6. pc' \notin Asking
  BY <1>2 DEF Asking
<1> QED
  BY <1>5, <1>6 DEF TalkInv

\* The repair prompt follows an answer that makes no calls.
LEMMA ModelAnswersTalks ==
  ASSUME LoopInv, TalkInv, ModelAnswers
  PROVE  TalkInv'
<1>1. CASE conv' = conv /\ pc' = "answered"
  BY <1>1, TalkRests DEF Talking, Asking
<1>2. CASE conv' = conv \o <<Assistant({}), User>> /\ round' = round + 1 /\ pc' = "context"
  <2>1. round \in Nat /\ conv \in Seq(Message) /\ Sound(conv, round)
    BY DEF LoopInv, LoopTypes, TalkInv, ModelAnswers, Talking
  <2>2. PICK m \in Message, u \in Message : m = Assistant({}) /\ u = User
    BY MessageParts DEF Assistant, Message, MessageOf
  <2>3. PICK d \in Seq(Message) : d = Append(conv, m)
    BY <2>1, AppendProperties
  <2>4. Adds(conv, round, {}, 0, <<>>, d)
    <3>1. Len(d) = Len(conv) + 1 /\ d[Len(conv) + 1] = m /\ \A i \in 1..Len(conv) : d[i] = conv[i]
      BY <2>1, <2>3
    <3>2. Len(conv) + 1 + 0 = Len(conv) + 1 /\ 1..0 = {}
      BY <2>1
    <3>3. Cardinality({}) = 0
      BY FS_EmptySet
    <3>4. Numbers(<<>>, 0, {})
      BY <3>2 DEF Numbers
    <3> QED
      BY <2>2, <3>1, <3>2, <3>3, <3>4 DEF Adds
  <2>5. Sound(d, round + 1)
    BY <2>1, <2>4, BlockAdded
  <2>6. Append(d, u) \in Seq(Message) /\ Sound(Append(d, u), round + 1)
    BY <2>1, <2>2, <2>5, UserAdded
  <2>7. conv \o <<m, u>> = Append(d, u)
    BY <2>1, <2>3
  <2>8. conv' \in Seq(Message) /\ Sound(conv', round')
    BY <1>2, <2>2, <2>6, <2>7
  <2>9. pc' \notin Asking
    BY <1>2 DEF Asking
  <2> QED
    BY <2>8, <2>9 DEF TalkInv
<1> QED
  BY <1>1, <1>2 DEF ModelAnswers, Ends

LEMMA ModelCallsTalks ==
  ASSUME AgentAssumption, LoopInv, TalkInv, ModelCalls
  PROVE  TalkInv'
<1>1. round \in Nat /\ conv \in Seq(Message) /\ Sound(conv, round)
  BY DEF LoopInv, LoopTypes, TalkInv, ModelCalls, Talking
<1>2. total \in Nat /\ total <= MaxTotalToolCalls
  <2>1. PICK n \in Nat : n = Len(batch)
    BY DEF LoopInv, LoopTypes
  <2> QED
    BY <2>1 DEF LoopInv, LoopTypes, WithinBudget, AgentAssumption
<1>3. PICK asked \in 1..MaxAsked :
        /\ batch' \in [1..Permitted(asked) -> Calls]
        /\ conv' = conv \o <<Assistant({<<round, i>> : i \in 1..asked})>>
                        \o [i \in 1..(asked - Permitted(asked)) |-> Reply(<<round, Permitted(asked) + i>>)]
  BY DEF ModelCalls
<1>4. PICK n \in Nat : n = Permitted(asked) /\ n <= asked
  <2>1. Permitted(asked) \in Nat
    BY <1>2, PermittedFits
  <2>2. MaxTotalToolCalls - total \in Int /\ asked \in Int /\ MaxParallelTools \in Int
    BY <1>2 DEF AgentAssumption
  <2>3. Permitted(asked) <= asked
    BY <2>2, LeastOfThree DEF Permitted
  <2> QED
    BY <2>1, <2>3
<1>5. asked \in Nat /\ Len(batch') = n /\ round' = round /\ at' = 1 /\ pc' = "tools"
  BY <1>3, <1>4 DEF ModelCalls
<1>6. [i \in 1..(asked - n) |-> Reply(<<round, n + i>>)] = Replies(round, asked, n, 1)
  <2>1. asked - n + 1 - 1 = asked - n
    BY <1>4, <1>5
  <2>2. \A i \in 1..(asked - n) : Place(asked, n, i) = n + i
    BY <1>4, <1>5 DEF Place
  <2> QED
    BY <2>1, <2>2 DEF Replies
<1>7. conv' = Join(conv, Assistant(Ids(round, asked)), Replies(round, asked, n, 1))
  BY <1>3, <1>4, <1>6 DEF Join, Ids
<1>8. Asks(conv', conv, round, asked, n, 1)
  BY <1>1, <1>4, <1>7 DEF Asks
<1>9. Underway(conv', round, n, 1)
  BY <1>1, <1>5, <1>8 DEF Underway
<1>10. conv' \in Seq(Message)
  <2>1. 1 \in Nat \ {0} /\ Assistant(Ids(round, asked)) \in Message
    BY <1>1, <1>5, MessageParts
  <2>2. Replies(round, asked, n, 1) \in Seq(Message)
    BY <1>1, <1>4, <1>5, <2>1, RepliesAre
  <2> QED
    BY <1>1, <1>7, <2>1, <2>2, JoinParts
<1>11. pc' \notin Talking
  BY <1>5 DEF Talking
<1> QED
  BY <1>5, <1>9, <1>10, <1>11 DEF TalkInv

LEMMA AnsweredTalks ==
  ASSUME LoopInv, TalkInv, Answered, pc \in Asking, pc' = "tools",
         at' = at + 1, round' = round, batch' = batch
  PROVE  TalkInv'
<1>1. PICK n \in Nat : n = Len(batch)
  BY DEF LoopInv, LoopTypes
<1>2. round \in Nat /\ at \in Nat \ {0}
  BY <1>1 DEF LoopInv, LoopTypes
<1>3. Underway(conv, round, n, at)
  BY <1>1 DEF TalkInv
<1>4. /\ Append(conv, Reply(<<round, at>>)) \in Seq(Message)
      /\ Underway(Append(conv, Reply(<<round, at>>)), round, n, at + 1)
  BY <1>2, <1>3, UnderwayGrows
<1>5. conv' = Append(conv, Reply(<<round, at>>))
  BY DEF Answered, Id
<1>6. pc' \notin Talking
  BY DEF Talking
<1> QED
  BY <1>1, <1>4, <1>5, <1>6 DEF TalkInv

LEMMA RoundEndsTalks ==
  ASSUME LoopInv, TalkInv, RoundEnds
  PROVE  TalkInv'
<1>1. PICK n \in Nat : n = Len(batch)
  BY DEF LoopInv, LoopTypes
<1>2. pc = "tools" /\ at = n + 1 /\ conv' = conv /\ round \in Nat
  BY <1>1 DEF RoundEnds, LoopInv, LoopTypes
<1>3. CASE pc' = "answered"
  BY <1>2, <1>3, TalkRests DEF Talking, Asking
<1>4. CASE pc' = "context" /\ round' = round + 1
  <2>1. Underway(conv, round, n, n + 1)
    BY <1>1, <1>2 DEF TalkInv, Asking
  <2>2. Sound(conv, round + 1)
    BY <1>2, <2>1, UnderwayEnds
  <2>3. pc' \notin Asking
    BY <1>4 DEF Asking
  <2> QED
    BY <1>2, <1>4, <2>2, <2>3 DEF TalkInv
<1> QED
  BY <1>3, <1>4 DEF RoundEnds, Ends

LEMMA TalkStep ==
  ASSUME AgentAssumption, LoopInv, TalkInv, [Next]_vars
  PROVE  TalkInv'
<1> USE DEF Talking, Asking
<1>1. CASE Abort
  BY <1>1, TalkRests DEF Abort, loop
<1>2. CASE Connects
  BY <1>2, TalkRests DEF Connects, loop
<1>3. CASE Connected \/ Introspected
  BY <1>3, TalkRests DEF Connected, Introspected, loop
<1>4. CASE SchemaSaved
  BY <1>4, TalkRests DEF SchemaSaved, loop
<1>5. CASE DiscoveryTooLong \/ ConnectionFails
  BY <1>5, TalkRests DEF DiscoveryTooLong, ConnectionFails, loop
<1>6. CASE Compact
  BY <1>6, CompactTalks
<1>7. CASE ModelAnswers
  BY <1>7, ModelAnswersTalks
<1>8. CASE ModelCalls
  BY <1>8, ModelCallsTalks
<1>9. CASE ModelFails \/ ToolAborted \/ BudgetEnds \/ Cancelled
  BY <1>9, TalkRests DEF ModelFails, ToolAborted, BudgetEnds, Cancelled, Ends, loop
<1>10. CASE RefuseCall
  BY <1>10, AnsweredTalks DEF RefuseCall, Turned
<1>11. CASE StartTool
  BY <1>11, TalkRests DEF StartTool, Turned, loop
<1>12. CASE ToolReturns
  BY <1>12, AnsweredTalks DEF ToolReturns
<1>13. CASE RoundEnds
  BY <1>13, RoundEndsTalks
<1>14. CASE RunReturns
  BY <1>14, TalkRests DEF RunReturns, loop
<1>15. CASE UNCHANGED vars
  BY <1>15, TalkRests DEF vars, loop
<1> QED
  BY <1>1, <1>2, <1>3, <1>4, <1>5, <1>6, <1>7, <1>8, <1>9, <1>10, <1>11, <1>12, <1>13, <1>14,
     <1>15 DEF Next, Step

-----------------------------------------------------------------------------
(* The bounds in each action.                                              *)

LEMMA BoundedInit ==
  ASSUME AgentAssumption, Init
  PROVE  Bounded
<1>1. MaxTurnRounds \in Nat \ {0} /\ MaxParallelTools \in Nat \ {0}
  BY DEF AgentAssumption
<1>2. round \in 0..MaxTurnRounds /\ Len(batch) <= MaxParallelTools
  BY <1>1 DEF Init
<1>3. \A s \in Signatures : failures[s] <= total
  BY DEF Init
<1> QED
  BY <1>2, <1>3 DEF Init, Bounded, Talking, Asking

\* Only pc, the link, the signal or the reason moves; the round stays.
LEMMA BoundedRests ==
  ASSUME Bounded, UNCHANGED loop,
         pc' \in Talking \cup Asking \cup {"answered", "failing", "ended"},
         pc' \in Asking \cup {"model"} => round < MaxTurnRounds,
         link' \in {"none", "shared", "open", "closed"}, aborted' \in BOOLEAN,
         terminal' \in {"none", "completed", "length", "incomplete", "cancelled", "error"}
  PROVE  Bounded'
<1>1. /\ round' = round /\ batch' = batch /\ total' = total /\ failures' = failures
      /\ trimmed' = trimmed /\ length' = length /\ clean' = clean
  BY DEF loop
<1> QED
  BY <1>1 DEF Bounded, Talking, Asking

\* A failure that is counted is a call that was answered.
LEMMA FailureCounted ==
  ASSUME LoopInv, Bounded, total' = total + 1, NEW f \in Signatures,
         failures' = failures \/ failures' = [failures EXCEPT ![f] = @ + 1]
  PROVE  \A s \in Signatures : failures'[s] <= total'
<1>1. total \in Nat /\ failures \in [Signatures -> Nat] /\ \A s \in Signatures : failures[s] <= total
  BY DEF LoopInv, LoopTypes, Bounded
<1>2. CASE failures' = failures
  BY <1>1, <1>2
<1>3. CASE failures' = [failures EXCEPT ![f] = @ + 1]
  <2>1. \A s \in Signatures : failures'[s] = IF s = f THEN failures[f] + 1 ELSE failures[s]
    BY <1>1, <1>3
  <2> QED
    BY <1>1, <2>1
<1> QED
  BY <1>2, <1>3

LEMMA BoundedStep ==
  ASSUME AgentAssumption, LoopInv, Bounded, [Next]_vars
  PROVE  Bounded'
<1> USE DEF Talking, Asking
<1>1. CASE Abort
  BY <1>1, BoundedRests DEF Abort, Bounded
<1>2. CASE Connects
  <2>1. link' \in {"none", "shared", "open", "closed"} /\ pc' \in {"schema", "connecting"}
    BY <1>2 DEF Connects, Bounded
  <2> QED
    BY <1>2, <2>1, BoundedRests DEF Connects, Bounded
<1>3. CASE Connected \/ Introspected
  BY <1>3, BoundedRests DEF Connected, Introspected, Bounded
<1>4. CASE SchemaSaved
  BY <1>4, BoundedRests DEF SchemaSaved, Release, Bounded
<1>5. CASE DiscoveryTooLong \/ ConnectionFails
  BY <1>5, BoundedRests DEF DiscoveryTooLong, ConnectionFails, Release, Bounded
<1>6. CASE Compact
  <2>1. round < MaxTurnRounds /\ pc' = "model"
    BY <1>6 DEF Compact
  <2> QED
    BY <1>6, <2>1 DEF Compact, Bounded
<1>7. CASE ModelAnswers
  <2>1. round \in 0..MaxTurnRounds /\ MaxTurnRounds \in Nat
    BY DEF Bounded, AgentAssumption
  <2>2. /\ round' \in 0..MaxTurnRounds /\ pc' \in {"context", "answered"}
        /\ terminal' \in {terminal, "length", "incomplete", "completed"}
    BY <1>7, <2>1 DEF ModelAnswers, RepairDue, Ends, Bounded
  <2>3. /\ UNCHANGED <<link, aborted, batch, trimmed, length, clean, total, failures>>
    BY <1>7 DEF ModelAnswers
  <2> QED
    BY <2>2, <2>3 DEF Bounded
<1>8. CASE ModelCalls
  <2>1. PICK asked \in 1..MaxAsked :
          batch' \in [1..Permitted(asked) -> Calls] /\ trimmed' = (Permitted(asked) < asked)
    BY <1>8 DEF ModelCalls
  <2>2. total \in Nat /\ total <= MaxTotalToolCalls
    <3>1. PICK n \in Nat : n = Len(batch)
      BY DEF LoopInv, LoopTypes
    <3> QED
      BY <3>1 DEF LoopInv, LoopTypes, WithinBudget, AgentAssumption
  <2>3. Permitted(asked) \in Nat /\ Permitted(asked) <= MaxParallelTools
    <3>1. asked \in Int /\ MaxParallelTools \in Int /\ MaxTotalToolCalls - total \in Int
      BY <2>2 DEF AgentAssumption
    <3> QED
      BY <2>2, <3>1, PermittedFits, LeastOfThree DEF Permitted
  <2>4. Len(batch') <= MaxParallelTools /\ trimmed' \in BOOLEAN
    BY <2>1, <2>3
  <2>5. /\ UNCHANGED <<link, aborted, round, total, failures, terminal>>
        /\ length' \in BOOLEAN /\ clean' = TRUE /\ pc = "model" /\ pc' = "tools"
    BY <1>8 DEF ModelCalls
  <2> QED
    BY <2>4, <2>5 DEF Bounded
<1>9. CASE ModelFails \/ ToolAborted \/ Cancelled
  BY <1>9, BoundedRests DEF ModelFails, ToolAborted, Cancelled, Ends, Bounded
<1>10. CASE BudgetEnds
  BY <1>10, BoundedRests DEF BudgetEnds, Ends, Bounded
<1>11. CASE RefuseCall
  <2>1. call \in Calls
    BY <1>11, NextCall DEF RefuseCall, Turned, LoopInv
  <2>2. RawSignature(call) \in Signatures
    BY <2>1, CallParts
  <2>3. failures' = failures \/ failures' = [failures EXCEPT ![RawSignature(call)] = @ + 1]
    BY <1>11 DEF RefuseCall
  <2>4. \A s \in Signatures : failures'[s] <= total'
    BY <1>11, <2>2, <2>3, FailureCounted DEF RefuseCall, Answered
  <2>5. /\ UNCHANGED <<pc, link, aborted, round, batch, trimmed, length, terminal>>
        /\ clean' = FALSE
    BY <1>11 DEF RefuseCall
  <2> QED
    BY <2>4, <2>5 DEF Bounded
<1>12. CASE StartTool
  BY <1>12, BoundedRests DEF StartTool, Turned, Bounded
<1>13. CASE ToolReturns
  <2>1. call \in Calls /\ call.input # "malformed"
    BY <1>13, NextCall DEF ToolReturns, LoopInv, MayExecute
  <2>2. CallSignature(call) \in Signatures
    BY <2>1, CallParts
  <2>3. failures' = failures \/ failures' = [failures EXCEPT ![CallSignature(call)] = @ + 1]
    BY <1>13 DEF ToolReturns
  <2>4. \A s \in Signatures : failures'[s] <= total'
    BY <1>13, <2>2, <2>3, FailureCounted DEF ToolReturns, Answered
  <2>5. /\ UNCHANGED <<link, aborted, round, batch, trimmed, length, terminal>>
        /\ pc = "executing" /\ pc' = "tools"
    BY <1>13 DEF ToolReturns
  <2>6. clean' \in BOOLEAN
    BY <1>13 DEF ToolReturns, Bounded
  <2> QED
    BY <2>4, <2>5, <2>6 DEF Bounded
<1>14. CASE RoundEnds
  <2>1. /\ UNCHANGED <<link, aborted, total, failures>> /\ pc = "tools"
        /\ batch' = <<>> /\ trimmed' = FALSE /\ length' = FALSE /\ clean' = TRUE
    BY <1>14 DEF RoundEnds
  <2>2. round \in 0..MaxTurnRounds /\ round < MaxTurnRounds /\ MaxTurnRounds \in Nat
    BY <2>1 DEF Bounded, AgentAssumption
  <2>3. /\ round' \in 0..MaxTurnRounds /\ pc' \in {"context", "answered"}
        /\ terminal' \in {terminal, "cancelled", "completed"}
    BY <1>14, <2>2 DEF RoundEnds, Ends
  <2>4. Len(batch') <= MaxParallelTools
    BY <2>1 DEF AgentAssumption
  <2> QED
    BY <2>1, <2>3, <2>4 DEF Bounded
<1>15. CASE RunReturns
  BY <1>15, BoundedRests DEF RunReturns, Release, Bounded
<1>16. CASE UNCHANGED vars
  BY <1>16, BoundedRests DEF vars, Bounded
<1> QED
  BY <1>1, <1>2, <1>3, <1>4, <1>5, <1>6, <1>7, <1>8, <1>9, <1>10, <1>11, <1>12, <1>13, <1>14,
     <1>15, <1>16 DEF Next, Step

-----------------------------------------------------------------------------
(* The theorems.                                                           *)

\* Every step of the answer and every abort keeps the invariant.
LEMMA LoopStep ==
  ASSUME AgentAssumption, LoopInv, [Next]_vars
  PROVE  LoopInv'
<1> USE DEF LoopInv, Remembered
<1>1. CASE Abort
  BY <1>1, LoopRests DEF Abort
<1>2. CASE Connects
  BY <1>2, LoopRests DEF Connects
<1>3. CASE Connected
  BY <1>3, LoopRests DEF Connected
<1>4. CASE Introspected
  BY <1>4, LoopRests DEF Introspected
<1>5. CASE SchemaSaved
  BY <1>5, LoopRests DEF SchemaSaved
<1>6. CASE DiscoveryTooLong
  BY <1>6, LoopRests DEF DiscoveryTooLong
<1>7. CASE ConnectionFails
  BY <1>7, LoopRests DEF ConnectionFails
<1>8. CASE Compact
  <2>1. LoopTypes' /\ WithinBudget' /\ MayExecute'
    BY <1>8 DEF Compact, LoopTypes, WithinBudget, MayExecute
  <2>2. \A s \in Signatures : failures[s] <= failures'[s]
    BY <1>8 DEF Compact, LoopTypes
  <2>3. Counted' /\ (FailedLast' => unresolved)
    BY <1>8, <2>2, NothingExecuted DEF Compact, LoopTypes
  <2>4. QED
    BY <1>8, <2>1, <2>3 DEF Compact
<1>9. CASE ModelAnswers
  BY <1>9, ModelAnswersKeeps
<1>10. CASE ModelCalls
  BY <1>10, ModelCallsKeeps
<1>11. CASE ModelFails
  BY <1>11, LoopRests DEF ModelFails, Ends
<1>12. CASE RefuseCall
  BY <1>12, RefuseCallKeeps
<1>13. CASE StartTool
  <2>1. call \in Calls /\ at <= Len(batch)
    BY <1>13, NextCall DEF StartTool, Turned
  <2>2. CallSignature(call) \in Signatures /\ failures[CallSignature(call)] \in Nat
    BY <1>13, <2>1, CallParts DEF StartTool, LoopTypes
  <2>3. call.input # "malformed" /\ failures[CallSignature(call)] < 2
    BY <1>13, <2>2 DEF StartTool, Blocked
  <2>4. MayExecute'
    BY <1>13, <2>1, <2>3 DEF StartTool, MayExecute, loop, call, CallSignature
  <2>5. UNCHANGED loop /\ terminal' = terminal /\ pc' = "executing" /\ terminal = "none"
    BY <1>13 DEF StartTool, Turned
  <2>6. QED
    BY <2>4, <2>5, LoopRests
<1>14. CASE ToolReturns
  BY <1>14, ToolReturnsKeeps
<1>15. CASE ToolAborted
  BY <1>15, LoopRests DEF ToolAborted, Ends
<1>16. CASE RoundEnds
  BY <1>16, RoundEndsKeeps
<1>17. CASE BudgetEnds
  <2>1. ~(round + 1 < MaxTurnRounds)
    BY <1>17 DEF BudgetEnds, AgentAssumption
  <2>2. QED
    BY <1>17, <2>1, LoopRests DEF BudgetEnds, Ends
<1>18. CASE Cancelled
  BY <1>18, LoopRests DEF Cancelled, Ends
<1>19. CASE RunReturns
  BY <1>19, LoopRests DEF RunReturns
<1>20. CASE UNCHANGED vars
  BY <1>20, LoopRests DEF vars
<1>21. QED
  BY <1>1, <1>2, <1>3, <1>4, <1>5, <1>6, <1>7, <1>8, <1>9, <1>10, <1>11, <1>12, <1>13, <1>14,
     <1>15, <1>16, <1>17, <1>18, <1>19, <1>20 DEF Next, Step

\* The loop's bookkeeping: budgets, counted failures and the remembered failed query
\* (AgentLoop.ts:157-259).
THEOREM LoopInvHolds == Spec => []LoopInv
<1>1. Init => LoopInv
  BY AgentAssumption, LoopInit
<1>2. LoopInv /\ [Next]_vars => LoopInv'
  BY AgentAssumption, LoopStep
<1>3. QED
  BY <1>1, <1>2, PTL DEF Spec

\* A completed turn rests on a query that succeeded after the last failed one, and
\* nothing is given up before the repair (AgentLoop.ts:157-173, 382-388).
THEOREM AnswersRestOnEvidence == Spec => []AnsweredOnEvidence
<1>1. LoopInv => AnsweredOnEvidence
  BY DEF LoopInv, Remembered, AnsweredOnEvidence
<1>2. QED
  BY <1>1, LoopInvHolds, PTL

\* No input fails a third time, and no turn executes more calls than its budget
\* (AgentLoop.ts:186-217, 259).
THEOREM FailuresAreBounded ==
  Spec => [](NoThirdFailure /\ Len(log) <= MaxTotalToolCalls)
<1>1. ASSUME LoopInv PROVE NoThirdFailure
  <2> SUFFICES ASSUME NEW t \in {c.tool : c \in Calls}, NEW x \in Texts
               PROVE  Cardinality({i \in 1..Len(log) : /\ log[i].tool = t /\ log[i].input = x
                                                       /\ log[i].result # "ok"}) <= 2
    BY DEF NoThirdFailure
  <2>1. <<t, x>> \in Signatures
    BY DEF Signatures
  <2>2. Failed(<<t, x>>) = {i \in 1..Len(log) : /\ log[i].tool = t /\ log[i].input = x
                                               /\ log[i].result # "ok"}
    BY DEF Failed
  <2>3. QED
    BY <1>1, <2>1, <2>2 DEF LoopInv, Counted
<1>2. ASSUME LoopInv PROVE Len(log) <= MaxTotalToolCalls
  <2>1. PICK n \in Nat : n = Len(batch)
    BY <1>2 DEF LoopInv, LoopTypes
  <2>2. PICK m \in Nat : m = Len(log)
    BY <1>2 DEF LoopInv, LoopTypes
  <2>3. QED
    BY <1>2, <2>1, <2>2, AgentAssumption DEF LoopInv, LoopTypes, WithinBudget, AgentAssumption
<1>3. QED
  BY <1>1, <1>2, LoopInvHolds, PTL

\* With the conversation, which the loop's bookkeeping supports.
AgentInv == LoopInv /\ Bounded /\ TalkInv

THEOREM AgentInvHolds == Spec => []AgentInv
<1>1. Init => AgentInv
  BY AgentAssumption, LoopInit, BoundedInit, TalkInit DEF AgentInv
<1>2. AgentInv /\ [Next]_vars => AgentInv'
  BY AgentAssumption, LoopStep, BoundedStep, TalkStep DEF AgentInv
<1>3. QED
  BY <1>1, <1>2, PTL DEF Spec

LEMMA AgentTypes ==
  ASSUME AgentAssumption, AgentInv
  PROVE  TypeOK
<1>1. PICK n \in Nat, m \in Nat : n = Len(batch) /\ m = Len(log)
  BY DEF AgentInv, LoopInv, LoopTypes
<1>2. /\ MaxTotalToolCalls \in Nat /\ MaxParallelTools \in Nat /\ total \in Nat
      /\ at \in 1..(n + 1) /\ n <= MaxParallelTools
      /\ total + (n + 1 - at) <= MaxTotalToolCalls /\ m <= total
  BY <1>1 DEF AgentInv, LoopInv, LoopTypes, WithinBudget, Bounded, AgentAssumption
<1>3. total \in 0..MaxTotalToolCalls /\ at \in 1..(MaxParallelTools + 1) /\ m <= MaxTotalToolCalls
  BY <1>2
<1>4. failures \in [Signatures -> 0..MaxTotalToolCalls]
  <2>1. failures \in [Signatures -> Nat] /\ \A s \in Signatures : failures[s] <= total
    BY DEF AgentInv, LoopInv, LoopTypes, Bounded
  <2>2. \A s \in Signatures : failures[s] \in 0..MaxTotalToolCalls
    BY <1>3, <2>1
  <2> QED
    BY <2>1, <2>2
<1>5. conv \in Seq(Message)
  BY DEF AgentInv, TalkInv
<1>6. \A i \in 1..Len(batch) : batch[i] \in Calls
  BY <1>1 DEF AgentInv, LoopInv, LoopTypes
<1>7. {trimmed, length, clean, unresolved, repaired} \subseteq BOOLEAN
  BY DEF AgentInv, Bounded, LoopInv, LoopTypes
<1> QED
  BY <1>1, <1>2, <1>3, <1>4, <1>5, <1>6, <1>7 DEF TypeOK, AgentInv, Bounded, Talking, Asking

\* The model is never sent a tool call without its one reply, or a reply without its
\* call, whatever was refused, cut off or compacted away; and no input fails a third
\* time (AgentLoop.ts:186-223, 259, ContextManager.ts:48-53).
THEOREM ToolCallsSound == Spec => []ToolCallsAreSound
<1>1. AgentInv => TypeOK
  BY AgentAssumption, AgentTypes
<1>2. AgentInv => ToolCallsAnswered
  <2> SUFFICES ASSUME AgentInv, pc = "model"
               PROVE  WellFormed
    BY DEF ToolCallsAnswered
  <2>1. Sound(conv, round)
    BY DEF AgentInv, TalkInv, Talking
  <2> QED
    BY <2>1, SoundIsWellFormed
<1>3. QED
  BY <1>1, <1>2, AgentInvHolds, FailuresAreBounded, PTL DEF ToolCallsAreSound

=============================================================================
