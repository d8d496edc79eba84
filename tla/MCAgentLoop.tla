----------------------------- MODULE MCAgentLoop -----------------------------
(* A query in two spellings, malformed arguments, a write, a tool that may  *)
(* refuse, and a final report.                                              *)
EXTENDS AgentLoop

MCQuery == [tool |-> "run_database_query", raw |-> "q", input |-> "q", operation |-> "read",
            results |-> {"ok", "failed"}, finalize |-> FALSE]

MCCalls == {
  MCQuery,
  [MCQuery EXCEPT !.raw = "q respelled"],
  [MCQuery EXCEPT !.raw = "half", !.input = "malformed", !.operation = "unknown"],
  [MCQuery EXCEPT !.raw = "w", !.input = "w", !.operation = "write"],
  [tool |-> "create_report", raw |-> "r", input |-> "r", operation |-> "unknown",
   results |-> {"ok", "refused"}, finalize |-> TRUE]}

MCTexts == {"q", "q respelled", "half", "w", "r"}

=============================================================================
