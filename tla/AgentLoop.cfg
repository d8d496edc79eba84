SPECIFICATION FairSpec
CONSTANTS
  MaxTurnRounds = 3
  MaxParallelTools = 2
  MaxTotalToolCalls = 4
  KeepRecent = 2
  MaxAsked = 3
  Calls <- MCCalls
  Texts <- MCTexts
  AllowedTools = {"run_database_query", "create_report"}
INVARIANTS
  ToolCallsAreSound
  AnsweredOnEvidence
PROPERTIES
  TurnEnds
CHECK_DEADLOCK FALSE
