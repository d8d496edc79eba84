SPECIFICATION PartsSpec
CONSTANTS
  LeaseMs = 5
  HeartbeatMs = 2
  MaxTime = 12
  None = None
  Gone = Gone
  t1 = t1
  t2 = t2
  t3 = t3
  c1 = c1
  c2 = c2
  o1 = o1
  o2 = o2
  r1 = r1
  r2 = r2
CHECK_DEADLOCK FALSE
INVARIANTS ReadyHasLease SessionsLast ReadIsWhole PagesAreRight QuestionsAreRight EvidenceIsTold SlotsAreBounded OnlyVerifiedBlocks DrainIsComplete AnswerIsWhole QueriesAreRead UploadsAreSafe
PROPERTY LeaseNeverRevives
