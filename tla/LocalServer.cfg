\* The store: two turns of a chat, one of them asked again in another, two
\* restarts.  Three jobs of two accounts.  Two previews, or one export, of each
\* of the five connectors.
SPECIFICATION ServerSpec
CONSTANTS
  None = None
  t1 = t1
  t2 = t2
  t3 = t3
  c1 = c1
  c2 = c2
  o1 = o1
  o2 = o2
  r1 = r1
  r2 = r2
  j1 = j1
  j2 = j2
  j3 = j3
  Turns = {t1, t2, t3}
  Chats = {c1, c2}
  Owners = {o1}
  ChatOf <- TwoChats
  RequestOf <- Repeated
  OwnerOf <- OneOwner
  AccountActiveLimit = 1
  GlobalActiveLimit = 2
  MaxStarts = 3
CHECK_DEADLOCK FALSE
INVARIANTS AnswersMatchTurns NothingLeftOpen PublishedIsWhole TruncationIsTold
PROPERTIES KeepsContract QueuedJobsMove Settles
