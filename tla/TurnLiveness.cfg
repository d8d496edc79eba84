\* Liveness while no claim answer and no acknowledgement is lost.
SPECIFICATION FairSpec
CONSTANTS
  t1 = t1
  c1 = c1
  o1 = o1
  r1 = r1
  Workers = {w1, w2}
  Turns = {t1}
  Chats = {c1}
  Owners = {o1}
  Requests = {r1}
  ChatOf <- OneChatOf
  RequestOf <- OneRequestOf
  OwnerOf <- OneOwnerOf
  AccountActiveLimit = 2
  GlobalActiveLimit = 2
  MaxEvents = 1
  NoWorker = NoWorker
  LossyOps = {"save", "complete", "error", "aborted"}
CHECK_DEADLOCK FALSE
PROPERTY AcceptedTurnsEnd
