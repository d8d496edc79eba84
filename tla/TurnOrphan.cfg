\* A lost claim answer under a worker that stays up.
SPECIFICATION FairSpec
CONSTANTS
  t1 = t1
  c1 = c1
  o1 = o1
  r1 = r1
  Workers = {w1}
  Turns = {t1}
  Chats = {c1}
  Owners = {o1}
  Requests = {r1}
  ChatOf <- OneChatOf
  RequestOf <- OneRequestOf
  OwnerOf <- OneOwnerOf
  AccountActiveLimit = 2
  GlobalActiveLimit = 2
  MaxEvents = 0
  NoWorker = NoWorker
  LossyOps = {"claim"}
CHECK_DEADLOCK FALSE
PROPERTY StopTakesEffect
