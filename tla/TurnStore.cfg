\* One account that may run one turn, two chats, a request posted twice.
SPECIFICATION StoreSpec
CONSTANTS
  t1 = t1
  t2 = t2
  t3 = t3
  c1 = c1
  c2 = c2
  o1 = o1
  r1 = r1
  r2 = r2
  Workers = {w1, w2}
  Turns = {t1, t2, t3}
  Chats = {c1, c2}
  Owners = {o1}
  Requests = {r1, r2}
  ChatOf <- SharedChatOf
  RequestOf <- RepeatedOf
  OwnerOf <- OneOwnerOf
  AccountActiveLimit = 1
  GlobalActiveLimit = 2
  MaxEvents = 1
  NoWorker = NoWorker
SYMMETRY WorkerSymmetry
CHECK_DEADLOCK FALSE
INVARIANTS ConversationInTurns StopWins WithinCapacity
PROPERTIES ImplementsContract LostWorkerIsFenced
