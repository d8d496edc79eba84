\* One turn, every call lossy, saves that may commit late.
SPECIFICATION Spec
CONSTANTS
  t1 = t1
  c1 = c1
  o1 = o1
  r1 = r1
  Workers = {w1, w2}
  Turns = {t1}
  Chats = {c1}
  Owners = {o1}
  Requests = {r1}
  ChatOf <- OneChatOf
  RequestOf <- OneRequestOf
  OwnerOf <- OneOwnerOf
  AccountActiveLimit = 2
  GlobalActiveLimit = 2
  MaxEvents = 2
  NoWorker = NoWorker
  LossyOps = {"claim", "save", "complete", "error", "aborted", "finish"}
SYMMETRY WorkerSymmetry
CHECK_DEADLOCK FALSE
INVARIANT AnswerIsSaved
PROPERTY ProgressNeverRegresses
