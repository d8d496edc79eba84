\* A chat that is deleted under its run.
SPECIFICATION Spec
CONSTANTS
  t1 = t1
  t2 = t2
  t3 = t3
  c1 = c1
  c2 = c2
  o1 = o1
  r1 = r1
  r2 = r2
  Turns = {t1, t2, t3}
  Chats = {c1, c2}
  Owners = {o1}
  ChatOf <- TwoChats
  RequestOf <- Repeated
  OwnerOf <- OneOwner
  AccountActiveLimit = 1
  GlobalActiveLimit = 2
  MaxStarts = 3
CHECK_DEADLOCK FALSE
INVARIANT DeletedForGood
