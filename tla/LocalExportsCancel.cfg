\* One job, cancelled while its file is checked.
SPECIFICATION Spec
CONSTANTS
  j1 = j1
  j2 = j2
  j3 = j3
  o1 = o1
  o2 = o2
  Jobs = {j1}
  Owners = {o1}
  OwnerOf <- JobOwner
  OwnerQuota = 2
  TotalQuota = 3
  Slots = 2
  MaxWaiting = 1
  ShortLived = {j1}
CHECK_DEADLOCK FALSE
PROPERTY CancelIsFinal
