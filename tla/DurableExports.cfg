\* One export, a worker that may stop or crash and one that stays.
SPECIFICATION FairSpec
CONSTANTS
  e1 = e1
  o1 = o1
  w1 = w1
  w2 = w2
  Exports = {e1}
  Owners = {o1}
  Workers = {w1, w2}
  OwnerOf <- ExportOwner
  WorkerOf <- ExportWorker
  OwnerQuota = 1
  TotalQuota = 1
  Slots = 1
  Mortal = {w1}
  Tokens = {"t1"}
  MaxLate = 1
CHECK_DEADLOCK FALSE
INVARIANT RowsMatchObjects
PROPERTIES WhatIsOverStaysOver ExportsEnd ExportsVanish
