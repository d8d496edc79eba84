SPECIFICATION FairSpec
CONSTANTS
  Assets = {"f1", "f2"}
  Conns = {"c1", "c2"}
  Workers = {"w1", "w2"}
  UploadedBy <- MCUploadedBy
  Old = {"f1"}
  FileLimit = 2
  Mortal = {"w1"}
  MaxFaults = 1
INVARIANTS
  FilesAreSafe
  ErasedAfterWork
PROPERTIES
  CleanupEnds
CHECK_DEADLOCK FALSE
