\* A table nothing is deleted from (volumes, losses, loss rates).
SPECIFICATION FairSpec
CONSTANTS
  Key = {1, 2, 3}
  Value = {1}
  Size = 2
  HashBin <- MCHashBin
  Addr = {a1, a2, a3}
  Writers = {main, updator}
  Scanner = scanner
  Ops = {"get", "set"}
  ReadsUnderLock = FALSE
  NULL = NULL
  Garbage = Garbage
INVARIANT GetIsLinearizable
PROPERTIES ScanIsComplete NoFlowReturnedTwice ScanTerminates
