\* Deletions while the table is iterated.
SPECIFICATION Spec
CONSTANTS
  Key = {1, 2, 3}
  Value = {1}
  Size = 2
  HashBin <- MCHashBin
  Addr = {a1, a2, a3, a4}
  Writers = {main}
  Scanner = scanner
  Ops = {"set", "del"}
  ReadsUnderLock = FALSE
  NULL = NULL
  Garbage = Garbage
PROPERTY ScanIsComplete
