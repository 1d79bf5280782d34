\* Two threads, two buckets, each with two flows.
SPECIFICATION FairSpec
CHECK_DEADLOCK FALSE
CONSTANTS
  t1 = t1
  t2 = t2
  a1 = a1
  a2 = a2
  b1 = b1
  b2 = b2
  Thread = {t1, t2}
  Scanner = t1
  Flow = {a1, a2, b1, b2}
  Size = 2
  BinOf <- MCBinOf
  M = 2
  ValueMod = 3
  Level <- MCLevel
  Request <- MCRequest
  Replacement = TRUE
  AllocFails = TRUE
  MaxCalls = 4
  NoEntry = NoEntry
INVARIANTS
  TypeOK
  CollisionsNotOvercounted
  ScanFindsStaying
PROPERTIES
  ImplementsCache
  CallsReturn
