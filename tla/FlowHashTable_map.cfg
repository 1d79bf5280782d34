\* vFloat: get copies the value while it holds the bin; two writers and the
\* iterating thread.
SPECIFICATION Spec
CONSTANTS
  Key = {1, 2, 3}
  Value = {1, 2}
  Size = 2
  HashBin <- MCHashBin
  Addr = {a1, a2, a3}
  Writers = {main, updator}
  Scanner = scanner
  Ops = {"get", "set", "del"}
  ReadsUnderLock = TRUE
  NULL = NULL
  Garbage = Garbage
SYMMETRY Symmetry
INVARIANTS TypeOK ChainsSorted UnlinkedIsPrivate GetIsLinearizable
PROPERTIES ImplementsMap CallsActOnTheirFlow
