\* A network that drops packets and keeps the order of each flow.
SPECIFICATION FairSpec
CONSTANTS
  A = A  B = B  f1 = f1  f2 = f2  g = g  ab = ab  ba = ba
  Host = {A, B}
  Flow = {f1, f2, g}
  FlowSrc = {ab, ba}
  FlowSrcOf <- MCFlowSrcOf
  Src <- MCSrc
  Dst <- MCDst
  MaxSeqid <- MCOneSender
  FifoCap = 2
  InOrder = TRUE
  NoFlow = NoFlow
CHECK_DEADLOCK FALSE
INVARIANTS OnlyDropsAreLost NoErrorReported
PROPERTY LossIsNoticed
