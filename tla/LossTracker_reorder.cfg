\* A network that drops and reorders packets.
SPECIFICATION Spec
CONSTANTS
  A = A  B = B  f1 = f1  f2 = f2  g = g  ab = ab  ba = ba
  Host = {A, B}
  Flow = {f1, f2, g}
  FlowSrc = {ab, ba}
  FlowSrcOf <- MCFlowSrcOf
  Src <- MCSrc
  Dst <- MCDst
  MaxSeqid <- MCMaxSeqid
  FifoCap = 2
  InOrder = FALSE
  NoFlow = NoFlow
CHECK_DEADLOCK FALSE
SYMMETRY Symmetry
INVARIANTS TypeOK ListIsQueue EachPacketCountedOnce ReceivedWasDelivered LossVolumeIsExact
