\* From the trace to the tag: two senders, networks of two addresses, five
\* addresses in the trace, so that the networks fill up and overflow.
CONSTANTS
  Ip = {a1, a2, a3, a4, a5}
  NumSenders = 2
  SenderIps = 2
  FirstPrefix = 2
  Garbage = {g1, g2}
  IntMod = 16
  SeqMod = 4
  MaxPayload = 2
  LenMod = 8
  LineLen = {10, 3}
  MaxLines = 3
  Switch = {1, 2, 12}
  TaskFiles <- MCTaskFiles
  Comment = Comment
SYMMETRY MCSymmetry
SPECIFICATION Spec
INVARIANTS MappingIsInjective FilesAreReplayable SeqidsCount TagReadsBack
CHECK_DEADLOCK FALSE
