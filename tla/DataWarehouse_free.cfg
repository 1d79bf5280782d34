\* One rotation: pointers into the buffer that is reset.
SPECIFICATION Spec
CONSTANTS
  N = 1
  BinOf <- MCOneFlow
  FixedBinOf <- MCOneFlow
  Settings <- MCTagFixed
  VolumeThr = 1
  LossThr = 2
  SelectedLossThr = 1
  RateNum = 1
  RateDen = 2
  MaxPackets = 2
  MaxRotations = 1
  AllocFails = FALSE
INVARIANTS
  ResetBufferIsUseless
