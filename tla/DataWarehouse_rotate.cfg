\* Rotations, with creations of maps that may fail.
SPECIFICATION FairSpec
CHECK_DEADLOCK FALSE
CONSTANTS
  N = 1
  BinOf <- MCOneFlow
  FixedBinOf <- MCOneFlow
  Settings <- MCSettings
  VolumeThr = 1
  LossThr = 2
  SelectedLossThr = 1
  RateNum = 1
  RateDen = 2
  MaxPackets = 2
  MaxRotations = 1
  AllocFails = TRUE
INVARIANTS TypeOK RoundKeepsItsMaps
PROPERTIES MainSends
