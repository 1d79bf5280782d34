\* Levels that change during a round.
SPECIFICATION Spec
CONSTANTS
  N = 1
  BinOf <- MCOneFlow
  FixedBinOf <- MCOneFlow
  Settings <- MCInject
  VolumeThr = 1
  LossThr = 2
  SelectedLossThr = 1
  RateNum = 1
  RateDen = 2
  MaxPackets = 4
  MaxRotations = 0
  AllocFails = FALSE
INVARIANTS
  RemembersWhatItSent
