\* The first interval, two flows with a bin each that share a bucket of the map
\* of fixed size; the trace ends after MaxPackets packets and then nothing more
\* need happen.  Five packets select both flows and deselect the first one.
SPECIFICATION FairSpec
CHECK_DEADLOCK FALSE
CONSTANTS
  N = 2
  BinOf <- MCTwoBins
  FixedBinOf <- MCOneBucket
  Settings <- MCUnsampled
  VolumeThr = 1
  LossThr = 2
  SelectedLossThr = 1
  RateNum = 1
  RateDen = 2
  MaxPackets = 5
  MaxRotations = 0
  AllocFails = FALSE
INVARIANTS
  LevelsMatchLosses
  FixedNeverOverselects
  TaggedIsSampled
PROPERTIES
  SwitchesLearnLevels
  MainSends
