\* One sender: intervals of 2, wrap-around at 3, "ten minutes" of 3.
CONSTANTS
  Whole = 3
  Interval = 2
  Freq = 2
  SleepMod = 3
  MainDelay = 1
  RotatorDelay = 1
  WakeLate = 1
  StartTimes = {0, 1}
  Settings <- MCSettings
  MaxTime = 9
SPECIFICATION FairSpec
INVARIANTS TypeOK StartsInLaterInterval RotationsKeepTime DestroyedAfterUsers
PROPERTY BrokenSenderExits
CHECK_DEADLOCK FALSE
