SPECIFICATION Spec
CONSTANTS
  Depth = 1
  Samples = {"READY", "NOT_READY"}
  NoSample = NoSample
  Parts <- Trouble
  LocalLimit = 2
  FixLimit = 3
  Rebase = 2
  MaxPairs = 2
  StillSamples = 2
  Delays = {0, 1}
  Horizon = 4
INVARIANTS OutageIsNoticed EveryPairIsUsed NewestIsShown
CHECK_DEADLOCK FALSE
