SPECIFICATION Spec
CONSTANTS
  Steps <- OutAndBack
  MaxAttempts = 2
  CaptureEnabled = TRUE
  AutoStart = FALSE
  LongRegion = TRUE
  Upsets <- SteadyCamera
INVARIANTS
  TypeOK
  StandstillOutsideRunning
  TransfersAreBlind
  AcquiredIsComplete
  PassExposedOnce
  CanceledIsDark
  NoFalseAlarm
  SettledMeansFiled
PROPERTIES TerminalLatch ImplementsLife
CHECK_DEADLOCK FALSE
