SPECIFICATION Spec
CONSTANTS
  Steps <- JustAPass
  MaxAttempts = 2
  CaptureEnabled = TRUE
  AutoStart = FALSE
  LongRegion = FALSE
  Upsets <- Calm
INVARIANT AcquiredIsComplete
CHECK_DEADLOCK FALSE
