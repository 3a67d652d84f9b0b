SPECIFICATION Spec
CONSTANTS
  Steps <- JustAPass
  MaxAttempts = 2
  CaptureEnabled = TRUE
  AutoStart = FALSE
  LongRegion = TRUE
  Upsets <- Calm
INVARIANT RetainedFrameNeverRotates
CHECK_DEADLOCK FALSE
