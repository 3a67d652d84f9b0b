SPECIFICATION LiveSpec
CONSTANTS
  Steps <- JustAPass
  MaxAttempts = 1
  CaptureEnabled = TRUE
  AutoStart = FALSE
  LongRegion = TRUE
  Upsets <- CameraDies
PROPERTIES MissionEnds PauseResolves CancelSettles
CHECK_DEADLOCK FALSE
