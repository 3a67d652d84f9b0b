SPECIFICATION AnsweredSpec
CONSTANTS
  Steps <- JustAPass
  MaxAttempts = 1
  CaptureEnabled = TRUE
  AutoStart = FALSE
  LongRegion = TRUE
  Upsets <- SegmentUpsets
PROPERTIES ShutterLossNoticed FaultEndsSafe
CHECK_DEADLOCK FALSE
