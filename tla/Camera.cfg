SPECIFICATION LiveSpec
CONSTANTS
  Rows = 3
  BatchRows = 2
  MinTail = 2
  LineLimit = 2
  JobLimit = 2
  StepLines = 2
  LinesMax = 6
  Requests = 3
  Breaks = 1
INVARIANTS SessionIsReadable SegmentIsOneMotion CloseIsComplete
PROPERTY RequestAnswered
CHECK_DEADLOCK FALSE
