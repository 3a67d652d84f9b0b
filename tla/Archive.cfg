SPECIFICATION PromptSpec
CONSTANTS
  MaxRecords = 4
  DiskMayFail = TRUE
INVARIANTS
  IdleMeansFiled
  DrainedMeansFiled
PROPERTIES
  KeepsPromise
  SyncIsPrompt
  CloseEnds
CHECK_DEADLOCK FALSE
