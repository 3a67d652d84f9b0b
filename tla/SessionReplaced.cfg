SPECIFICATION Spec
CONSTANTS
  d1 = d1
  Drafts = {d1}
  NoDraft = NoDraft
  Commands = {"start"}
  MaxWorkers = 1
PROPERTIES RunningIsNotReplaced
CHECK_DEADLOCK FALSE
