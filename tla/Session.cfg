SPECIFICATION LiveSpec
CONSTANTS
  d1 = d1
  d2 = d2
  Drafts = {d1, d2}
  NoDraft = NoDraft
  Commands = {"start", "cancel"}
  MaxWorkers = 1
INVARIANTS PreparedIsPreviewed BeliefIsDark AuditedIsOver
PROPERTIES CommandResolves LossIsSettled
CHECK_DEADLOCK FALSE
