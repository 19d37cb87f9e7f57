SPECIFICATION Spec
CONSTANTS
  Target = 2
  QueueSize = 3
  NumRollouts = 4
  MaxFailures = 1
  MaxUpdates = 2
INVARIANT FinishedRecently
PROPERTIES RolloutReturns
CHECK_DEADLOCK FALSE
