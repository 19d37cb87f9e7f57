SPECIFICATION Spec
CONSTANTS
  Uids = {1, 2}
  Ns = {1, 2}
  Concurrency = 2
  Rate = 1
  MaxAttempts = 2
  RequireComplete = TRUE
  MaxStarts = 3
INVARIANTS OneRecordPerPair FinishedIsComplete NothingAskedIsLost
PROPERTIES RunEnds
CHECK_DEADLOCK FALSE
