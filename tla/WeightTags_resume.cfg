SPECIFICATION TagsSpec
CONSTANTS
  Jobs <- RefWithoutColocation
  NumRollouts = 5
  SaveInterval = 2
  EvalInterval = 4
  PerEpoch = 0
  Recycle = FALSE
  MaxSurplus = 0
  MaxCrashes = 1
CHECK_DEADLOCK FALSE
INVARIANTS EnginesHoldTheActor
