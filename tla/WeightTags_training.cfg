SPECIFICATION FairTagsSpec
CONSTANTS
  Jobs <- SomeJobs
  NumRollouts = 5
  SaveInterval = 3
  EvalInterval = 2
  PerEpoch = 5
  Recycle = TRUE
  MaxSurplus = 1
  MaxCrashes = 2
CHECK_DEADLOCK FALSE
INVARIANTS TrainedInOrder NoPushWhileServing OffPolicyBound NoGroupTwice TrainsTheActor LogProbsOfTheRollout UntouchedActorIsServed RefIsTheLatest
PROPERTIES Completes
