SPECIFICATION Spec
CONSTANTS
  e1 = e1
  e2 = e2
  Engines <- TwoEngines
  BatchSize = 2
  OverSampling = 3
  NSamples = 1
  Concurrency = 2
  PartialRollout = TRUE
  GroupRm = FALSE
  NumRollouts = 3
  MaxGroups = 7
INVARIANTS EveryGroupInOnePlace RemainingIsExact ResumedIsRewarded QuietBetweenRollouts
PROPERTIES ContractSpec
