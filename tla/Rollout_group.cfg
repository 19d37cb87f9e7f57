SPECIFICATION FairSpec
CONSTANTS
  e1 = e1
  e2 = e2
  Engines <- TwoEngines
  BatchSize = 1
  OverSampling = 2
  NSamples = 2
  Concurrency = 3
  PartialRollout = TRUE
  GroupRm = TRUE
  NumRollouts = 3
  MaxGroups = 5
INVARIANTS TrainedIsComplete StaleTokensAreNamed
PROPERTIES RolloutReturns
