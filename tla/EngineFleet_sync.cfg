SPECIFICATION FairFleetSpec
CONSTANTS
  Jobs <- SyncJob
  NumRollouts = 4
  SaveInterval = 4
  EvalInterval = 3
  PerEpoch = 0
  Recycle = FALSE
  MaxSurplus = 0
  MaxCrashes = 0
  NumEngines = 2
  NodesPerEngine = 2
  JoinTimesOut = FALSE
  MaxFaults = 2
CHECK_DEADLOCK FALSE
INVARIANTS EveryServerIsUpToDate OnlySickAreKilled KilledIsReplaced CaughtFaultsAreSurvived
PROPERTIES JobEnds
