SPECIFICATION FleetSpec
CONSTANTS
  Jobs <- AsyncJob
  NumRollouts = 3
  SaveInterval = 4
  EvalInterval = 3
  PerEpoch = 0
  Recycle = FALSE
  MaxSurplus = 0
  MaxCrashes = 0
  NumEngines = 2
  NodesPerEngine = 1
  JoinTimesOut = FALSE
  MaxFaults = 1
CHECK_DEADLOCK FALSE
INVARIANTS EveryServerIsUpToDate
