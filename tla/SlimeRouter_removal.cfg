SPECIFICATION Spec
CONSTANTS
  Vocabulary <- SomeVocabulary
  Posts = {1, 2}
  Prompt <- SomePrompt
  Outputs <- SomeOutputs
  Workers = {1, 2}
  FirstWorkers <- SomeWorkers
  MaxRetries = 2
  MaxTries = 2
  Options <- SickOptions
CHECK_DEADLOCK FALSE
INVARIANT SickServerIsStopped
