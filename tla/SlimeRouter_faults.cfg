SPECIFICATION Spec
CONSTANTS
  Vocabulary <- SomeVocabulary
  Posts = {1, 2}
  Prompt <- SomePrompt
  Outputs <- SomeOutputs
  Workers = {1, 2}
  FirstWorkers <- SomeWorkers
  MaxRetries = 2
  MaxTries = 2
  Options <- SomeOptions
CHECK_DEADLOCK FALSE
INVARIANTS TokensSpellTheText
PROPERTIES LeastLoaded PostsReturn
