SPECIFICATION Spec
CONSTANTS
  dp_size = 2
  n_samples_per_prompt = 3
  global_batch_size = 6
  micro_batch_size = 1
  max_tokens_per_gpu = 4
  MaxInFlight = 2
  Options <- SomeOptions
  Rollouts <- SomeRollouts
  NumRollouts = 2
CHECK_DEADLOCK FALSE
INVARIANTS Balanced MicroBatchBound EverySampleOnce ReplayedIsItsOwn
PROPERTIES AllRanksFinish
