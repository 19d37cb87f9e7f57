SPECIFICATION Spec
CONSTANTS
  Size = 3
  NSamples = 2
  Order <- Orders
  MaxAsked = 3
  MaxLive = 3
  MaxEpochs = 2
  MaxCrashes = 1
CHECK_DEADLOCK FALSE
INVARIANTS NumbersAreUnique
PROPERTIES StreamSpec
