SPECIFICATION FairSpec
CONSTANTS
  c1 = c1
  c2 = c2
  j1 = j1
  Job = {j1}
  Consumer <- MCConsumer
  Unsupervised = {c2}
  MaxAttempts = 2
  MaxDefers = 1
  MaxStalls = 2
  MaxCrashes = 1
  MaxFaults = 2
  MaxLosses = 1
  MaxMishaps = 3
CHECK_DEADLOCK FALSE
INVARIANTS OnePlace StructuresAgree HandOutsAccountedFor
PROPERTIES OnlyHolderSettles EventuallySettled
