SPECIFICATION Spec
CONSTANTS
  w1 = w1
  w2 = w2
  Worker <- MCWorker
  ProviderTypes = {"microsoft"}
  N = 1
  MaxAttempts = 2
  Threshold = 2
  MaxPauses = 0
  MaxCrashes = 0
  MaxSlow = 0
SYMMETRY Symmetry
INVARIANTS
  CursorOnlyPastStaged
