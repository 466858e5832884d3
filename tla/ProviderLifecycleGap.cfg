SPECIFICATION Spec
CONSTANTS
  N = 2
  Op = {o1}
  Threshold = 1
  MaxBegun = 3
  MaxPauses = 1
  MaxMishaps = 1
INVARIANT RecoveryLeavesNoGap
CHECK_DEADLOCK FALSE
