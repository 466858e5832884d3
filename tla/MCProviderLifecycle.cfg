SPECIFICATION FairSpec
CONSTANTS
  N = 2
  Op = {o1, o2}
  Threshold = 1
  MaxBegun = 3
  MaxPauses = 2
  MaxMishaps = 1
CHECK_DEADLOCK FALSE
INVARIANTS ToldOncePerPause GapFree DeadWatchIsNoticed
PROPERTIES PauseAnnounced
