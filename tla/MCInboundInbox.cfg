SPECIFICATION FairSpec
CONSTANTS
  w1 = w1
  w2 = w2
  Inbox = {i1}
  Worker <- MCWorker
  Caps = {1, 2}
  Modes = {"enforce", "shadow"}
  MaxCrashes = 1
  MaxSlow = 1
  MaxReleases = 1
INVARIANTS EffectsExactlyOnce OneHolder AckFromDurableState RetryBudget
PROPERTIES Implements EventuallyDecided
