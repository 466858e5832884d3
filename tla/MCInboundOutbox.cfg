SPECIFICATION FairSpec
CONSTANTS
  d1 = d1
  d2 = d2
  Outbox = {o1}
  Dispatcher <- MCDispatcher
  Caps = {2, 3}
  MaxCrashes = 1
  MaxSlow = 1
  MaxLost = 1
INVARIANTS DuplicatesAccountedFor
PROPERTIES OnlyHolderEnds TerminalIsFinal EventuallySettled
