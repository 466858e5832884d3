SPECIFICATION FairSpec
CONSTANTS
  w1 = w1
  w2 = w2
  Worker <- MCWorker
  ProviderTypes = {"microsoft", "google", "imap"}
  N = 1
  MaxAttempts = 2
  Threshold = 2
  MaxPauses = 1
  MaxCrashes = 1
  MaxSlow = 0
PROPERTIES EventuallySettled
