SPECIFICATION Spec
CONSTANTS
  w1 = w1
  w2 = w2
  Worker <- MCWorker
  ProviderTypes = {"microsoft", "google", "imap"}
  N = 2
  MaxAttempts = 1
  Threshold = 2
  MaxPauses = 1
  MaxCrashes = 0
  MaxSlow = 1
SYMMETRY Symmetry
INVARIANTS StagedIsDurable HistoryCursorSound AttemptsCapped
PROPERTIES StagedForever DeadletterRespectsPause
