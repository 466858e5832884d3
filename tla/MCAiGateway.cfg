SPECIFICATION Spec
CONSTANTS
  r1 = r1
  r2 = r2
  t1 = t1
  t2 = t2
  s1 = s1
  c1 = c1
  Request <- MCRequest
  Tick <- MCTick
  Subscription = {s1}
  Invoice <- MCInvoice
  Checkout = {c1}
  MaxCost = 1
  Allotment = 1
  Pack = 1
  Grace = 0
  Threshold = 0
  MaxAttempts = 2
  MaxJobs = 2
  MaxIntents = 2
  MaxAdjustments = 1
  MaxCrashes = 1
  MaxSlow = 1
  MaxEchoes = 1
  MaxMishaps = 1
INVARIANTS LedgerSound OvershootBounded OneActiveJob AttemptsAccountedFor
PROPERTIES SuccessIsFinal
SYMMETRY Symmetry
