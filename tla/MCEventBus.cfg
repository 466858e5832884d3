SPECIFICATION FairSpec
CONSTANTS
  p1 = p1
  p2 = p2
  s1 = s1
  s2 = s2
  v1 = v1
  v2 = v2
  Event = {v1}
  Strict = {v1}
  Sub <- MCSub
  Process <- MCProcess
  MaxEntries = 2
  Batch = 1
  MaxDeliveries = 1
  MaxCrashes = 1
  MaxFaults = 1
  MaxSlow = 1
  MaxMishaps = 1
CHECK_DEADLOCK FALSE
INVARIANTS AckedMeansHandled RerunsAccountedFor RedeliveryBounded StrictNeverSilent
PROPERTIES EventuallyAcked
