SPECIFICATION FairSpec
CONSTANTS
  h1 = h1
  h2 = h2
  e1 = e1
  e2 = e2
  mail = mail
  hook = hook
  note = note
  Consumer = {mail, hook, note}
  Audiences = {{mail}, {hook}, {note}}
  Tx = {note}
  Swallow = {hook, note}
  Handler <- MCHandler
  Entry <- MCEntry1
  Caps = {2, 4}
  MaxCrashes = 2
  MaxSlow = 2
  MaxOutages = 2
  MaxDisconnects = 1
  MaxMishaps = 1
INVARIANTS TxExactlyOnce DuplicatesAccountedFor AcknowledgedNotLost GivenUpAfterRetries
PROPERTIES EventuallySettled
