SPECIFICATION ClientFairSpec
CONSTANTS
  Callers = {c1, c2}
  Threshold = 2
  Cooldown = 2
  Attempts = 2
  c1 = c1
  c2 = c2
INVARIANTS
  BreakerSafe
  ProbeComesBack
PROPERTIES
  RetryOnlyWhenSafe
  CallsEnd
  Recovers
