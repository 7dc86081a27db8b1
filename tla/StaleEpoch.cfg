SPECIFICATION Spec
CONSTANTS
  c1 = c1
  c2 = c2
  None = None
  Flow = {f1}
  Config = {c1, c2}
  Allowed <- MCAllowed
  Marked <- MCAllowed
  MaxEpoch = 4
  MaxBoots = 2
  MaxAttempts = 3
  Scenarios <- MCScenarios
INVARIANT
  CachedIsAllowed
CHECK_DEADLOCK FALSE
