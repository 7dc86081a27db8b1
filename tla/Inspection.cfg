SPECIFICATION LiveSpec
CONSTANTS
  s1 = s1
  s2 = s2
  k1 = k1
  k2 = k2
  w1 = w1
  w2 = w2
  Session = {s1, s2}
  Worker = {w1, w2}
  Scenarios <- MCScenarios
  MaxRenewals = 1
  MaxFailures = 1
  None = None
INVARIANTS
  AppliedAfterAck
PROPERTIES
  InstalledByCurrent
  
CHECK_DEADLOCK FALSE
