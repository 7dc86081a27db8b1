SPECIFICATION AllSpec
CONSTANTS
  Zone = {z1, z2}
  Id = {i1}
  Tuple = {t1, t2}
  Max = 2
  FaultSets <- MCFaultSets
  None = None
  a = a
  w1 = w1
  d1 = d1
  d2 = d2
INVARIANTS
  OwnedIsWired
  ServesExpected
  LeaseNeedsStats
  CapacityConserved
PROPERTIES
  ImplementsGuardTable
  
  StalledIsRecovered
  ShutdownReturns
CHECK_DEADLOCK FALSE
