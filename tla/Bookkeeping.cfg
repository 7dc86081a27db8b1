SPECIFICATION AllSpec
CONSTANTS
  c1 = c1
  c2 = c2
  c3 = c3
  i1 = i1
  i2 = i2
  q1 = q1
  q2 = q2
  q3 = q3
  s1 = s1
  w1 = w1
  Empty = Empty
  None = None
  Flow = {f1}
  Config = {c1, c2}
  Allowed <- AllowedFlows
  Marked <- AllowedFlows
  MaxEpoch = 4
  MaxBoots = 2
  MaxAttempts = 3
  Scenarios <- CacheScenarios
INVARIANTS
  NoJournalNoLeftovers
  CachedIsAllowed
  ValidBadgeHolds
  
  EpochAttributed
  
  CountedOnce
  ReadersMissNothing
  
  
CHECK_DEADLOCK FALSE
