SPECIFICATION AllSpec
CONSTANTS
  f1 = f1
  f2 = f2
  Flow = {f1, f2}
  Scenarios <- MCConverging
  OmitReply = FALSE
  MaxSessions = 2
  MaxClosed = 1
  QueueSize = 1
  SocketSize = 1
  None = None
  c1 = c1
  c2 = c2
  c3 = c3
  i1 = i1
  i2 = i2
  Empty = Empty
  s1 = s1
  src1 = src1
  ct1 = ct1
  p1 = p1
  p2 = p2
  o1 = o1
  Forward = Forward
  Local = Local
  Unknown = Unknown
  Applier = Applier
  Activator = Activator
  Allow = Allow
  Drop = Drop
INVARIANTS
  StartupAccepted
  
  CommittedOnce
PROPERTIES
  EngineComesBack
  StaleGenerationHeals
  
CHECK_DEADLOCK FALSE
