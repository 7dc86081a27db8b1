SPECIFICATION Spec
CONSTANTS
  f1 = f1
  f2 = f2
  Flow = {f1, f2}
  Scenarios <- MCScenarios
  OmitReply = FALSE
  MaxSessions = 2
  MaxClosed = 1
  QueueSize = 1
  SocketSize = 1
  None = None
INVARIANTS
  HealthyIsExact
CHECK_DEADLOCK FALSE
