SPECIFICATION AllSpec
CONSTANTS
  f1 = f1
  f2 = f2
  AddrBits = 3
  Addr = {1, 2, 3, 5, 6}
  Port = {1, 2}
  PolicyIDs <- MCPolicyIDs
  Body <- MCBody
  Priority = {1, 2, 3}
  Interfaces <- MCInterfaces
  Routes <- MCRoutes
  None = None
  c1 = c1
  c2 = c2
  r1 = r1
  r2 = r2
  Conn = {c1, c2}
  Request = {r1, r2}
  Session = {s1, s2}
  Scenarios <- GateScenarios
INVARIANTS
  SingleIncarnation
  QuietStoreIsExact
  ForwardedIsJustified
  DeniedStaysDenied
  
  
  UnreachableDecidesNothing
PROPERTIES
  ClosedOnlyDead
CHECK_DEADLOCK FALSE
