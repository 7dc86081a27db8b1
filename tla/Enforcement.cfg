SPECIFICATION PartSpec
CONSTANTS
  s1 = s1
  s2 = s2
  src1 = src1
  p1 = p1
  p2 = p2
  p3 = p3
  o1 = o1
  o2 = o2
  Forward = Forward
  Local = Local
  Unknown = Unknown
  Session = {s1, s2}
  Source = {src1}
  CtId = {ct1}
  SrcOf <- MCSrcOf
  CtOf <- MCCtOfReused
  Program = {p1, p2}
  Zone = {Forward, Local, Unknown}
  InferZone <- MCInferZone
  Verdict <- MCVerdict
  Applier = Applier
  Activator = Activator
  Operators = {o1, o2}
  Requests <- MCRequests
  None = None
  Allow = Allow
  Drop = Drop
  MaxGeneration = 1
  MaxRevoked = 1
  MaxBlocks = 1
  CanLearnNat = FALSE
  KernelFails = FALSE
INVARIANTS
  AllowFromCurrentProgram
  RevokedNeverAllowed
  NoLeakedGuard
PROPERTY
  GuardOutlivesClose
