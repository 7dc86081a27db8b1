CONSTANTS
  s1 = s1
  s2 = s2
  src1 = src1
  p1 = p1
  p2 = p2
  p3 = p3
  o1 = o1
  o2 = o2
  Forward = Forward
  Local = Local
  Unknown = Unknown
  Source = {src1}
  Zone = {Forward, Local, Unknown}
  SrcOf <- MCSrcOf
  InferZone <- MCInferZone
  Verdict <- MCVerdict
  Applier = Applier
  Activator = Activator
  None = None
  Allow = Allow
  Drop = Drop
  MaxBlocks = 1
  CtId = {ct1}
  CtOf <- MCCtOfReused
  Session = {s1, s2}
  Operators = {o1, o2}
  Requests <- MCRevokeRequests
  Program = {p1}
  MaxGeneration = 0
  MaxRevoked = 3
  CanLearnNat = FALSE
  KernelFails = FALSE
SPECIFICATION Spec
CHECK_DEADLOCK FALSE
PROPERTY CleanupSparesOtherOwner
