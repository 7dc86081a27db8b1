SPECIFICATION Spec
CONSTANTS
  Config = {c1, c2, c3}
  Empty = Empty
  None = None
  Id = {i1, i2}
  MaxVersion = 3
  MaxFaults = 2
  MaxCrashes = 1
  LateErrors = FALSE
SYMMETRY Symmetry
INVARIANT
  StartupAccepted
