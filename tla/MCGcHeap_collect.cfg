SPECIFICATION Spec
CONSTANTS
  var = var
  under = under
  a1 = a1
  a2 = a2
  a3 = a3
  a4 = a4
  a5 = a5
  None = None
  LastVar = under
  Vars <- MCVars
  Addr <- Addr4
  Ops <- MCRooted
  Negated <- Plain
  MinThreshold = 2
  MaxBytes = 5
  MaxStack = 3
  MaxFrames = 0
  MaxItems = 1
SYMMETRY Symmetry
INVARIANTS
  NoDangling
  BytesCoverObjects
CHECK_DEADLOCK FALSE
