SPECIFICATION Spec
CONSTANTS
  var = var
  under = under
  a1 = a1
  a2 = a2
  a3 = a3
  a4 = a4
  a5 = a5
  None = None
  LastVar = under
  Vars <- MCVars
  Addr <- Addr5
  Ops <- MCCall
  Negated <- Plain
  MinThreshold = 2
  MaxBytes = 12
  MaxStack = 4
  MaxFrames = 2
  MaxItems = 1
SYMMETRY Symmetry
INVARIANT NoDangling
CHECK_DEADLOCK FALSE
