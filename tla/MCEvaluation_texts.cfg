CONSTANTS
  Garbage = Garbage
  SizeLimit = 64
  Programs <- MCPrograms
SPECIFICATION Spec
CHECK_DEADLOCK FALSE
INVARIANTS
  MeansWhatItSays
  LeavesOnlyResults
  OperandsBelong
  LastResult
  ListsWithinMemory
