SPECIFICATION Spec
CONSTANT Sessions <- MCSessions
INVARIANTS
  AsksOnlyInside
  CompilesOnlyWhole
  RefusesExactlyWrong
  StaysAlive
CHECK_DEADLOCK FALSE
