SPECIFICATION Spec
CONSTANTS
  Mains = {"m0"}
  Funcs = {"f", "g"}
  Mods = {"m"}
  MainFile = "file"
  NoFile = "none"
  Programs <- MutualPrograms
  MaxDepth = 4
  MaxChunks = 8
  MaxTraceback = 8
  MaxRuns = 1
PROPERTIES ActivationsSpec
CHECK_DEADLOCK FALSE
