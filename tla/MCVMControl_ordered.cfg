SPECIFICATION Spec
CONSTANTS
  Mains = {"m0"}
  Funcs = {"f", "g"}
  Mods = {"m"}
  MainFile = "file"
  NoFile = "none"
  Programs <- OrderedPrograms
  MaxDepth = 4
  MaxChunks = 8
  MaxTraceback = 8
  MaxRuns = 1
INVARIANTS TypeOK SourceFollowsChunk ErrorAttributed LeavesNothing
PROPERTIES ActivationsSpec
CHECK_DEADLOCK FALSE
