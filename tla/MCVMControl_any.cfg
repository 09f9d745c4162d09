SPECIFICATION FairSpec
CONSTANTS
  Mains = {"m0", "m1"}
  Funcs = {"f", "g"}
  Mods = {"m"}
  MainFile = "file"
  NoFile = "none"
  Programs <- AnyPrograms
  MaxDepth = 4
  MaxChunks = 20
  MaxTraceback = 8
  MaxRuns = 2
INVARIANTS TracebackCoversFrames SourceKnown
CHECK_DEADLOCK FALSE
PROPERTIES RunsTerminate
