CONSTANTS
  Setups <- AllSetups
  Sources <- AllSources
  Edited <- Edits
  MaxEdits = 1
  MaxCompiles = 1
  MaxRuns = 1
  MaxDepth = 4
SPECIFICATION FairSpec
INVARIANTS TypeOK SearchesFromItsFile FirstUsable RunsWhatWasCompiled QuietMeansComplete
PROPERTIES NothingAfterFailure SearchEnds
CHECK_DEADLOCK FALSE
