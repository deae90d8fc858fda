CONSTANTS
  Builds = {r1, r2}
  N = 3
  Streamed = {0,2}
  Recorded = TRUE
  FirstPlays = FALSE
  MaxFailures = 1
  MaxAsks = 2
  NoRow = NoRow
  NoFile = NoFile
SPECIFICATION FairBuildSpec
INVARIANTS  WholeAnswer CleanIsRaw
CHECK_DEADLOCK FALSE
