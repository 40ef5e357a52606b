SPECIFICATION RecordsSpec
CONSTANTS
  Blocks <- MixedBlocks
  MaxBlocks = 3
  Pages = 2
  MaxUnplaced = 1
  Size <- LineSizes
  MIN_CLAUSE_CHARS = 4
  MAX_CLAUSE_CHARS = 12
  OVERLAP_CHARS = 2
  EMBED_BATCH_SIZE = 2
  MaxLost = 1
INVARIANTS
  EveryLineInOneClause
  TablesFollowTheirClause
  NumberedLinesOpen
  CutsAreAtMarkers
  CitationsPointHome
  WindowsFit
  StretchesSurvive
  WindowsAdvance
  RecordsHaveTheirVectors
CHECK_DEADLOCK FALSE
