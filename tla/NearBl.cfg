SPECIFICATION AnySpec
CONSTANTS
  Reach = 16
  FileWords = 12
  PageWords = 4
  Handler = 3
  MaxRuns = 1
  Code <- MCCode
  Images <- MCBeside
  PhdrTables <- MCPhdrTables
  Lists <- MCLists
INVARIANT NearBlMeansSaved
CHECK_DEADLOCK FALSE
