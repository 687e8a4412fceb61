SPECIFICATION SafeSpec
CONSTANTS
  Reach = 16
  FileWords = 12
  PageWords = 4
  Handler = 3
  MaxRuns = 2
  Code <- MCCode
  Images <- MCImages
  PhdrTables <- MCPhdrTables
  Lists <- MCLists
INVARIANT FileIsAlwaysSafe
CHECK_DEADLOCK FALSE
