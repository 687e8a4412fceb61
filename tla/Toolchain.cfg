SPECIFICATION ToolsSpec
CONSTANTS
  Reach = 16
  Code <- MCCode
  Handler = 3
  Programs <- MCCompiled
  RecursionLimit = 11
  FileWords = 16
  PageWords = 4
  Images <- MCImages
  PhdrTables <- MCPhdrTables
  Lists <- MCLists
  MaxRuns = 2
INVARIANT FileMayRun
CHECK_DEADLOCK FALSE
