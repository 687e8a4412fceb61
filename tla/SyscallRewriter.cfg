SPECIFICATION Spec
CONSTANTS
  Reach = 16
  FileWords = 10
  PageWords = 4
  Handler = 3
  MaxRuns = 3
  Images <- MCImages
  PhdrTables <- MCPhdrTables
  Lists <- MCLists
INVARIANTS
  TypeOK
  PatchedWordsCallHandler
  EvidenceStands
  CountIsExact
  DoneMeansListMatched
  CompleteWhenDone
PROPERTIES
  WriteOnce
  Terminates
CHECK_DEADLOCK FALSE
