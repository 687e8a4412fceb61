SPECIFICATION Spec
CONSTANTS
  Reach = 16
  PageWords = 4
  Window = 3
  Binaries <- MCAll
INVARIANTS
  TypeOK
  RightOnStraightLine
  LinesAreNearest
  CountsAreRight
  CrashIsExplained
PROPERTY Ends
CHECK_DEADLOCK FALSE
