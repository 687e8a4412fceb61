CONSTANTS
  Parties = 2
  Threads <- MCThreads
  NoThread = NoThread
  Num = 3
  Kmin = 2
  Iter = 1
  MaxCalls = 2
  MaxRounds = 2
SPECIFICATION Spec
INVARIANTS
  TotalIsCost
  MoveIsUnanimous
  SameCall
  ArraysAreReady
PROPERTIES
  IndexIsStable
  SearchEnds
