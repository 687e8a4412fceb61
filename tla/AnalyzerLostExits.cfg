SPECIFICATION Spec
CONSTANTS
  Reach = 16
  Code <- MCCode
  Handler = 3
  Programs <- MCSplitLeaf
  RecursionLimit = 12
INVARIANT RestoredOnEveryPath
CHECK_DEADLOCK FALSE
