SPECIFICATION Spec
CONSTANTS
  Reach = 16
  Code <- MCCode
  Handler = 3
  MaxDepth = 3
  Builds <- MCBuilds
INVARIANTS
  TypeOK
  ReturnsToCaller
PROPERTY SameAsLinux
CHECK_DEADLOCK FALSE
