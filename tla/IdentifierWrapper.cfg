SPECIFICATION Spec
CONSTANTS
  Reach = 16
  PageWords = 4
  Window = 16
  Binaries <- MCMusl
INVARIANT WrappersAreLeft
CHECK_DEADLOCK FALSE
