SPECIFICATION Spec
CONSTANTS
  Reach = 16
  Code <- MCCode
  Handler = 3
  Programs <- MCAll
  RecursionLimit = 8
INVARIANTS
  TypeOK
  ListsEverySyscall
  RestoringExitsSuffice
  RestoredUnlessLeft
  VerdictsAreHonest
PROPERTY Ends
CHECK_DEADLOCK FALSE
