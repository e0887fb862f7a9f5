SPECIFICATION Spec
CONSTANTS
  MaxTries = 2
  MaxIterations = 2
  MaxEvents = 4
  Env <- Everything
INVARIANTS
  CommittedAsTested
PROPERTIES
  NothingForeignLost
  ImplementsPublication
CHECK_DEADLOCK FALSE
