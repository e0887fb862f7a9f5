SPECIFICATION FairSpec
CONSTANTS
  Plan <- Canonical
  RewindFrom = 3
  RewindTo = 2
  MaxRewinds = 1
  MaxTry = 2
  MaxCrashes = 1
  MaxDeletes = 0
  Env <- AllButDeletes
INVARIANTS
  TypeOK
  OneActiveExecution
  RetriesAreEarned
  RewindsAreEarned
PROPERTIES
  WorkflowEnds
  ImplementsPlanExecution
CHECK_DEADLOCK FALSE
