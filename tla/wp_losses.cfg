SPECIFICATION Spec
CONSTANTS
  Plan <- GateFirst
  RewindFrom = 3
  RewindTo = 2
  MaxRewinds = 1
  MaxTry = 2
  MaxCrashes = 1
  MaxDeletes = 1
  Env <- Losses
INVARIANTS
  ApprovedBeforeOperation
CHECK_DEADLOCK FALSE
