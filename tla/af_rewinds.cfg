SPECIFICATION FairSpec
CONSTANTS
  MaxIteration = 2
  MaxTries = 2
  MaxEvents = 3
  Env <- EnvEvents
INVARIANTS
  InputsAgree
PROPERTIES
  OnlyWholeBytes
  WorkflowEnds
CHECK_DEADLOCK FALSE
