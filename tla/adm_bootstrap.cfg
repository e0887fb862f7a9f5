SPECIFICATION FairSpec
CONSTANTS
  MaxStops = 2
  MaxEvents = 2
  Env <- Seen
INVARIANTS
  BootstrapInv
  FailsForCause
PROPERTIES
  BootstrapConverges
CHECK_DEADLOCK FALSE
