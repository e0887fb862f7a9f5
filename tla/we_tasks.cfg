SPECIFICATION Spec
CONSTANTS
  Paths <- Files
  Base <- Checkout
  Tests = {"spec", "check", ".spec"}
  GoTests = {"spec"}
  Hidden = {"check"}
  Temps = {".spec"}
  TempOf <- FileOf
  Contents <- Anything
  Tasks <- AllTasks
  MaxRounds = 4
  MaxCalls = 2
  MaxPlan = 1
  MaxFaults = 1
INVARIANTS
  PublishedIsMeant
  WorkspaceSurvives
PROPERTIES
  NoBlindChange
CHECK_DEADLOCK FALSE
