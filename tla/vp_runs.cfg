SPECIFICATION FairSpec
CONSTANTS
  Runs = {r1}
  MaxGeneration = 2
  MaxEpoch = 2
  MaxEvents = 2
  Env <- EnvEvents
INVARIANTS
  PreviewsAreOwned
  EvaluatedBeforePublished
PROPERTIES
  SuccessIsPublished
  RunEnds
CHECK_DEADLOCK FALSE
