SPECIFICATION FairSpec
CONSTANTS
  ann = ann
  bob = bob
  Users <- People
  MaxIteration = 2
  Reviews <- Reviewers
  MaxFaults = 1
  Env <- Survived
INVARIANTS
  LogExplains
  NoFalseMismatch
  AnswersStand
PROPERTIES
  EvidenceConverges
CHECK_DEADLOCK FALSE
