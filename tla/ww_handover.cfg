SPECIFICATION FairSpec
CONSTANTS
  a = a
  o = o
  s = s
  NoUnit = NoUnit
  Units = {a, s}
  Kind <- MCKind
  MaxEpoch = 2
  MaxCrashes = 0
  Env <- NoEvict
INVARIANT
  ReleasedMeansReleased
PROPERTIES
  TermsEnd
  UnitsSettle
CHECK_DEADLOCK FALSE
