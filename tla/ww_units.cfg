SPECIFICATION Spec
CONSTANTS
  a = a
  o = o
  s = s
  NoUnit = NoUnit
  Units = {a, o, s}
  Kind <- MCKind
  MaxEpoch = 2
  MaxCrashes = 1
  Env <- NoRefusal
INVARIANTS
  TypeOK
  GrantCoversWorkload
  EpochsFence
PROPERTY
  ImplementsExclusiveWorkspace
CHECK_DEADLOCK FALSE
