SPECIFICATION SpecCopies
CONSTANTS
  A = A
  B = B
  C = C
  Hash <- MCHash
  Dependencies <- Chain
  Prefix <- MCPrefix
  main = main
  other = other
  Name <- MCName
  NoChannel = NoChannel
  MaxTime = 4
  MaxTags = 1
INVARIANTS
  DepsMirrored
  DependenciesBefore
  UnrecordNeverPanics
  KnownAreUsed
PROPERTIES
  RecReturns
  ImplementsSets
CHECK_DEADLOCK FALSE
