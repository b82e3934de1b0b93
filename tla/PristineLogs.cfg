SPECIFICATION Spec
CONSTANTS
  A = A
  B = B
  C = C
  Hash <- MCHash
  Dependencies <- Fork
  Prefix <- MCPrefix
  main = main
  other = other
  Name <- MCName
  NoChannel = NoChannel
  MaxTime = 4
  MaxTags = 0
INVARIANTS
  TypeOK
  IdsAgree
  UsedAreKnown
  LogsAgree
PROPERTIES
  PositionsStable
SYMMETRY Symmetry
CHECK_DEADLOCK FALSE
