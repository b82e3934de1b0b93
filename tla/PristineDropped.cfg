SPECIFICATION Spec
CONSTANTS
  A = A
  B = B
  C = C
  Hash <- MCHash
  Dependencies <- Chain
  Prefix <- MCPrefix
  main = main
  other = other
  Name <- MCName
  NoChannel = NoChannel
  MaxTime = 4
  MaxTags = 0
PROPERTIES
  DependentsRefused
CHECK_DEADLOCK FALSE
