SPECIFICATION SpecServer
CONSTANTS
  A = A
  B = B
  main = main
  other = other
  Hash = {A, B}
  Dependencies <- Chain
  Prefix <- MCPrefix
  Name = {main, other}
  NoChannel = NoChannel
  MaxTime = 3
  MaxTags = 2
INVARIANTS
  CommittedHaveFiles
  ChangelistShowsTags
  CommittedClosed
PROPERTIES
  PushKept
SYMMETRY Symmetry
CHECK_DEADLOCK FALSE
