SPECIFICATION SpecTags
CONSTANTS
  A = A
  B = B
  main = main
  other = other
  Hash = {A, B}
  Dependencies <- Apart
  Prefix <- MCPrefix
  Name = {main, other}
  NoChannel = NoChannel
  MaxTime = 3
  MaxTags = 2
INVARIANTS
  FilesComplete
  TagsReplayed
  CommittedTagsHaveFiles
PROPERTIES
  RestoredIsTagged
SYMMETRY Symmetry
CHECK_DEADLOCK FALSE
