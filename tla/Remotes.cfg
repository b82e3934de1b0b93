SPECIFICATION Spec
CONSTANTS
  A = A
  B = B
  C = C
  Changes = {A, B, C}
  Dependencies <- OneDependency
  Kinds = {"path", "ssh", "nest", "channel"}
  MaxNext = 3
  Taggable <- OneState
INVARIANTS
  DichotomySound
  PushExact
PROPERTIES
  PullGetsWanted
  PullReturns
CHECK_DEADLOCK FALSE
