CONSTANTS
  Channels = {"main", "other"}
  Main = "main"
  Names = {100, 200}
  MaxDepth = 2
  MaxSteps = 1
  MaxChanges = 1
  Moves <- AnyMove
  Longer = {}
SPECIFICATION Spec
CHECK_DEADLOCK FALSE
INVARIANT LikeAClone
