CONSTANTS
  Channels = {"main", "other"}
  Main = "main"
  Names = {100, 200}
  MaxDepth = 2
  MaxSteps = 2
  MaxChanges = 2
  Moves <- Outwards
  Longer = {}
SPECIFICATION Spec
CHECK_DEADLOCK FALSE
INVARIANTS NoPanic TablesSound LikeAClone NothingLeft
PROPERTY UntrackedKept
