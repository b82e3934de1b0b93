CONSTANTS
    Ids = {1}
    Positions = {0, 1, 2, 3}
    Flags <- SomeFlags
    MaxHalves = 3
SPECIFICATION Spec
CHECK_DEADLOCK FALSE
INVARIANTS
    EdgesResolve
    SplitsAreSilent
