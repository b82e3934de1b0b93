SPECIFICATION Spec
CONSTANTS
    NLines = 4
    MaxUnusual = 1
INVARIANTS
    ComponentsCorrect
    ConflictIffUnordered
    ForwardAreRedundant
    EveryLineOnce
    MarkersSound
CHECK_DEADLOCK FALSE
