CONSTANTS
    alice = alice
    bob = bob
    Users = {alice, bob}
    Unrecorders = {}
    BaseLines = 2
    MaxChanges = 2
    MaxDeleted = 2
SYMMETRY Symmetry
SPECIFICATION Spec
CHECK_DEADLOCK FALSE
INVARIANTS
    SameConflicts
