SPECIFICATION Spec
CONSTANTS
    Ids = {0, 1, 2, 3}
    Registered <- RegisteredIds
    NoDown <- WithoutDown
    Calls = {c1, c2, c3}
    Modes = {"replicas"}
    Flaky = FALSE
    MaxConns = 2
SYMMETRY Symmetry
INVARIANTS
    AppliedInOrder
CHECK_DEADLOCK FALSE
