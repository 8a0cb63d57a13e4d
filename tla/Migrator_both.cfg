SPECIFICATION Spec
CONSTANTS
    Ids = {0, 1, 2, 3}
    Registered <- RegisteredIds
    NoDown <- WithoutDown
    Calls = {c1, c2, c3}
    Modes = {"operator", "replicas"}
    Flaky = TRUE
    MaxConns = 2
SYMMETRY Symmetry
INVARIANTS
    TypeOK
    OutOfStepIsInHand
    NoSilentRerun
PROPERTIES
    SuccessMeansDone
    RollsBackLast
CHECK_DEADLOCK FALSE
