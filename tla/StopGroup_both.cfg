SPECIFICATION FairSpec
CONSTANTS
    Workers = {w1, w2, w3, w4}
    Waiters = {g1, g2}
INVARIANTS
    TypeOK
    StopAfterFunctions
PROPERTIES
    StopFunctionsRun
CHECK_DEADLOCK FALSE
