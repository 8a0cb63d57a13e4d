SPECIFICATION ServiceFairSpec
CONSTANTS
    Workers = {w1, w2}
    Loops = {w2}
    Waiters = {g1}
    Outsiders = {o1}
    Timeouts = {TRUE, FALSE}
INVARIANTS
    FinalStopBreaksNoLoop
PROPERTIES
    ServiceWindsDown
CHECK_DEADLOCK FALSE
