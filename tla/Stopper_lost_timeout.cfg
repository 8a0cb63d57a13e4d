SPECIFICATION Spec
CONSTANTS
    Callers = {c1, c2}
    Timeouts = {TRUE}
INVARIANTS
    TimeoutIsReported
CHECK_DEADLOCK FALSE
