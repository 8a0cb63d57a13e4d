SPECIFICATION FairSpec
CONSTANTS
    Callers = {c1, c2, c3}
    Timeouts = {TRUE, FALSE}
INVARIANTS
    TypeOK
    NoStepGoesWrong
    StoppedAfterBody
    ResultIsOfBody
PROPERTIES
    ImplementsGate
    ShutdownCompletes
CHECK_DEADLOCK FALSE
