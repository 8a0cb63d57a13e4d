SPECIFICATION FairSpec
CONSTANTS
    MaxTime = 4
    MaxSets = 3
INVARIANTS
    TypeOK
    TicksAreDue
    OneTimerArmed
    OneTickPerTimer
PROPERTIES
    TickArrives
