SPECIFICATION FairSpec
CONSTANTS
    root = root
    child = child
    Futures = {root, child}
    Parent <- ThenParent
    Completers = {a}
    Cancellers = {b}
    Getters = {r1, r2}
    Words = {z, v}
    Zero = z
    Errors = {"failed"}
INVARIANTS
    TypeOK
    ValuesAreSound
PROPERTIES
    ImplementsWriteOnce
    GettersReturn
    ChainCompletesOrPanics
CHECK_DEADLOCK FALSE
