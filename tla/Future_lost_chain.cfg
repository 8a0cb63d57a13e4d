SPECIFICATION FairSpec
CONSTANTS
    root = root
    child = child
    Futures = {root, child}
    Parent <- ThenParent
    Completers = {a}
    Cancellers = {b}
    Getters = {}
    Words = {z, v}
    Zero = z
    Errors = {"failed"}
PROPERTIES
    ChainCompletes
CHECK_DEADLOCK FALSE
