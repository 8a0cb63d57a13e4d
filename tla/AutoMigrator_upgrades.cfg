SPECIFICATION Spec
CONSTANTS
    Versions = {1, 2}
    Fields <- StructFields
    ExtraCols = {"x"}
    Procs = {p1, p2, p3}
    Flaky = TRUE
SYMMETRY Symmetry
INVARIANTS
    TypeOK
    RecordedColumnsExist
    FailsOnlyInARace
CHECK_DEADLOCK FALSE
