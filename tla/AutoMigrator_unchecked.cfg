SPECIFICATION Spec
CONSTANTS
    Versions = {1, 2}
    Fields <- StructFields
    ExtraCols = {"x", "y"}
    Procs = {p1, p2, p3}
    Flaky = FALSE
SYMMETRY Symmetry
PROPERTIES
    AppliedColumnsChecked
CHECK_DEADLOCK FALSE
