SPECIFICATION Spec
CONSTANTS
    Poller = "user"
    Rows = {r1, r2}
    Edits = {"attach", "detach", "zero", "rename"}
    Mishaps = {"flush", "seed", "panel", "xray"}
    MaxBytes = 2
    MaxBrought = 1
    MaxEdits = 2

SYMMETRY RowSymmetry
INVARIANTS NeverOverCredited RowsInStepUntilReset
PROPERTIES CreditedExactly ShownMonotone
