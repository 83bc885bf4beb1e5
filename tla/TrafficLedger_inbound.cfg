SPECIFICATION Spec
CONSTANTS
    Poller = "inbound"
    Rows = {r1}
    Edits = {"attach", "detach", "rename"}
    Mishaps = {"flush", "seed", "panel", "xray"}
    MaxBytes = 3
    MaxBrought = 1
    MaxEdits = 2

PROPERTY CreditedExactly
