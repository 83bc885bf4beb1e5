SPECIFICATION Spec
CONSTANTS
    Slots = {s1, s2}
    MaxClicks = 5
    MaxActs = 2
    MaxTrouble = 1
    MaxMade = 6
SYMMETRY Interchangeable
INVARIANTS TypeOK QuietListCurrent KeysRotateForCause
PROPERTY WritesOnce
