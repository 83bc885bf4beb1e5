CONSTANTS
    MaxSwitches = 2
    MaxFills = 1
    MaxSaves = 2
SPECIFICATION Spec
INVARIANTS TypeOK SettledFormAccepted UntouchedSurvives
PROPERTIES MaskLeavesForCause
