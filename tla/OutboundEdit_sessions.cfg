CONSTANTS
    MaxSwitches = 2
    MaxFills = 1
    MaxSaves = 1
SPECIFICATION Spec
INVARIANTS TypeOK SettledFormAccepted LinkSpeaksServer UntouchedSurvives
