CONSTANTS
    MaxSwitches = 0
    MaxFills = 0
    MaxSaves = 1
SPECIFICATION Spec
PROPERTY OpeningKeepsMask
