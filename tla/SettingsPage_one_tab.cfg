SPECIFICATION FairSpec
CONSTANTS
    Sections = {"access", "tls", "subscription", "xray"}
    Values = {0, 1}
    MaxRuns = 2
    MaxEdits = 3
    MaxSaves = 2
    MaxTrouble = 1
CHECK_DEADLOCK FALSE
INVARIANTS NeverWantsKey ShownIsSaved RestartOffered
PROPERTIES OnlyOwnFields SaverEnds
