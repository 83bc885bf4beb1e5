SPECIFICATION FairSpec
CONSTANTS
    Emails = {"ann", "bob"}
    Inbounds = {"in1", "in2"}
    Notes = {0, 1}
    MaxIds = 2
    Ops = {1, 2}
    MaxActs = 2
    MaxTurns = 1
    MaxTrouble = 1
CHECK_DEADLOCK FALSE
INVARIANTS TypeOK ShownUrlResolves
PROPERTIES EditKeepsAttachments Converges
