CONSTANTS
    Puts = {0, 1}
    MaxIds = 3
    Tags = {"home", "relay", "away"}
    Names = {"bridge-node", "other"}
    MaxClicks = 3
    MaxTrouble = 1
    MaxOpens = 2
SPECIFICATION Spec
INVARIANTS TypeOK QuietListCurrent InviteMatches OneClientOneRule
