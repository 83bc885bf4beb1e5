SPECIFICATION Spec
CONSTANTS
    Tasks = {t1, t2}
    Kinds = {"Save", "Restart"}
    Rules = {"plain", "four"}
    IPv4Rules = {"four"}
    RefusedRules = {}
    UnbuildableRules = {}
    InitRules = "plain"
    ConcurrentSaves = FALSE
    RecordLate = FALSE
    ZombieVisible = FALSE
    Faults = {}
    MaxRequests = 2
    MaxFaults = 0
    MaxDrops = 1
    MaxCrashes = 0
CHECK_DEADLOCK FALSE
INVARIANT ApplyExclusive
