SPECIFICATION Spec
CONSTANTS
    Tasks = {t1, t2}
    Kinds = {"Save", "Start", "Stop", "Restart", "Install", "GeoNightly"}
    Rules = {"plain", "four", "bad", "odd"}
    IPv4Rules = {"four"}
    RefusedRules = {"bad"}
    UnbuildableRules = {"odd"}
    InitRules = "plain"
    ConcurrentSaves = FALSE
    RecordLate = FALSE
    ZombieVisible = TRUE
    Faults = {"db", "regen", "push", "reply", "spawn", "kill", "unpack", "swap", "exit"}
    MaxRequests = 4
    MaxFaults = 2
    MaxDrops = 0
    MaxCrashes = 1
CHECK_DEADLOCK FALSE
SYMMETRY TaskSymmetry
INVARIANTS TypeOK ApplyExclusive SpawnOntoFreePort MarkersHonest RouterKeepsApiPin
PROPERTY SaveRestartsForCause
