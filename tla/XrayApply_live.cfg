SPECIFICATION FairSpec
CONSTANTS
    Tasks = {t1, t2}
    Kinds = {"Save", "Restart", "Geo", "GeoNightly"}
    Rules = {"plain", "four"}
    IPv4Rules = {"four"}
    RefusedRules = {}
    UnbuildableRules = {}
    InitRules = "plain"
    ConcurrentSaves = TRUE
    RecordLate = TRUE
    ZombieVisible = TRUE
    Faults = {"reply", "spawn", "kill", "exit"}
    MaxRequests = 2
    MaxFaults = 1
    MaxDrops = 1
    MaxCrashes = 1
CHECK_DEADLOCK FALSE
INVARIANTS InboundsServed GeoOwed NoDanglingRule 
PROPERTY HandlersEnd
