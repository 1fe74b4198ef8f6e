SPECIFICATION FairSpec
CONSTANTS
    Nil = Nil
    Hostile = {h1}
    Friendly = {f1}
    MergeCooldown = 0
    ThreatCooldown = 1
    EnableThreatMonitoring = TRUE
    MaxGroups = 1
    MaxRemovals = 1
PROPERTY
    MergesForget
