SPECIFICATION ThreatsOnlySpec
CONSTANTS
    Nil = Nil
    Hostile = {h1, h2}
    Friendly = {f1}
    MergeCooldown = 0
    ThreatCooldown = 1
    EnableThreatMonitoring = TRUE
    MaxGroups = 1
    MaxRemovals = 0
PROPERTY
    LiveThreatsSpaced
