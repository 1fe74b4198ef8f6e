SPECIFICATION HistorySpec
CONSTANTS
    Nil = Nil
    Hostile = {h1}
    Friendly = {f1, f2}
    MergeCooldown = 0
    ThreatCooldown = 1
    EnableThreatMonitoring = TRUE
    MaxGroups = 1
    MaxRemovals = 0
SYMMETRY Symmetry
INVARIANTS
    TypeOK
    MergesFollowScope
PROPERTY
    ThreatsSpaced
