SPECIFICATION Spec
CONSTANTS
    Nil = Nil
    ID = {lead, wingman}
    Name = {"mobius"}
    Coalition = {"red"}
    LabelSet <- MCLabels
    LongExtension = 1
    ShortExtension = 0
    MaxLongExtensions = 1
    FadeRetention = 0
    ExpiryAge = 0
    MaxMissionTime = 2
    MaxPending = 2
SYMMETRY IDSymmetry
INVARIANTS
    TypeOK
    IndexSound
    ExpiryExcludesFades
PROPERTY BatchIntact
