SPECIFICATION Spec
CONSTANTS
    Nil = Nil
    ID = {lead, wingman}
    Name = {"mobius"}
    Coalition = {"red"}
    LabelSet <- MCLabels
    LongExtension = 0
    ShortExtension = 0
    MaxLongExtensions = 0
    FadeRetention = 0
    ExpiryAge = 0
    MaxMissionTime = 1
    MaxPending = 2
INVARIANT EveryContactIndexed
