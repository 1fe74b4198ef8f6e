SPECIFICATION FairHistorySpec
CONSTANTS
    Nil = Nil
    ID = {lead, wingman}
    Name = {"mobius"}
    Coalition = {"red"}
    LabelSet <- MCLabels
    LongExtension = 0
    ShortExtension = 0
    MaxLongExtensions = 0
    FadeRetention = 1
    ExpiryAge = 0
    MaxMissionTime = 1
    MaxPending = 2
PROPERTIES
    FadeAnnouncedOnce
    FadesResolve
