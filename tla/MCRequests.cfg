SPECIFICATION Spec
CONSTANTS
    Nil = Nil
    Encyclopedia <- MCEncyclopedia
    MandatoryThreatRadius <- MCThreatRadius
    MaxSharedBRAABearingSpread = 5
    MaxSharedBRAARangeSpread <- MCSpread
    WakePhrase <- MCWakePhrase
    Location <- MCLocation
    Coalition = "Blue"
    Bullseye <- MCBullseye
    Center <- MCCenter
    Place <- MCPlace
    OnFrequency <- MCOnFrequency
    Locations <- MCLocations
    Scenario <- MCScenario
    MaxChanges = 2
INVARIANTS
    TypeOK
    Understood
    Accounted
    
    PictureFirst
    ThreatTaken
