SPECIFICATION TxFairSpec
CONSTANTS
    Timeout = 2
    PingCap = 1
    None = None
    Undecodable = Undecodable
    MaxTransmissions = 2
    Speech <- MCSpeech
    Frequencies <- MCFrequencies
    GUID <- MCGUID
    Mute = FALSE
    TxCap = 1
    MaxPacketNumber = 5
INVARIANTS
    TxTypeOK
    Readable
PROPERTIES
    NumbersRise
    LossNoticed
    Recovers
    SpokenOnceClear
