SPECIFICATION KnownSpec
CONSTANTS
    Nil = Nil
    Zero = Zero
    Client = {a, b}
    Known = {a}
    Radio = {r1}
    PacketNumber = {1, 2}
    MinRxPackets = 1
    MaxRxPackets = 2
    VoiceCap = 1
    OutCap = 1
INVARIANTS
    TypeOK
    ReceiverSound
    NeverDeaf
    PublishedSound
PROPERTY TransmissionsEnd
