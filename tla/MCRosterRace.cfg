SPECIFICATION Spec
CONSTANTS
    Nil = Nil
    Zero = Zero
    Client = {a, b}
    Known = {a, b}
    Radio = {r1}
    PacketNumber = {1}
    MinRxPackets = 0
    MaxRxPackets = 1
    VoiceCap = 1
    OutCap = 1
INVARIANT RosterRaceFree
