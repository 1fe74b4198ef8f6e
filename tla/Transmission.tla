---------------------------- MODULE Transmission ----------------------------
(***************************************************************************)
(* How the SRS client says something: encodeVoice makes numbered packets   *)
(* of a transmission, transmitPackets waits for a clear channel and writes *)
(* them to the UDP connection.  It runs beside autoheal, which closes that *)
(* connection and replaces it at any time, and resets the receivers that   *)
(* the transmitter looks at.                                               *)
(***************************************************************************)
EXTENDS Autoheal, Packet

CONSTANTS
    MaxTransmissions,   \* how many transmissions there are to say
    Speech,             \* what may be said: sequences of the audio of frames
    Frequencies,        \* those of the client's radios
    GUID,
    Mute,
    TxCap,              \* capacity of voicePacketsTxChan
    MaxPacketNumber     \* what c.packetNumber can count to

encodingBufferSize == 1024

\* A frame fits the buffer it is encoded into, the radios into a packet beside
\* it, and packet numbers have no more than 64 bits.
ASSUME TransmissionAssumption ==
    /\ MaxTransmissions \in Nat
    /\ Speech \subseteq Seq(Seq(Byte))
    /\ \A speech \in Speech : \A i \in DOMAIN speech : Len(speech[i]) <= encodingBufferSize
    /\ Frequencies \in Seq([bits : Seq(Byte), modulation : Byte, encryption : Byte])
    /\ \A i \in DOMAIN Frequencies : Len(Frequencies[i].bits) = 8
    /\ headerSegmentLength + encodingBufferSize + Len(Frequencies) * frequencyLength
         + fixedSegmentLength <= MaxUint16
    /\ GUID \in Seq(Byte) /\ Len(GUID) = GUIDLength
    /\ TxCap \in Nat
    /\ Mute \in BOOLEAN
    /\ MaxPacketNumber \in Nat \ {0}
    /\ ((MaxPacketNumber \div 65536) \div 65536) \div 65536 < 65536

VARIABLES
    udp,            \* c.udpConnection: "open" or "closed"
    receiving,      \* whether the deadline of some receiver is yet to come
    said,           \* how many transmissions encodeVoice has taken
    encoded,        \* the packets it has to pass on, None in its select
    packetNumber,   \* c.packetNumber
    packetChan,     \* voicePacketsTxChan
    txPc,           \* where transmitPackets is
    packets,        \* what it has yet to write
    aired           \* history: the number of the packet written last

encoder == <<said, encoded, packetNumber>>
transmitter == <<txPc, packets, aired>>
txVars == <<udp, receiving, encoder, packetChan, transmitter>>
allVars == <<vars, txVars>>

TxTypeOK ==
    /\ TypeOK
    /\ udp \in {"open", "closed"}
    /\ receiving \in BOOLEAN
    /\ said \in 0..MaxTransmissions
    /\ packetNumber \in 1..MaxPacketNumber
    /\ Len(packetChan) <= TxCap
    /\ txPc \in {"select", "clear", "sleep", "write"}
    /\ aired \in Nat
    /\ txPc = "select" => packets = <<>>

TxInit ==
    /\ Init
    /\ udp = "open"
    /\ receiving = FALSE
    /\ said = 0 /\ encoded = None /\ packetNumber = 1
    /\ packetChan = <<>>
    /\ txPc = "select" /\ packets = <<>>
    /\ aired = 0

-----------------------------------------------------------------------------
(* encodeVoice *)

Voice(audio, number) ==
    NewPacket(audio, Frequencies, 100000002, number, 0, GUID, GUID)

\* Mutant: every transmission numbers its packets from 1.
EncodeFrom1(speech) == [i \in DOMAIN speech |-> Voice(speech[i], i)]

\* One packet per frame.  A frame that Opus fails to encode gets no packet and
\* no number; speech is made of the others.
EncodeFrames(speech) == [i \in DOMAIN speech |-> Voice(speech[i], packetNumber + i - 1)]

EncodeVoice(speech) ==
    /\ encoded = None
    /\ said < MaxTransmissions
    /\ packetNumber + Len(speech) <= MaxPacketNumber
    /\ said' = said + 1
    /\ encoded' = EncodeFrames(speech)
    /\ packetNumber' = packetNumber + Len(speech)
    /\ UNCHANGED <<udp, receiving, packetChan, transmitter>>

\* Without an encoder there is no transmission.
EncoderFails ==
    /\ encoded = None
    /\ said < MaxTransmissions
    /\ said' = said + 1
    /\ UNCHANGED <<udp, receiving, encoded, packetNumber, packetChan, transmitter>>

PassOn ==
    /\ encoded # None
    /\ Len(packetChan) < TxCap
    /\ packetChan' = Append(packetChan, encoded)
    /\ encoded' = None
    /\ UNCHANGED <<udp, receiving, said, packetNumber, transmitter>>

-----------------------------------------------------------------------------
(* transmitPackets *)

TakePackets ==
    /\ txPc = "select"
    /\ packetChan # <<>>
    /\ packets' = Head(packetChan)
    /\ packetChan' = Tail(packetChan)
    /\ txPc' = "clear"
    /\ UNCHANGED <<udp, receiving, encoder, aired>>

\* waitForClearChannel: it sleeps until the last deadline and looks again.
WaitForClearChannel ==
    /\ txPc = "clear"
    /\ IF receiving THEN txPc' = "sleep" /\ UNCHANGED packets
       ELSE IF Mute THEN txPc' = "select" /\ packets' = <<>>
       ELSE txPc' = "write" /\ UNCHANGED packets
    /\ UNCHANGED <<udp, receiving, encoder, packetChan, aired>>

Wake ==
    /\ txPc = "sleep"
    /\ txPc' = "clear"
    /\ UNCHANGED <<udp, receiving, encoder, packetChan, packets, aired>>

\* Mutant: it waits for the connection to come back, packet in hand, and for
\* the channel with it.
WritePacketPatiently(err) ==
    /\ txPc = "write"
    /\ packets # <<>>
    /\ udp = "open"
    /\ packets' = Tail(packets)
    /\ aired' = IF err THEN aired ELSE Head(packets).packetID
    /\ UNCHANGED <<udp, receiving, encoder, packetChan, txPc>>

\* writePackets: an error loses the packet, a closed connection the rest.  The
\* pause after a transmission is part of the time the next receipt takes.
WritePacket(err) ==
    /\ txPc = "write"
    /\ packets # <<>>
    /\ IF udp = "closed"
       THEN packets' = <<>> /\ txPc' = "select" /\ UNCHANGED aired
       ELSE /\ packets' = Tail(packets)
            /\ aired' = IF err THEN aired ELSE Head(packets).packetID
            /\ UNCHANGED txPc
    /\ UNCHANGED <<udp, receiving, encoder, packetChan>>

EndWrite ==
    /\ txPc = "write"
    /\ packets = <<>>
    /\ txPc' = "select"
    /\ UNCHANGED <<udp, receiving, encoder, packetChan, packets, aired>>

-----------------------------------------------------------------------------
(* What others do *)

\* A packet is received, or maxRxGap goes by without one.
Receive ==
    /\ receiving' = ~receiving
    /\ UNCHANGED <<udp, encoder, packetChan, transmitter>>

\* reconnect closes the connection first, when it has got so far.
CloseUDP ==
    /\ healPc = "udp"
    /\ udp = "open"
    /\ udp' = "closed"
    /\ UNCHANGED <<vars, receiving, encoder, packetChan, transmitter>>

ReplaceUDP(resolves) ==
    /\ udp = "closed"
    /\ ReconnectUDP(resolves)
    /\ udp' = IF resolves THEN "open" ELSE "closed"
    /\ UNCHANGED <<receiving, encoder, packetChan, transmitter>>

\* initialize resets the receivers, unless its messages fail before that.
Reinitialize ==
    /\ \/ Initialize /\ receiving' = FALSE
       \/ InitializeDead(FALSE) /\ receiving' = FALSE
       \/ InitializeDead(TRUE) /\ UNCHANGED receiving
    /\ UNCHANGED <<udp, encoder, packetChan, transmitter>>

-----------------------------------------------------------------------------
SpeakNext ==
    \/ PassOn \/ TakePackets \/ WaitForClearChannel \/ Wake
    \/ \E err \in BOOLEAN : WritePacket(err)
    \/ EndWrite

ReconnectNext ==
    \/ (HealTick \/ ReconnectTCP \/ EndBackoff) /\ UNCHANGED txVars
    \/ CloseUDP
    \/ \E resolves \in BOOLEAN : ReplaceUDP(resolves)
    \/ Reinitialize

ConnectionNext ==
    /\ ServerStops \/ ServerStarts \/ Tick \/ ReceivePingPacket \/ PingNext \/ ReaderNext
    /\ UNCHANGED txVars

TxNext ==
    \/ ConnectionNext
    \/ ReconnectNext
    \/ (SpeakNext \/ Receive \/ EncoderFails \/ \E speech \in Speech : EncodeVoice(speech))
         /\ UNCHANGED vars

TxSpec == TxInit /\ [][TxNext]_allVars

\* The goroutines run, and time passes however often the reconnection loop goes
\* round; no error of the network keeps encodeVoice and transmitPackets from
\* going on.  Nothing is assumed of the server.
TxFairness ==
    /\ SF_allVars(Tick /\ UNCHANGED txVars)
    /\ WF_allVars(ReconnectNext)
    /\ WF_allVars(TakePing /\ UNCHANGED txVars)
    /\ WF_allVars(RecordPing /\ UNCHANGED txVars)
    /\ WF_allVars(ReaderNext /\ UNCHANGED txVars)
    /\ WF_allVars(SpeakNext /\ UNCHANGED vars)

TxFairSpec == TxSpec /\ TxFairness

-----------------------------------------------------------------------------
\* Every packet that is written can be read: a datagram decodes to the packet
\* it was made of, whatever the lengths of its segments are.
Readable ==
    txPc = "write" /\ packets # <<>> => Decode(Encode(Head(packets))) = Head(packets)

\* The numbers of the packets that leave only ever rise, over transmissions,
\* encoding errors, lost packets and reconnections: a receiver drops a packet
\* whose number is not above the last one it got.
NumbersRise == [][aired' # aired => aired' > aired]_allVars

\* Once the channel stays clear everything that was taken in is said or
\* dropped, whatever autoheal does to the connection meanwhile: the transmitter
\* is never held up by it.
SpokenOnceClear ==
    <>[]~receiving =>
      [](encoded # None \/ packetChan # <<>> =>
           <>(encoded = None /\ packetChan = <<>> /\ txPc = "select"))
=============================================================================
