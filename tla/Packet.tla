------------------------------- MODULE Packet -------------------------------
(***************************************************************************)
(* The voice packets of pkg/simpleradio/voice: how one is laid out in a    *)
(* datagram, and how it is read back.  A datagram is a function from the   *)
(* offsets of its bytes to their values, a slice of it a sequence.         *)
(***************************************************************************)
EXTENDS Integers, Sequences, FiniteSets

CONSTANT Undecodable    \* what Decode gives for a datagram it rejects

Byte == 0..255
MaxUint16 == 65535
headerSegmentLength == 6
fixedSegmentLength == 58
frequencyLength == 10
GUIDLength == 22

\* The bytes of a number, the lowest first, and the number they make.
PutUint16(n) == <<n % 256, (n \div 256) % 256>>
PutUint32(n) ==
    LET h == n \div 65536
    IN  <<n % 256, (n \div 256) % 256, h % 256, (h \div 256) % 256>>
PutUint64(n) ==
    LET h == (n \div 65536) \div 65536
    IN  [i \in 1..8 |-> IF i <= 4 THEN PutUint32(n)[i] ELSE PutUint32(h)[i - 4]]

Uint16(b) == b[1] + 256 * b[2]
Uint32(b) == b[1] + 256 * b[2] + 65536 * (b[3] + 256 * b[4])
Uint64(b) == Uint32(b) + 65536 * (65536 * Uint32(<<b[5], b[6], b[7], b[8]>>))

\* Lengths are kept in 16 bits, their sum too.
NewPacket(audio, frequencies, unitID, packetID, hops, relay, origin) ==
    LET truncated(n) == IF n > MaxUint16 THEN MaxUint16 ELSE n
        a == truncated(Len(audio))
        f == truncated(Len(frequencies) * frequencyLength)
    IN  [packetLength |-> (headerSegmentLength + a + f + fixedSegmentLength)
                            % (MaxUint16 + 1),
         audioSegmentLength |-> a,
         frequenciesSegmentLength |-> f,
         audio |-> SubSeq(audio, 1, a),
         frequencies |-> SubSeq(frequencies, 1, f \div frequencyLength),
         unitID |-> unitID, packetID |-> packetID, hops |-> hops,
         relay |-> relay, origin |-> origin]

\* A frequency is the eight bytes of a float, the modulation and the encryption.
FrequencyBytes(f) ==
    [j \in 1..frequencyLength |-> CASE j = 9 -> f.modulation
                                   [] j = 10 -> f.encryption
                                   [] OTHER -> f.bits[j]]

\* Mutant: the fixed segment has 58 bytes by its name and 57 in fact.
fixedSegmentPtrAtStart(p) == p.packetLength - fixedSegmentLength

fixedSegmentPtr(p) == p.packetLength - fixedSegmentLength + 1

\* What is written at an offset.  The byte before the fixed segment is left as
\* it is.
ByteAt(p, i) ==
    LET freqs == headerSegmentLength + p.audioSegmentLength
        fixed == fixedSegmentPtr(p)
        relay == fixed + 13
        origin == relay + GUIDLength
    IN  CASE i \in 0..1 -> PutUint16(p.packetLength)[i + 1]
          [] i \in 2..3 -> PutUint16(p.audioSegmentLength)[i - 1]
          [] i \in 4..5 -> PutUint16(p.frequenciesSegmentLength)[i - 3]
          [] i \in headerSegmentLength..(freqs - 1) -> p.audio[i - headerSegmentLength + 1]
          [] i \in freqs..(freqs + p.frequenciesSegmentLength - 1) ->
               FrequencyBytes(p.frequencies[((i - freqs) \div frequencyLength) + 1])
                 [((i - freqs) % frequencyLength) + 1]
          [] i \in fixed..(fixed + 3) -> PutUint32(p.unitID)[i - fixed + 1]
          [] i \in (fixed + 4)..(fixed + 11) -> PutUint64(p.packetID)[i - fixed - 3]
          [] i = fixed + 12 -> p.hops
          [] i \in relay..(origin - 1) -> p.relay[i - relay + 1]
          [] i \in origin..(origin + GUIDLength - 1) -> p.origin[i - origin + 1]
          [] OTHER -> 0

Encode(p) == [i \in 0..(p.packetLength - 1) |-> ByteAt(p, i)]

\* b[from:to], the length a header gives, and the frequency at an offset.
Slice(b, from, to) == [i \in 1..(to - from) |-> b[from + i - 1]]
LengthAt(b, at) == Uint16(Slice(b, at, at + 2))
FrequencyAt(b, at) == [bits |-> Slice(b, at, at + 8),
                       modulation |-> b[at + 8], encryption |-> b[at + 9]]

\* The lengths of the headers have to agree with each other and with that of
\* the datagram; one too short to have headers makes Decode panic and recover.
Consistent(b) ==
    /\ Cardinality(DOMAIN b) >= headerSegmentLength
    /\ LengthAt(b, 0) = Cardinality(DOMAIN b)
    /\ headerSegmentLength + LengthAt(b, 2) + LengthAt(b, 4) + fixedSegmentLength
         = LengthAt(b, 0)
    /\ LengthAt(b, 4) % frequencyLength = 0

\* The fixed segment is read from its end.
Decode(b) ==
    LET packetLength == LengthAt(b, 0)
        origin == packetLength - GUIDLength
        relay == origin - GUIDLength
        hops == relay - 1
        packetID == hops - 8
        unitID == packetID - 4
        freqs == headerSegmentLength + LengthAt(b, 2)
    IN  IF ~Consistent(b) THEN Undecodable
        ELSE [packetLength |-> packetLength,
              audioSegmentLength |-> LengthAt(b, 2),
              frequenciesSegmentLength |-> LengthAt(b, 4),
              audio |-> Slice(b, headerSegmentLength, freqs),
              frequencies |-> [i \in 1..(LengthAt(b, 4) \div frequencyLength) |->
                                 FrequencyAt(b, freqs + (i - 1) * frequencyLength)],
              unitID |-> Uint32(Slice(b, unitID, packetID)),
              packetID |-> Uint64(Slice(b, packetID, hops)),
              hops |-> b[hops],
              relay |-> Slice(b, relay, origin),
              origin |-> Slice(b, origin, packetLength)]
=============================================================================
