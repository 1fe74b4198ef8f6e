------------------------- MODULE TransmissionProofs -------------------------
(***************************************************************************)
(* What is proved of Transmission: its types, that the numbers of the      *)
(* packets that leave rise, and that every one of them can be read.        *)
(***************************************************************************)
EXTENDS Transmission, FiniteSetTheorems, TLAPS

-----------------------------------------------------------------------------
(* Numbers and their bytes *)

\* Dividing by 256 twice divides by 65536.
LEMMA HighPart ==
    ASSUME NEW n \in Nat
    PROVE  /\ n \div 65536 \in Nat /\ n % 65536 \in Nat
           /\ n \div 65536 = (n \div 256) \div 256
           /\ n % 65536 = (n % 256) + 256 * ((n \div 256) % 256)
           /\ n = (n % 65536) + 65536 * (n \div 65536)
  BY SMT

\* Two bytes hold any number of 16 bits.
LEMMA Uint16RoundTrip ==
    ASSUME NEW n \in Nat, n <= MaxUint16
    PROVE  (n % 256) + 256 * ((n \div 256) % 256) = n
  <1>1. n % 65536 = n
    BY SMT DEF MaxUint16
  <1>. QED
    BY <1>1, HighPart

\* Four bytes hold the low 32 bits of a number.
LEMMA Uint32RoundTrip ==
    ASSUME NEW n \in Nat
    PROVE  Uint32(PutUint32(n)) = (n % 65536) + 65536 * ((n \div 65536) % 65536)
  <1>. DEFINE h == n \div 65536
  <1>1. h \in Nat /\ n % 65536 = (n % 256) + 256 * ((n \div 256) % 256)
    BY HighPart
  <1>2. h % 65536 = (h % 256) + 256 * ((h \div 256) % 256)
    BY <1>1, HighPart
  <1>3. PutUint32(n) = <<n % 256, (n \div 256) % 256, h % 256, (h \div 256) % 256>>
    BY DEF PutUint32
  <1>. QED
    BY <1>1, <1>2, <1>3 DEF Uint32

\* Eight bytes hold any number of 64 bits.
LEMMA Uint64RoundTrip ==
    ASSUME NEW n \in Nat, ((n \div 65536) \div 65536) \div 65536 < 65536
    PROVE  Uint64(PutUint64(n)) = n
  <1>. DEFINE a == n \div 65536
              h == a \div 65536
              p == PutUint64(n)
  <1>1. a \in Nat /\ n = (n % 65536) + 65536 * a
    BY HighPart
  <1>2. h \in Nat /\ a = (a % 65536) + 65536 * h
    BY <1>1, HighPart
  <1>3. h \div 65536 \in Nat /\ h = (h % 65536) + 65536 * (h \div 65536)
    BY <1>2, HighPart
  <1>4. Uint32(PutUint32(n)) = (n % 65536) + 65536 * (a % 65536)
    BY Uint32RoundTrip
  <1>5. Uint32(PutUint32(h)) = (h % 65536) + 65536 * (h \div 65536)
    <2>1. (h \div 65536) % 65536 = h \div 65536
      BY <1>3
    <2>. QED
      BY <1>2, <2>1, Uint32RoundTrip
  <1>6. Uint32(p) = Uint32(PutUint32(n))
    BY DEF PutUint64, Uint32
  <1>7. Uint32(<<p[5], p[6], p[7], p[8]>>) = Uint32(PutUint32(h))
    BY DEF PutUint64, Uint32
  <1>8. Uint64(p) = (n % 65536) + 65536 * (a % 65536) + 65536 * (65536 * h)
    BY <1>3, <1>4, <1>5, <1>6, <1>7 DEF Uint64
  <1>9. a % 65536 \in Int /\ n % 65536 \in Int
    BY <1>1
  <1>. QED
    <2>. HIDE DEF a, h, p
    <2>1. n = (n % 65536) + 65536 * ((a % 65536) + 65536 * h)
      BY <1>1, <1>2
    <2>. QED
      BY <1>2, <1>8, <1>9, <2>1 DEF p

-----------------------------------------------------------------------------
(* Packets and their bytes *)

FrequencyRecords == [bits : Seq(Byte), modulation : Byte, encryption : Byte]

\* The packets that can be sent: their lengths are those of their segments and
\* fit 16 bits, and their numbers fit the bytes they get.
WellFormed(p) ==
    /\ p \in [packetLength : Nat, audioSegmentLength : Nat,
              frequenciesSegmentLength : Nat, audio : Seq(Byte),
              frequencies : Seq(FrequencyRecords), unitID : Nat, packetID : Nat,
              hops : Byte, relay : Seq(Byte), origin : Seq(Byte)]
    /\ p.packetLength = headerSegmentLength + p.audioSegmentLength
                          + p.frequenciesSegmentLength + fixedSegmentLength
    /\ p.packetLength <= MaxUint16
    /\ Len(p.audio) = p.audioSegmentLength
    /\ p.frequenciesSegmentLength = Len(p.frequencies) * frequencyLength
    /\ \A i \in 1..Len(p.frequencies) : Len(p.frequencies[i].bits) = 8
    /\ p.unitID \div 65536 < 65536
    /\ ((p.packetID \div 65536) \div 65536) \div 65536 < 65536
    /\ Len(p.relay) = GUIDLength
    /\ Len(p.origin) = GUIDLength

\* Where the bytes of a frequency are.
LEMMA FrequencyOffset ==
    ASSUME NEW q \in Int, NEW r \in Int, 0 <= r, r < 10
    PROVE  (q * 10 + r) \div 10 = q /\ (q * 10 + r) % 10 = r
  BY SMT

\* They are within the segment.
LEMMA FrequencyWithin ==
    ASSUME NEW n \in Nat, NEW q \in Int, 0 <= q, q < n, NEW r \in Int, 0 <= r, r < 10
    PROVE  q * 10 + r \in 0..(n * 10 - 1)
  BY SMT

\* b holds p, segment by segment: what is at each offset.
Laid(p, b, L, a, f) ==
    /\ L \in Nat /\ a \in Nat /\ f \in Nat /\ L = 64 + a + f
    /\ DOMAIN b = 0..(L - 1)
    /\ \A i \in 0..1 : b[i] = PutUint16(L)[i + 1]
    /\ \A i \in 2..3 : b[i] = PutUint16(a)[i - 1]
    /\ \A i \in 4..5 : b[i] = PutUint16(f)[i - 3]
    /\ \A i \in 1..a : b[5 + i] = p.audio[i]
    /\ \A k \in 1..Len(p.frequencies), i \in 1..10 :
         b[(5 + a + (k - 1) * 10) + i] = FrequencyBytes(p.frequencies[k])[i]
    /\ \A i \in 1..4 : b[(L - 58) + i] = PutUint32(p.unitID)[i]
    /\ \A i \in 1..8 : b[(L - 54) + i] = PutUint64(p.packetID)[i]
    /\ b[L - 45] = p.hops
    /\ \A i \in 1..22 : b[(L - 45) + i] = p.relay[i]
    /\ \A i \in 1..22 : b[(L - 23) + i] = p.origin[i]

\* The segments that Encode writes do not overlap.
LEMMA EncodeSegments ==
    ASSUME NEW p, WellFormed(p),
           NEW L, L = p.packetLength, NEW a, a = p.audioSegmentLength,
           NEW f, f = p.frequenciesSegmentLength, NEW b, b = Encode(p)
    PROVE  Laid(p, b, L, a, f)
  <1>. USE DEF headerSegmentLength, fixedSegmentLength, frequencyLength, GUIDLength
  <1>1. L \in Nat /\ a \in Nat /\ f \in Nat /\ L = 64 + a + f
    BY DEF WellFormed
  <1>2. DOMAIN b = 0..(L - 1)
    BY DEF Encode
  <1>3. /\ p.packetLength = L /\ p.audioSegmentLength = a
        /\ p.frequenciesSegmentLength = f /\ fixedSegmentPtr(p) = L - 57
    BY <1>1 DEF fixedSegmentPtr
  <1>4. ASSUME NEW i \in 0..(L - 1)
        PROVE  b[i] = ByteAt(p, i)
    BY DEF Encode
  <1>5. ASSUME NEW i \in 0..1
        PROVE  b[i] = PutUint16(L)[i + 1]
    <2>1. ByteAt(p, i) = PutUint16(L)[i + 1]
      BY <1>1, <1>3 DEF ByteAt
    <2>2. i \in 0..(L - 1)
      BY <1>1
    <2>. QED
      BY <1>4, <2>1, <2>2
  <1>6. ASSUME NEW i \in 2..3
        PROVE  b[i] = PutUint16(a)[i - 1]
    <2>1. ByteAt(p, i) = PutUint16(a)[i - 1]
      BY <1>1, <1>3 DEF ByteAt
    <2>2. i \in 0..(L - 1)
      BY <1>1
    <2>. QED
      BY <1>4, <2>1, <2>2
  <1>7. ASSUME NEW i \in 4..5
        PROVE  b[i] = PutUint16(f)[i - 3]
    <2>1. ByteAt(p, i) = PutUint16(f)[i - 3]
      BY <1>1, <1>3 DEF ByteAt
    <2>2. i \in 0..(L - 1)
      BY <1>1
    <2>. QED
      BY <1>4, <2>1, <2>2
  <1>8. ASSUME NEW i \in 1..a
        PROVE  b[5 + i] = p.audio[i]
    <2>1. ByteAt(p, 5 + i) = p.audio[i]
      BY <1>1, <1>3 DEF ByteAt
    <2>2. 5 + i \in 0..(L - 1)
      BY <1>1
    <2>. QED
      BY <1>4, <2>1, <2>2
  <1>9. ASSUME NEW i \in 0..(f - 1)
         PROVE  b[6 + a + i]
                  = FrequencyBytes(p.frequencies[(i \div 10) + 1])[(i % 10) + 1]
    <2>1. ByteAt(p, 6 + a + i)
            = FrequencyBytes(p.frequencies[(i \div 10) + 1])[(i % 10) + 1]
      BY <1>1, <1>3 DEF ByteAt
    <2>2. 6 + a + i \in 0..(L - 1)
      BY <1>1
    <2>. QED
      BY <1>4, <2>1, <2>2
  <1>10. ASSUME NEW k \in 1..Len(p.frequencies), NEW i \in 1..10
        PROVE  b[(5 + a + (k - 1) * 10) + i] = FrequencyBytes(p.frequencies[k])[i]
    <2>1. ASSUME NEW n \in Nat, n = Len(p.frequencies), NEW q, q = k - 1, NEW r, r = i - 1,
                 NEW m, m = q * 10, NEW o, o = m + r
          PROVE  b[(5 + a + (k - 1) * 10) + i] = FrequencyBytes(p.frequencies[k])[i]
      <3>1. q \in Int /\ 0 <= q /\ q < n /\ r \in Int /\ 0 <= r /\ r < 10
        BY <2>1
      <3>2. o \in 0..(f - 1)
        <4>1. f = n * 10
          BY <2>1 DEF WellFormed
        <4>. QED
          BY <2>1, <3>1, <4>1, FrequencyWithin
      <3>3. o \div 10 = q /\ o % 10 = r
        BY <2>1, <3>1, FrequencyOffset
      <3>4. b[6 + a + o] = FrequencyBytes(p.frequencies[q + 1])[r + 1]
        BY <1>9, <3>2, <3>3
      <3>5. q + 1 = k /\ r + 1 = i
        BY <2>1
      <3>6. 6 + a + o = (5 + a + m) + i
        <4>1. m \in Int /\ a \in Int /\ i \in Int
          BY <1>1, <2>1, <3>1
        <4>. QED
          BY <2>1, <4>1
      <3>. QED
        BY <2>1, <3>4, <3>5, <3>6
    <2>. QED
      BY <2>1 DEF WellFormed
  <1>11. ASSUME NEW i \in 1..4
        PROVE  b[(L - 58) + i] = PutUint32(p.unitID)[i]
    <2>1. ByteAt(p, (L - 58) + i) = PutUint32(p.unitID)[i]
      BY <1>1, <1>3 DEF ByteAt
    <2>2. (L - 58) + i \in 0..(L - 1)
      BY <1>1
    <2>. QED
      BY <1>4, <2>1, <2>2
  <1>12. ASSUME NEW i \in 1..8
        PROVE  b[(L - 54) + i] = PutUint64(p.packetID)[i]
    <2>1. ByteAt(p, (L - 54) + i) = PutUint64(p.packetID)[i]
      BY <1>1, <1>3 DEF ByteAt
    <2>2. (L - 54) + i \in 0..(L - 1)
      BY <1>1
    <2>. QED
      BY <1>4, <2>1, <2>2
  <1>13. b[L - 45] = p.hops
    <2>1. ByteAt(p, L - 45) = p.hops
      BY <1>1, <1>3 DEF ByteAt
    <2>. QED
      BY <1>1, <1>4, <2>1
  <1>14. ASSUME NEW i \in 1..22
        PROVE  b[(L - 45) + i] = p.relay[i]
    <2>1. ByteAt(p, (L - 45) + i) = p.relay[i]
      BY <1>1, <1>3 DEF ByteAt
    <2>2. (L - 45) + i \in 0..(L - 1)
      BY <1>1
    <2>. QED
      BY <1>4, <2>1, <2>2
  <1>15. ASSUME NEW i \in 1..22
        PROVE  b[(L - 23) + i] = p.origin[i]
    <2>1. ByteAt(p, (L - 23) + i) = p.origin[i]
      BY <1>1, <1>3 DEF ByteAt
    <2>2. (L - 23) + i \in 0..(L - 1)
      BY <1>1
    <2>. QED
      BY <1>4, <2>1, <2>2
  <1>. QED
    BY <1>1, <1>2, <1>5, <1>6, <1>7, <1>8, <1>10, <1>11, <1>12, <1>13, <1>14, <1>15
    DEF Laid

\* A slice, byte by byte.
LEMMA SliceBytes ==
    ASSUME NEW b, NEW from \in Int, NEW to \in Int, NEW s \in Seq(Byte),
           Len(s) = to - from, \A i \in 1..Len(s) : b[(from - 1) + i] = s[i]
    PROVE  Slice(b, from, to) = s
  BY DEF Slice

\* The ten bytes of a frequency.
LEMMA FrequencyBytesAt ==
    ASSUME NEW r \in FrequencyRecords, Len(r.bits) = 8
    PROVE  /\ \A j \in 1..8 : FrequencyBytes(r)[j] = r.bits[j]
           /\ FrequencyBytes(r)[9] = r.modulation
           /\ FrequencyBytes(r)[10] = r.encryption
  BY DEF FrequencyBytes, FrequencyRecords, frequencyLength

\* A datagram decodes to the packet it was made of, whatever the lengths of its
\* segments are.
LEMMA RoundTrip ==
    ASSUME NEW p, WellFormed(p)
    PROVE  Decode(Encode(p)) = p
  <1>0. SUFFICES ASSUME NEW L, L = p.packetLength, NEW a, a = p.audioSegmentLength,
                       NEW f, f = p.frequenciesSegmentLength, NEW b, b = Encode(p),
                       NEW n, n = Len(p.frequencies)
                PROVE  Decode(b) = p
    OBVIOUS
  <1>1. Laid(p, b, L, a, f)
    BY <1>0, EncodeSegments
  <1>2. /\ L \in Nat /\ a \in Nat /\ f \in Nat /\ L = 64 + a + f /\ L <= MaxUint16
        /\ n \in Nat /\ f = n * 10
    <2>1. L \in Nat /\ a \in Nat /\ f \in Nat /\ L = 64 + a + f
      BY <1>1 DEF Laid
    <2>2. L <= MaxUint16 /\ n \in Nat /\ f = n * 10
      BY <1>0 DEF WellFormed, frequencyLength
    <2>. QED
      BY <2>1, <2>2
  <1>3. LengthAt(b, 0) = L /\ LengthAt(b, 2) = a /\ LengthAt(b, 4) = f
    <2>1. ASSUME NEW m \in Nat, m <= MaxUint16, NEW at \in {0, 2, 4},
                 b[at] = PutUint16(m)[1], b[at + 1] = PutUint16(m)[2]
          PROVE  LengthAt(b, at) = m
      <3>1. Slice(b, at, at + 2)[1] = b[at] /\ Slice(b, at, at + 2)[2] = b[at + 1]
        BY DEF Slice
      <3>2. PutUint16(m)[1] = m % 256 /\ PutUint16(m)[2] = (m \div 256) % 256
        BY DEF PutUint16
      <3>. QED
        BY <2>1, <3>1, <3>2, Uint16RoundTrip DEF LengthAt, Uint16
    <2>2. b[0] = PutUint16(L)[1] /\ b[1] = PutUint16(L)[2]
      BY <1>1 DEF Laid
    <2>3. b[2] = PutUint16(a)[1] /\ b[3] = PutUint16(a)[2]
      BY <1>1 DEF Laid
    <2>4. b[4] = PutUint16(f)[1] /\ b[5] = PutUint16(f)[2]
      BY <1>1 DEF Laid
    <2>5. a <= MaxUint16 /\ f <= MaxUint16
      BY <1>2 DEF MaxUint16
    <2>. QED
      BY <1>2, <2>1, <2>2, <2>3, <2>4, <2>5
  <1>4. Consistent(b)
    <2>1. Cardinality(DOMAIN b) = L
      BY <1>1, <1>2, FS_Interval DEF Laid
    <2>2. f % 10 = 0
      BY <1>2
    <2>. QED
      BY <1>2, <1>3, <2>1, <2>2
      DEF Consistent, headerSegmentLength, fixedSegmentLength, frequencyLength
  <1>5. Slice(b, 6, 6 + a) = p.audio
    <2>1. p.audio \in Seq(Byte) /\ Len(p.audio) = a
      BY <1>0 DEF WellFormed
    <2>2. \A i \in 1..Len(p.audio) : b[5 + i] = p.audio[i]
      BY <1>1, <2>1 DEF Laid
    <2>3. 6 \in Int /\ 6 + a \in Int /\ (6 + a) - (6) = a /\ (6) - 1 = 5
      BY <1>2
    <2>. QED
      BY <2>1, <2>2, <2>3, SliceBytes
  <1>6. Slice(b, L - 44, L - 22) = p.relay
    <2>1. p.relay \in Seq(Byte) /\ Len(p.relay) = 22
      BY <1>0 DEF WellFormed, GUIDLength
    <2>2. \A i \in 1..Len(p.relay) : b[(L - 45) + i] = p.relay[i]
      BY <1>1, <2>1 DEF Laid
    <2>3. ASSUME NEW from \in Int, from = L - 44, NEW to \in Int, to = L - 22,
                 NEW s \in Seq(Byte), s = p.relay
          PROVE  Slice(b, from, to) = s
      <3>1. from - 1 = L - 45
        BY <1>2, <2>3
      <3>2. \A i \in 1..Len(s) : b[(from - 1) + i] = s[i]
        BY <2>2, <2>3, <3>1
      <3>3. Len(s) = to - from
        BY <1>2, <2>1, <2>3
      <3>. QED
        BY <3>2, <3>3, SliceBytes, SMT
    <2>. QED
      BY <1>2, <2>1, <2>3
  <1>7. Slice(b, L - 22, L) = p.origin
    <2>1. p.origin \in Seq(Byte) /\ Len(p.origin) = 22
      BY <1>0 DEF WellFormed, GUIDLength
    <2>2. \A i \in 1..Len(p.origin) : b[(L - 23) + i] = p.origin[i]
      BY <1>1, <2>1 DEF Laid
    <2>3. ASSUME NEW from \in Int, from = L - 22, NEW to \in Int, to = L,
                 NEW s \in Seq(Byte), s = p.origin
          PROVE  Slice(b, from, to) = s
      <3>1. from - 1 = L - 23
        BY <1>2, <2>3
      <3>2. \A i \in 1..Len(s) : b[(from - 1) + i] = s[i]
        BY <2>2, <2>3, <3>1
      <3>3. Len(s) = to - from
        BY <1>2, <2>1, <2>3
      <3>. QED
        BY <3>2, <3>3, SliceBytes, SMT
    <2>. QED
      BY <1>2, <2>1, <2>3
  <1>8. Uint32(Slice(b, L - 57, L - 53)) = p.unitID
    <2>1. \A i \in 1..4 : b[(L - 58) + i] = PutUint32(p.unitID)[i]
      BY <1>1 DEF Laid
    <2>2. \A i \in 1..4 : Slice(b, L - 57, L - 53)[i] = PutUint32(p.unitID)[i]
      BY <1>2, <2>1 DEF Slice
    <2>3. Uint32(Slice(b, L - 57, L - 53)) = Uint32(PutUint32(p.unitID))
      BY <2>2 DEF Uint32
    <2>4. p.unitID \in Nat /\ p.unitID \div 65536 < 65536
      BY <1>0 DEF WellFormed
    <2>5. (p.unitID \div 65536) % 65536 = p.unitID \div 65536
      BY <2>4, SMT
    <2>. QED
      BY <2>3, <2>4, <2>5, Uint32RoundTrip, HighPart
  <1>9. Uint64(Slice(b, L - 53, L - 45)) = p.packetID
    <2>1. \A i \in 1..8 : b[(L - 54) + i] = PutUint64(p.packetID)[i]
      BY <1>1 DEF Laid
    <2>2. \A i \in 1..8 : Slice(b, L - 53, L - 45)[i] = PutUint64(p.packetID)[i]
      BY <1>2, <2>1 DEF Slice
    <2>3. Uint64(Slice(b, L - 53, L - 45)) = Uint64(PutUint64(p.packetID))
      BY <2>2 DEF Uint64, Uint32
    <2>4. /\ p.packetID \in Nat
          /\ ((p.packetID \div 65536) \div 65536) \div 65536 < 65536
      BY <1>0 DEF WellFormed
    <2>. QED
      BY <2>3, <2>4, Uint64RoundTrip
  <1>10. [i \in 1..(f \div 10) |-> FrequencyAt(b, (6 + a) + (i - 1) * 10)] = p.frequencies
    <2>1. f \div 10 = n
      BY <1>2
    <2>2. ASSUME NEW i \in 1..n
          PROVE  FrequencyAt(b, (6 + a) + (i - 1) * 10) = p.frequencies[i]
      <3>0. SUFFICES ASSUME NEW r, r = p.frequencies[i],
                            NEW at, at = (6 + a) + (i - 1) * 10
                     PROVE  FrequencyAt(b, at) = r
        OBVIOUS
      <3>1. r \in FrequencyRecords /\ r.bits \in Seq(Byte) /\ Len(r.bits) = 8 /\ at \in Int
        <4>1. p.frequencies \in Seq(FrequencyRecords) /\ Len(p.frequencies[i].bits) = 8
          BY <1>0 DEF WellFormed
        <4>2. r \in FrequencyRecords /\ Len(r.bits) = 8
          BY <1>0, <3>0, <4>1
        <4>3. r.bits \in Seq(Byte)
          BY <4>2 DEF FrequencyRecords
        <4>. QED
          BY <1>2, <3>0, <4>2, <4>3
      <3>2. \A j \in 1..10 : b[(at - 1) + j] = FrequencyBytes(r)[j]
        <4>1. at - 1 = 5 + a + (i - 1) * 10
          BY <1>2, <3>0
        <4>2. \A j \in 1..10 : b[(5 + a + (i - 1) * 10) + j] = FrequencyBytes(r)[j]
          BY <1>0, <1>1, <3>0 DEF Laid
        <4>. QED
          BY <4>1, <4>2
      <3>3. Slice(b, at, at + 8) = r.bits
        <4>1. ASSUME NEW j \in 1..Len(r.bits)
              PROVE  b[(at - 1) + j] = r.bits[j]
          <5>1. j \in 1..8 /\ j \in 1..10
            BY <3>1
          <5>. QED
            BY <3>1, <3>2, <5>1, FrequencyBytesAt
        <4>2. at + 8 \in Int /\ Len(r.bits) = (at + 8) - at
          BY <3>1
        <4>. QED
          BY <3>1, <4>1, <4>2, SliceBytes
      <3>4. b[at + 8] = r.modulation /\ b[at + 9] = r.encryption
        <4>1. (at - 1) + 9 = at + 8 /\ (at - 1) + 10 = at + 9
          BY <3>1
        <4>2. b[(at - 1) + 9] = FrequencyBytes(r)[9] /\ b[(at - 1) + 10] = FrequencyBytes(r)[10]
          BY <3>2
        <4>. QED
          BY <3>1, <4>1, <4>2, FrequencyBytesAt
      <3>5. r = [bits |-> r.bits, modulation |-> r.modulation,
                 encryption |-> r.encryption]
        BY <3>1 DEF FrequencyRecords
      <3>. QED
        BY <3>3, <3>4, <3>5 DEF FrequencyAt
    <2>3. p.frequencies = [i \in 1..n |-> p.frequencies[i]]
      BY <1>0 DEF WellFormed
    <2>. QED
      BY <2>1, <2>2, <2>3
  <1>11. b[L - 45] = p.hops
    BY <1>1 DEF Laid
  <1>. QED
    <2>1. Decode(b) =
            [packetLength |-> L, audioSegmentLength |-> a, frequenciesSegmentLength |-> f,
             audio |-> Slice(b, 6, 6 + a),
             frequencies |-> [i \in 1..(f \div 10) |->
                                FrequencyAt(b, (6 + a) + (i - 1) * 10)],
             unitID |-> Uint32(Slice(b, L - 22 - 22 - 1 - 8 - 4, L - 22 - 22 - 1 - 8)),
             packetID |-> Uint64(Slice(b, L - 22 - 22 - 1 - 8, L - 22 - 22 - 1)),
             hops |-> b[L - 22 - 22 - 1],
             relay |-> Slice(b, L - 22 - 22, L - 22), origin |-> Slice(b, L - 22, L)]
      BY <1>3, <1>4, Zenon DEF Decode, headerSegmentLength, frequencyLength, GUIDLength
    <2>3. /\ L - 22 - 22 = L - 44 /\ L - 22 - 22 - 1 = L - 45
          /\ L - 22 - 22 - 1 - 8 = L - 53 /\ L - 22 - 22 - 1 - 8 - 4 = L - 57
      BY <1>2
    <2>2. p = [packetLength |-> L, audioSegmentLength |-> a,
               frequenciesSegmentLength |-> f, audio |-> p.audio,
               frequencies |-> p.frequencies, unitID |-> p.unitID,
               packetID |-> p.packetID, hops |-> p.hops, relay |-> p.relay,
               origin |-> p.origin]
      BY <1>0 DEF WellFormed
    <2>. QED
      BY <1>5, <1>6, <1>7, <1>8, <1>9, <1>10, <1>11, <2>1, <2>2, <2>3

-----------------------------------------------------------------------------
(* The inductive invariant *)

Frames == UNION {{speech[i] : i \in DOMAIN speech} : speech \in Speech}
VoicePackets == {Voice(audio, number) : audio \in Frames, number \in 1..MaxPacketNumber}

\* The packets of a transmission have rising numbers between two others.
Numbered(ps, above, below) ==
    /\ ps \in Seq(VoicePackets)
    /\ \A i \in 1..Len(ps) : above < ps[i].packetID /\ ps[i].packetID < below
    /\ \A i, j \in 1..Len(ps) : i < j => ps[i].packetID < ps[j].packetID

Before(ps, qs) ==
    \A i \in 1..Len(ps), j \in 1..Len(qs) : ps[i].packetID < qs[j].packetID

\* What is being written comes before what is queued, in the order of the queue,
\* and that before what encodeVoice has yet to pass on; all of it comes after
\* the last packet written, and before the next to be made.
InOrder ==
    /\ aired < packetNumber
    /\ packetChan \in Seq(Seq(VoicePackets))
    /\ Numbered(packets, aired, packetNumber)
    /\ \A k \in 1..Len(packetChan) : /\ Numbered(packetChan[k], aired, packetNumber)
                                     /\ Before(packets, packetChan[k])
    /\ \A k, l \in 1..Len(packetChan) : k < l => Before(packetChan[k], packetChan[l])
    /\ encoded # None =>
         /\ Numbered(encoded, aired, packetNumber)
         /\ Before(packets, encoded)
         /\ \A k \in 1..Len(packetChan) : Before(packetChan[k], encoded)

TxInv == TxTypeOK /\ InOrder

-----------------------------------------------------------------------------
(* Voice packets *)

\* Fewer bits are enough for a smaller number.
LEMMA QuotientMonotone ==
    ASSUME NEW m \in Nat, NEW n \in Nat, m <= n
    PROVE  m \div 65536 \in Nat /\ n \div 65536 \in Nat /\ m \div 65536 <= n \div 65536
  BY SMT

\* A packet carries its number, and every one encodeVoice makes can be sent: the
\* lengths are truncated nowhere and do not overflow.
LEMMA VoiceWellFormed ==
    ASSUME NEW audio \in Frames, NEW number \in 1..MaxPacketNumber
    PROVE  /\ Voice(audio, number).packetID = number
           /\ WellFormed(Voice(audio, number))
  <1>0. SUFFICES ASSUME NEW p, p = Voice(audio, number), NEW a, a = Len(audio),
                        NEW n, n = Len(Frequencies), NEW f, f = n * 10
                 PROVE  p.packetID = number /\ WellFormed(p)
    OBVIOUS
  <1>1. audio \in Seq(Byte) /\ a \in Nat /\ a <= 1024
    BY <1>0, TransmissionAssumption DEF Frames, encodingBufferSize
  <1>2. /\ Frequencies \in Seq(FrequencyRecords) /\ n \in Nat
        /\ 64 + 1024 + f <= 65535 /\ f \in Nat
        /\ \A i \in 1..n : Len(Frequencies[i].bits) = 8
    BY <1>0, TransmissionAssumption
    DEF FrequencyRecords, headerSegmentLength, encodingBufferSize, frequencyLength,
        fixedSegmentLength, MaxUint16
  <1>3. SubSeq(audio, 1, a) = audio /\ SubSeq(Frequencies, 1, n) = Frequencies
    BY <1>0, <1>1, <1>2
  <1>4. f \div 10 = n /\ ~(a > 65535) /\ ~(f > 65535) /\ (6 + a + f + 58) % 65536 = 64 + a + f
    <2>1. f \div 10 = n
      BY <1>0, <1>2
    <2>2. ASSUME NEW x \in Int, 0 <= x, x <= 65535
          PROVE  x % 65536 = x
      BY <2>2, SMT
    <2>3. 6 + a + f + 58 = 64 + a + f /\ 64 + a + f <= 65535
      BY <1>1, <1>2
    <2>. QED
      BY <1>1, <1>2, <2>1, <2>2, <2>3
  <1>5. p = [packetLength |-> (6 + a + f + 58) % (65535 + 1), audioSegmentLength |-> a,
             frequenciesSegmentLength |-> f, audio |-> SubSeq(audio, 1, a),
             frequencies |-> SubSeq(Frequencies, 1, f \div 10), unitID |-> 100000002,
             packetID |-> number, hops |-> 0, relay |-> GUID, origin |-> GUID]
    BY <1>0, <1>1, <1>2, <1>4, SMT
    DEF Voice, NewPacket, MaxUint16, frequencyLength, headerSegmentLength,
        fixedSegmentLength
  <1>6. ((number \div 65536) \div 65536) \div 65536 < 65536
    <2>1. MaxPacketNumber \in Nat /\ number \in Nat /\ number <= MaxPacketNumber
      BY TransmissionAssumption
    <2>2. /\ number \div 65536 \in Nat /\ MaxPacketNumber \div 65536 \in Nat
          /\ number \div 65536 <= MaxPacketNumber \div 65536
      BY <2>1, QuotientMonotone
    <2>3. /\ (number \div 65536) \div 65536 \in Nat
          /\ (MaxPacketNumber \div 65536) \div 65536 \in Nat
          /\ (number \div 65536) \div 65536 <= (MaxPacketNumber \div 65536) \div 65536
      BY <2>2, QuotientMonotone
    <2>4. /\ ((number \div 65536) \div 65536) \div 65536 \in Nat
          /\ ((MaxPacketNumber \div 65536) \div 65536) \div 65536 \in Nat
          /\ ((number \div 65536) \div 65536) \div 65536
               <= ((MaxPacketNumber \div 65536) \div 65536) \div 65536
      BY <2>3, QuotientMonotone
    <2>. QED
      BY <2>4, TransmissionAssumption
  <1>7. 100000002 \div 65536 < 65536
    BY SMT
  <1>8. /\ p.packetLength = 64 + a + f /\ p.audioSegmentLength = a
        /\ p.frequenciesSegmentLength = f /\ p.audio = audio
        /\ p.frequencies = Frequencies /\ p.unitID = 100000002 /\ p.packetID = number
        /\ p.hops = 0 /\ p.relay = GUID /\ p.origin = GUID
    <2>1. (6 + a + f + 58) % (65535 + 1) = 64 + a + f
      BY <1>1, <1>2, <1>4, SMT
    <2>2. SubSeq(Frequencies, 1, f \div 10) = Frequencies
      BY <1>3, <1>4
    <2>3. p.packetLength = 64 + a + f
      BY <1>5, <2>1
    <2>4. p.audio = audio /\ p.frequencies = Frequencies
      BY <1>3, <1>5, <2>2
    <2>. QED
      BY <1>5, <2>3, <2>4, SMT
  <1>9. p \in [packetLength : Nat, audioSegmentLength : Nat,
               frequenciesSegmentLength : Nat, audio : Seq(Byte),
               frequencies : Seq(FrequencyRecords), unitID : Nat, packetID : Nat,
               hops : Byte, relay : Seq(Byte), origin : Seq(Byte)]
    <2>1. number \in Nat /\ 0 \in Byte /\ 64 + a + f \in Nat /\ 100000002 \in Nat
      BY <1>1, <1>2, SMT DEF Byte
    <2>2. DOMAIN p = {"packetLength", "audioSegmentLength", "frequenciesSegmentLength",
                      "audio", "frequencies", "unitID", "packetID", "hops", "relay",
                      "origin"}
      BY <1>5
    <2>. QED
      BY <1>1, <1>2, <1>5, <1>8, <2>1, <2>2, TransmissionAssumption, SMT
  <1>10. /\ p.packetLength = 6 + p.audioSegmentLength + p.frequenciesSegmentLength + 58
         /\ p.packetLength <= 65535
    BY <1>1, <1>2, <1>8, SMT
  <1>11. /\ Len(p.audio) = p.audioSegmentLength
         /\ p.frequenciesSegmentLength = Len(p.frequencies) * 10
         /\ \A i \in 1..Len(p.frequencies) : Len(p.frequencies[i].bits) = 8
         /\ Len(p.relay) = 22 /\ Len(p.origin) = 22
    BY <1>0, <1>2, <1>8, TransmissionAssumption, SMT DEF GUIDLength
  <1>. QED
    BY <1>6, <1>7, <1>8, <1>9, <1>10, <1>11, SMT
    DEF WellFormed, GUIDLength, headerSegmentLength, fixedSegmentLength,
        frequencyLength, MaxUint16

\* The numbers of voice packets are numbers.
LEMMA VoicePacketID ==
    ASSUME NEW p \in VoicePackets
    PROVE  p.packetID \in Nat /\ WellFormed(p)
  BY VoiceWellFormed DEF VoicePackets

-----------------------------------------------------------------------------
(* The steps of the encoder and the transmitter *)

flow == <<encoded, packetNumber, packetChan, packets, aired>>

LEMMA InOrderInit == TxInit => InOrder
  BY SMT DEF TxInit, InOrder, Numbered, Before

\* Nothing else touches what is on its way.
LEMMA InOrderStutters == InOrder /\ UNCHANGED flow => InOrder'
  BY DEF InOrder, Numbered, Before, flow

\* New packets are numbered after all that are on their way.
LEMMA EncodeVoiceInOrder ==
    ASSUME TxTypeOK, InOrder, NEW speech \in Speech, EncodeVoice(speech)
    PROVE  InOrder'
  <1>1. /\ encoded' = EncodeFrames(speech) /\ packetNumber' = packetNumber + Len(speech)
        /\ packetChan' = packetChan /\ packets' = packets /\ aired' = aired
        /\ packetNumber + Len(speech) <= MaxPacketNumber
    BY DEF EncodeVoice, transmitter
  <1>2. /\ speech \in Seq(Seq(Byte)) /\ Len(speech) \in Nat
        /\ packetNumber \in Nat /\ 1 <= packetNumber /\ aired \in Nat
        /\ MaxPacketNumber \in Nat
    BY TransmissionAssumption, SMT DEF TxTypeOK
  <1>3. ASSUME NEW i \in 1..Len(speech)
        PROVE  /\ EncodeFrames(speech)[i] \in VoicePackets
               /\ EncodeFrames(speech)[i].packetID = packetNumber + i - 1
    <2>1. /\ DOMAIN speech = 1..Len(speech) /\ speech[i] \in Frames
          /\ EncodeFrames(speech)[i] = Voice(speech[i], packetNumber + i - 1)
      BY <1>2, SMT DEF Frames, EncodeFrames
    <2>2. packetNumber + i - 1 \in 1..MaxPacketNumber
      BY <1>1, <1>2, SMT
    <2>. QED
      BY <2>1, <2>2, VoiceWellFormed DEF VoicePackets
  <1>4. EncodeFrames(speech) \in Seq(VoicePackets) /\ Len(EncodeFrames(speech)) = Len(speech)
    <2>1. ASSUME NEW es, es = EncodeFrames(speech), NEW n \in Nat, n = Len(speech)
          PROVE  es \in Seq(VoicePackets) /\ Len(es) = n
      <3>1. es = [i \in 1..n |-> es[i]]
        BY <1>2, <2>1 DEF EncodeFrames
      <3>2. \A i \in 1..n : es[i] \in VoicePackets
        BY <1>3, <2>1
      <3>3. es \in Seq(VoicePackets)
        BY <3>1, <3>2
      <3>. QED
        BY <3>1, <3>3
    <2>. QED
      BY <1>2, <2>1
  <1>5. Numbered(encoded', aired', packetNumber')
    <2>1. ASSUME NEW es \in Seq(VoicePackets), Len(es) = Len(speech),
                 \A i \in 1..Len(speech) : es[i].packetID = packetNumber + i - 1
          PROVE  Numbered(es, aired, packetNumber + Len(speech))
      <3>1. aired < packetNumber
        BY DEF InOrder
      <3>2. ASSUME NEW i \in 1..Len(es)
            PROVE  aired < es[i].packetID /\ es[i].packetID < packetNumber + Len(speech)
        BY <1>2, <2>1, <3>1
      <3>3. ASSUME NEW i \in 1..Len(es), NEW j \in 1..Len(es), i < j
            PROVE  es[i].packetID < es[j].packetID
        BY <1>2, <2>1, <3>3
      <3>. QED
        BY <3>2, <3>3 DEF Numbered
    <2>. QED
      BY <1>1, <1>3, <1>4, <2>1
  <1>6. ASSUME NEW ps, Numbered(ps, aired, packetNumber)
        PROVE  Numbered(ps, aired', packetNumber') /\ Before(ps, encoded')
    <2>1. \A i \in 1..Len(ps) : ps[i].packetID \in Nat
      BY <1>6, VoicePacketID, SMT DEF Numbered
    <2>2. ASSUME NEW i \in 1..Len(ps)
          PROVE  ps[i].packetID < packetNumber + Len(speech)
      BY <1>2, <1>6, <2>1 DEF Numbered
    <2>3. Numbered(ps, aired', packetNumber')
      BY <1>1, <1>6, <2>2 DEF Numbered
    <2>4. Before(ps, encoded')
      BY <1>1, <1>2, <1>3, <1>4, <1>6, <2>1, SMT DEF Numbered, Before
    <2>. QED
      BY <2>3, <2>4
  <1>7. aired' < packetNumber'
    BY <1>1, <1>2 DEF InOrder
  <1>8. /\ packetChan' \in Seq(Seq(VoicePackets))
        /\ Numbered(packets', aired', packetNumber') /\ Before(packets', encoded')
    BY <1>1, <1>6 DEF InOrder
  <1>9. ASSUME NEW k \in 1..Len(packetChan)
        PROVE  /\ Numbered(packetChan'[k], aired', packetNumber')
               /\ Before(packets', packetChan'[k]) /\ Before(packetChan'[k], encoded')
    BY <1>1, <1>6 DEF InOrder
  <1>10. \A k, l \in 1..Len(packetChan') : k < l => Before(packetChan'[k], packetChan'[l])
    BY <1>1 DEF InOrder
  <1>. QED
    BY <1>1, <1>5, <1>7, <1>8, <1>9, <1>10 DEF InOrder

\* What is passed on goes to the end of the queue.
LEMMA PassOnInOrder ==
    ASSUME InOrder, PassOn
    PROVE  InOrder'
  <1>1. /\ encoded # None /\ packetChan' = Append(packetChan, encoded) /\ encoded' = None
        /\ packets' = packets /\ aired' = aired /\ packetNumber' = packetNumber
    BY DEF PassOn, transmitter
  <1>2. packetChan \in Seq(Seq(VoicePackets)) /\ encoded \in Seq(VoicePackets)
    BY <1>1 DEF InOrder, Numbered
  <1>3. /\ packetChan' \in Seq(Seq(VoicePackets)) /\ Len(packetChan') = Len(packetChan) + 1
        /\ Len(packetChan) \in Nat
        /\ \A k \in 1..Len(packetChan) : packetChan'[k] = packetChan[k]
        /\ packetChan'[Len(packetChan) + 1] = encoded
    BY <1>1, <1>2
  <1>4. \A k \in 1..Len(packetChan') : k \in 1..Len(packetChan) \/ k = Len(packetChan) + 1
    BY <1>3
  <1>5. ASSUME NEW k \in 1..Len(packetChan')
        PROVE  Numbered(packetChan'[k], aired', packetNumber') /\ Before(packets', packetChan'[k])
    BY <1>1, <1>3, <1>4 DEF InOrder
  <1>6. ASSUME NEW k \in 1..Len(packetChan'), NEW l \in 1..Len(packetChan'), k < l
        PROVE  Before(packetChan'[k], packetChan'[l])
    <2>1. k \in 1..Len(packetChan)
      BY <1>3, <1>6
    <2>. QED
      BY <1>1, <1>3, <1>4, <1>6, <2>1 DEF InOrder
  <1>. QED
    BY <1>1, <1>3, <1>5, <1>6 DEF InOrder

\* What is taken is the first of the queue, when there is nothing to write.
LEMMA TakePacketsInOrder ==
    ASSUME InOrder, TakePackets
    PROVE  InOrder'
  <1>1. /\ packetChan # <<>> /\ packets' = Head(packetChan) /\ packetChan' = Tail(packetChan)
        /\ encoded' = encoded /\ aired' = aired /\ packetNumber' = packetNumber
    BY DEF TakePackets, encoder
  <1>2. packetChan \in Seq(Seq(VoicePackets)) /\ Len(packetChan) \in Nat /\ 1 <= Len(packetChan)
    BY <1>1 DEF InOrder
  <1>3. /\ packetChan' \in Seq(Seq(VoicePackets)) /\ Len(packetChan') = Len(packetChan) - 1
        /\ \A k \in 1..Len(packetChan') : packetChan'[k] = packetChan[k + 1]
        /\ packets' = packetChan[1]
    BY <1>1, <1>2
  <1>4. \A k \in 1..Len(packetChan') : k + 1 \in 1..Len(packetChan) /\ 1 < k + 1
    BY <1>2, <1>3
  <1>5. 1 \in 1..Len(packetChan)
    BY <1>2
  <1>6. ASSUME NEW k \in 1..Len(packetChan')
        PROVE  Numbered(packetChan'[k], aired', packetNumber') /\ Before(packets', packetChan'[k])
    BY <1>1, <1>3, <1>4, <1>5 DEF InOrder
  <1>7. ASSUME NEW k \in 1..Len(packetChan'), NEW l \in 1..Len(packetChan'), k < l
        PROVE  Before(packetChan'[k], packetChan'[l])
    <2>1. k + 1 < l + 1
      BY <1>7
    <2>. QED
      BY <1>3, <1>4, <2>1 DEF InOrder
  <1>8. encoded' # None =>
          /\ Numbered(encoded', aired', packetNumber') /\ Before(packets', encoded')
          /\ \A k \in 1..Len(packetChan') : Before(packetChan'[k], encoded')
    BY <1>1, <1>3, <1>4, <1>5 DEF InOrder
  <1>. QED
    BY <1>1, <1>3, <1>5, <1>6, <1>7, <1>8 DEF InOrder

\* Packets may be dropped.
LEMMA DropInOrder ==
    ASSUME InOrder, packets' = <<>>, encoded' = encoded, packetNumber' = packetNumber,
           packetChan' = packetChan, aired' = aired
    PROVE  InOrder'
  <1>1. /\ Numbered(packets', aired', packetNumber')
        /\ \A ps : Before(packets', ps)
    BY SMT DEF Numbered, Before
  <1>. QED
    BY <1>1 DEF InOrder

\* A packet that is written comes before all that are left.
LEMMA WriteInOrder ==
    ASSUME TxTypeOK, InOrder, packets # <<>>, packets' = Tail(packets),
           aired' = aired \/ aired' = Head(packets).packetID,
           encoded' = encoded, packetNumber' = packetNumber, packetChan' = packetChan
    PROVE  InOrder'
  <1>1. packets \in Seq(VoicePackets) /\ Len(packets) \in Nat /\ 1 <= Len(packets)
    BY DEF InOrder, Numbered
  <1>2. /\ packets' \in Seq(VoicePackets) /\ Len(packets') = Len(packets) - 1
        /\ \A i \in 1..Len(packets') : packets'[i] = packets[i + 1]
        /\ Head(packets) = packets[1]
    BY <1>1
  <1>3. \A i \in 1..Len(packets') : i + 1 \in 1..Len(packets) /\ 1 < i + 1
    BY <1>1, <1>2
  <1>4. 1 \in 1..Len(packets) /\ packets[1].packetID \in Nat /\ aired \in Nat
    BY <1>1, VoicePacketID DEF TxTypeOK
  <1>5. aired <= aired' /\ aired' <= packets[1].packetID /\ aired' \in Nat
    BY <1>2, <1>4 DEF InOrder, Numbered
  <1>6. Numbered(packets', aired', packetNumber')
    <2>1. ASSUME NEW i \in 1..Len(packets')
          PROVE  aired' < packets'[i].packetID /\ packets'[i].packetID < packetNumber'
      <3>1. packets[1].packetID < packets[i + 1].packetID /\ packets[i + 1].packetID \in Nat
        BY <1>1, <1>3, <1>4, VoicePacketID DEF InOrder, Numbered
      <3>. QED
        BY <1>2, <1>3, <1>4, <1>5, <3>1 DEF InOrder, Numbered
    <2>2. ASSUME NEW i \in 1..Len(packets'), NEW j \in 1..Len(packets'), i < j
          PROVE  packets'[i].packetID < packets'[j].packetID
      <3>1. i + 1 < j + 1
        BY <2>2
      <3>. QED
        BY <1>2, <1>3, <3>1 DEF InOrder, Numbered
    <2>. QED
      BY <1>2, <2>1, <2>2 DEF Numbered
  <1>7. ASSUME NEW ps, Numbered(ps, aired, packetNumber), Before(packets, ps)
        PROVE  Numbered(ps, aired', packetNumber') /\ Before(packets', ps)
    <2>1. ps \in Seq(VoicePackets) /\ \A i \in 1..Len(ps) : ps[i].packetID \in Nat
      BY <1>7, VoicePacketID DEF Numbered
    <2>2. \A i \in 1..Len(ps) : packets[1].packetID < ps[i].packetID
      BY <1>4, <1>7 DEF Before
    <2>3. \A i \in 1..Len(ps) : aired' < ps[i].packetID
      BY <1>4, <1>5, <2>1, <2>2
    <2>4. Before(packets', ps)
      BY <1>2, <1>3, <1>7 DEF Before
    <2>. QED
      BY <1>7, <2>3, <2>4 DEF Numbered
  <1>8. aired' < packetNumber'
    <2>1. packets[1].packetID < packetNumber /\ packetNumber \in Nat
      BY <1>4, TransmissionAssumption DEF InOrder, Numbered, TxTypeOK
    <2>. QED
      BY <1>4, <1>5, <2>1
  <1>9. /\ packetChan' \in Seq(Seq(VoicePackets))
        /\ \A k \in 1..Len(packetChan') : Numbered(packetChan'[k], aired', packetNumber')
                                           /\ Before(packets', packetChan'[k])
        /\ \A k, l \in 1..Len(packetChan') : k < l => Before(packetChan'[k], packetChan'[l])
    BY <1>7 DEF InOrder
  <1>10. encoded' # None =>
          /\ Numbered(encoded', aired', packetNumber') /\ Before(packets', encoded')
          /\ \A k \in 1..Len(packetChan') : Before(packetChan'[k], encoded')
    BY <1>7 DEF InOrder
  <1>. QED
    BY <1>6, <1>8, <1>9, <1>10 DEF InOrder

-----------------------------------------------------------------------------
(* The steps of the specification *)

\* Autoheal keeps its types.
LEMMA AutohealType ==
    ASSUME TypeOK, ConnectionNext \/ ReconnectNext
    PROVE  TypeOK'
  <1>. USE AutohealAssumption DEF TypeOK
  <1>1. CASE ServerStops \/ ServerStarts
    BY <1>1 DEF ServerStops, ServerStarts
  <1>2. CASE Tick
    <2>1. ASSUME NEW age \in Age
          PROVE  Older(age) \in Age
      BY DEF Older, Age
    <2>. QED
      BY <1>2, <2>1 DEF Tick
  <1>3. CASE ReceivePingPacket
    <2>1. pings' \in 0..PingCap
      BY <1>3, SMT DEF ReceivePingPacket
    <2>. QED
      BY <1>3, <2>1, Zenon DEF ReceivePingPacket
  <1>4. CASE PingNext
    BY <1>4 DEF PingNext, TakePing, RecordPing, Age
  <1>5. CASE ReaderNext
    BY <1>5 DEF ReaderNext, ReadError, ReaderWakes
  <1>6. CASE HealTick \/ ReconnectTCP \/ EndBackoff
    BY <1>6 DEF HealTick, ReconnectTCP, EndBackoff
  <1>7. CASE CloseUDP
    BY <1>7 DEF CloseUDP, vars
  <1>8. ASSUME NEW resolves \in BOOLEAN, ReplaceUDP(resolves)
        PROVE  TypeOK'
    BY <1>8 DEF ReplaceUDP, ReconnectUDP
  <1>9. CASE Reinitialize
    <2>1. 0 \in Age
      BY SMT DEF Age
    <2>. QED
      BY <1>9, <2>1, Zenon DEF Reinitialize, Initialize, InitializeDead
  <1>. QED
    BY <1>1, <1>2, <1>3, <1>4, <1>5, <1>6, <1>7, <1>8, <1>9
    DEF ConnectionNext, ReconnectNext

\* What a step does to the packets on their way, and to the counters.
LEMMA TxStep ==
    ASSUME TxInv, [TxNext]_allVars
    PROVE  TxInv'
  <1>. MaxTransmissions \in Nat /\ MaxPacketNumber \in Nat /\ TxCap \in Nat
         /\ Speech \subseteq Seq(Seq(Byte))
    BY TransmissionAssumption
  <1>. DEFINE TxOwn == /\ udp \in {"open", "closed"}
                       /\ receiving \in BOOLEAN
                       /\ said \in 0..MaxTransmissions
                       /\ packetNumber \in 1..MaxPacketNumber
                       /\ Len(packetChan) <= TxCap
                       /\ txPc \in {"select", "clear", "sleep", "write"}
                       /\ aired \in Nat
                       /\ (txPc = "select" => packets = <<>>)
  <1>0. TxTypeOK /\ InOrder /\ TypeOK /\ TxOwn
    BY DEF TxInv, TxTypeOK
  <1>1. SUFFICES TypeOK' /\ TxOwn' /\ InOrder'
    BY DEF TxInv, TxTypeOK
  <1>2. CASE UNCHANGED allVars
    <2>1. UNCHANGED <<vars, udp, receiving, said, encoded, packetNumber, packetChan, txPc,
                      packets, aired>>
      BY <1>2 DEF allVars, txVars, encoder, transmitter
    <2>. QED
      BY <1>0, <2>1, InOrderStutters DEF TypeOK, vars, flow
  <1>3. CASE ConnectionNext
    <2>1. UNCHANGED <<udp, receiving, said, encoded, packetNumber, packetChan, txPc,
                      packets, aired>>
      BY <1>3 DEF ConnectionNext, txVars, encoder, transmitter
    <2>. QED
      BY <1>0, <1>3, <2>1, AutohealType, InOrderStutters DEF flow
  <1>4. CASE ReconnectNext
    <2>1. /\ UNCHANGED <<said, encoded, packetNumber, packetChan, txPc, packets, aired>>
          /\ udp' \in {"open", "closed"} /\ receiving' \in BOOLEAN
      <3>1. CASE (HealTick \/ ReconnectTCP \/ EndBackoff) /\ UNCHANGED txVars
        BY <1>0, <3>1, Zenon DEF txVars, encoder, transmitter
      <3>2. CASE CloseUDP
        BY <1>0, <3>2, Zenon DEF CloseUDP, encoder, transmitter
      <3>3. CASE \E resolves \in BOOLEAN : ReplaceUDP(resolves)
        BY <1>0, <3>3, Zenon DEF ReplaceUDP, encoder, transmitter
      <3>4. CASE Reinitialize
        BY <1>0, <3>4, Zenon DEF Reinitialize, encoder, transmitter
      <3>. QED
        BY <1>4, <3>1, <3>2, <3>3, <3>4 DEF ReconnectNext
    <2>. QED
      BY <1>0, <1>4, <2>1, AutohealType, InOrderStutters DEF flow
  <1>5. CASE UNCHANGED vars /\ \E speech \in Speech : EncodeVoice(speech)
    <2>. PICK speech \in Speech : EncodeVoice(speech)
      BY <1>5
    <2>1. TypeOK'
      BY <1>0, <1>5 DEF TypeOK, vars
    <2>2. /\ UNCHANGED <<udp, receiving, packetChan, txPc, packets, aired>>
          /\ said < MaxTransmissions /\ said' = said + 1
          /\ packetNumber' = packetNumber + Len(speech)
          /\ packetNumber + Len(speech) <= MaxPacketNumber
      BY DEF EncodeVoice, transmitter
    <2>3. Len(speech) \in Nat
      OBVIOUS
    <2>4. packetNumber' \in 1..MaxPacketNumber /\ said' \in 0..MaxTransmissions
      BY <1>0, <2>2, <2>3
    <2>. QED
      BY <1>0, <2>1, <2>2, <2>4, EncodeVoiceInOrder
  <1>6. CASE UNCHANGED vars /\ (Receive \/ EncoderFails)
    <2>1. /\ UNCHANGED <<udp, encoded, packetNumber, packetChan, txPc, packets, aired>>
          /\ receiving' \in BOOLEAN /\ said' \in 0..MaxTransmissions
      <3>1. CASE Receive
        BY <1>0, <3>1, Zenon DEF Receive, encoder, transmitter
      <3>2. CASE EncoderFails
        BY <1>0, <3>2 DEF EncoderFails, transmitter
      <3>. QED
        BY <1>6, <3>1, <3>2
    <2>. QED
      BY <1>0, <1>6, <2>1, InOrderStutters DEF TypeOK, vars, flow
  <1>7. CASE UNCHANGED vars /\ PassOn
    <2>1. packetChan \in Seq(Seq(VoicePackets))
      BY <1>0 DEF InOrder
    <2>2. Len(packetChan') <= TxCap
      BY <1>7, <2>1 DEF PassOn
    <2>3. UNCHANGED <<udp, receiving, said, packetNumber, txPc, packets, aired>>
      BY <1>7 DEF PassOn, transmitter
    <2>. QED
      BY <1>0, <1>7, <2>2, <2>3, PassOnInOrder DEF TypeOK, vars
  <1>8. CASE UNCHANGED vars /\ TakePackets
    <2>1. packetChan \in Seq(Seq(VoicePackets))
      BY <1>0 DEF InOrder
    <2>2. Len(packetChan') <= TxCap
      BY <1>0, <1>8, <2>1 DEF TakePackets
    <2>3. UNCHANGED <<udp, receiving, said, packetNumber, aired>> /\ txPc' = "clear"
      BY <1>8 DEF TakePackets, encoder
    <2>. QED
      BY <1>0, <1>8, <2>2, <2>3, TakePacketsInOrder DEF TypeOK, vars
  <1>9. CASE UNCHANGED vars /\ (WaitForClearChannel \/ Wake \/ EndWrite)
    <2>1. /\ UNCHANGED <<udp, receiving, said, encoded, packetNumber, packetChan, aired>>
          /\ txPc' \in {"select", "clear", "sleep", "write"}
          /\ txPc' = "select" => packets' = <<>>
          /\ packets' \in {packets, <<>>}
      BY <1>9 DEF WaitForClearChannel, Wake, EndWrite, encoder
    <2>2. InOrder'
      BY <1>0, <2>1, DropInOrder, InOrderStutters DEF flow
    <2>. QED
      BY <1>0, <1>9, <2>1, <2>2 DEF TypeOK, vars
  <1>10. CASE UNCHANGED vars /\ \E err \in BOOLEAN : WritePacket(err)
    <2>1. /\ UNCHANGED <<udp, receiving, said, encoded, packetNumber, packetChan>>
          /\ packets # <<>>
          /\ \/ packets' = <<>> /\ aired' = aired /\ txPc' = "select"
             \/ /\ packets' = Tail(packets) /\ txPc' = txPc /\ txPc = "write"
                /\ aired' = aired \/ aired' = Head(packets).packetID
      BY <1>10 DEF WritePacket, encoder
    <2>2. InOrder'
      BY <1>0, <2>1, DropInOrder, WriteInOrder
    <2>3. aired' \in Nat
      <3>1. Head(packets).packetID \in Nat
        <4>1. packets \in Seq(VoicePackets)
          BY <1>0 DEF InOrder, Numbered
        <4>. QED
          BY <2>1, <4>1, VoicePacketID
      <3>. QED
        BY <1>0, <2>1, <3>1
    <2>. QED
      BY <1>0, <1>10, <2>1, <2>2, <2>3 DEF TypeOK, vars
  <1>. QED
    BY <1>2, <1>3, <1>4, <1>5, <1>6, <1>7, <1>8, <1>9, <1>10 DEF TxNext, SpeakNext

-----------------------------------------------------------------------------
(* The theorems *)

LEMMA TxInvariant == TxSpec => []TxInv
  <1>1. TxInit => TxInv
    <2>1. TxInit => TxTypeOK
      <3>1. 0 \in Age /\ 0 \in 0..PingCap
        BY AutohealAssumption DEF Age
      <3>2. TxInit => TypeOK
        BY <3>1, Zenon DEF TxInit, Init, TypeOK
      <3>3. FALSE \in BOOLEAN
        OBVIOUS
      <3>4. 1 \in 1..MaxPacketNumber /\ 0 \in 0..MaxTransmissions /\ Len(<<>>) <= TxCap /\ 0 \in Nat
        BY TransmissionAssumption
      <3>. QED
        BY <3>2, <3>3, <3>4, Zenon DEF TxInit, TxTypeOK
    <2>. QED
      BY <2>1, InOrderInit DEF TxInv
  <1>. QED
    BY <1>1, TxStep, PTL DEF TxSpec

\* The state of the connection, of the encoder and of the transmitter has its
\* types; the queue keeps to its capacity, and transmitPackets waits with
\* nothing left to write.
THEOREM TxTypeCorrect == TxSpec => []TxTypeOK
  BY TxInvariant, PTL DEF TxInv

\* Every packet transmitPackets writes decodes to itself, whatever frames Opus
\* makes, however many radios there are, and up to the last number of 64 bits.
THEOREM PacketsReadable == TxSpec => []Readable
  <1>1. TxInv => Readable
    <2>. SUFFICES ASSUME TxInv, packets # <<>>
                  PROVE  Decode(Encode(Head(packets))) = Head(packets)
      BY DEF Readable
    <2>1. packets \in Seq(VoicePackets)
      BY DEF TxInv, InOrder, Numbered
    <2>2. Head(packets) \in VoicePackets
      BY <2>1
    <2>. QED
      BY <2>2, VoicePacketID, RoundTrip
  <1>. QED
    BY <1>1, TxInvariant, PTL

\* The numbers of the packets that leave rise, over transmissions, errors and
\* reconnections.
THEOREM PacketNumbersRise == TxSpec => NumbersRise
  <1>1. TxInv /\ [TxNext]_allVars => [aired' # aired => aired' > aired]_allVars
    <2>. SUFFICES ASSUME TxInv, [TxNext]_allVars, aired' # aired
                  PROVE  aired' > aired
      OBVIOUS
    <2>1. \E err \in BOOLEAN : WritePacket(err)
      BY DEF TxNext, allVars, txVars, transmitter, encoder, ConnectionNext, ReconnectNext, CloseUDP,
             ReplaceUDP, Reinitialize, EncodeVoice, EncoderFails, Receive, SpeakNext,
             PassOn, TakePackets, WaitForClearChannel, Wake, EndWrite
    <2>2. packets # <<>> /\ aired' = Head(packets).packetID
      BY <2>1 DEF WritePacket
    <2>3. packets \in Seq(VoicePackets) /\ aired \in Nat
      BY DEF TxInv, TxTypeOK, InOrder, Numbered
    <2>4. /\ Head(packets) = packets[1] /\ 1 \in 1..Len(packets)
          /\ packets[1].packetID \in Nat
      BY <2>2, <2>3, VoicePacketID
    <2>5. aired < packets[1].packetID
      BY <2>4 DEF TxInv, InOrder, Numbered
    <2>. QED
      BY <2>2, <2>3, <2>4, <2>5
  <1>. QED
    BY <1>1, TxInvariant, PTL DEF TxSpec, NumbersRise
=============================================================================
