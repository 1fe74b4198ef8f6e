-------------------------- MODULE ReceptionProofs --------------------------
(***************************************************************************)
(* What the receivers hold and what the application gets, for every number *)
(* of clients and radios, every packet number and every buffer size.       *)
(***************************************************************************)
EXTENDS Reception, TLAPS

----------------------------------------------------------------------------
(* Transmissions *)

\* A newer packet of the same sender extends a transmission.
LEMMA AppendVoice ==
    ASSUME NEW t \in Seq(Packet), NEW p \in Packet, OneVoice(t),
           \A i \in 1..Len(t) : /\ t[i].origin = p.origin
                                /\ t[i].number < p.number
    PROVE  OneVoice(Append(t, p))
<1>1. /\ Len(Append(t, p)) = Len(t) + 1
      /\ \A i \in 1..Len(t) : Append(t, p)[i] = t[i]
      /\ Append(t, p)[Len(t) + 1] = p
  OBVIOUS
<1>2. \A i \in 1..Len(Append(t, p)) : Append(t, p)[i] \in Packet
  BY <1>1 DEF OneVoice
<1>3. ASSUME NEW i \in 1..Len(Append(t, p)), NEW j \in 1..Len(Append(t, p)),
             i < j
      PROVE  /\ Append(t, p)[i].origin = Append(t, p)[j].origin
             /\ Append(t, p)[i].number < Append(t, p)[j].number
  <2>1. i \in 1..Len(t) /\ (j \in 1..Len(t) \/ j = Len(t) + 1)
    BY <1>1, <1>3
  <2> QED BY <1>1, <1>3, <2>1 DEF OneVoice
<1> QED BY <1>2, <1>3 DEF OneVoice

\* A sequence that is not empty has a first element.
LEMMA FirstElement ==
    ASSUME NEW S, NEW t \in Seq(S), t # <<>>
    PROVE  1 \in 1..Len(t) /\ t[1] \in S
OBVIOUS

\* The empty transmission is a transmission.
LEMMA EmptyVoice == OneVoice(<<>>)
BY DEF OneVoice

----------------------------------------------------------------------------
(* Type correctness *)

\* A packet in flight carries a natural number.
LEMMA PacketType ==
    ASSUME NEW p \in Packet
    PROVE  p.origin \in Client /\ p.number \in Nat /\ p.radios \in SUBSET Radio
BY ReceptionAssumption DEF Packet

\* The types of the receivers.
ReceiversTypeOK ==
    /\ buffer \in [Radio -> Seq(Packet)]
    /\ origin \in [Radio -> Client \cup {Nil}]
    /\ packetNumber \in [Radio -> Nat]
    /\ lapsed \in [Radio -> BOOLEAN]

\* The locked part of receive keeps the receivers' types.
LEMMA BufferedType ==
    ASSUME ReceiversTypeOK, NEW r \in Radio, NEW p \in Packet, buffered(r, p)
    PROVE  ReceiversTypeOK'
<1>1. p.origin \in Client /\ p.number \in Nat
  BY PacketType
<1>2. buffer' \in [Radio -> Seq(Packet)]
  BY DEF ReceiversTypeOK, buffered
<1> QED BY <1>1, <1>2 DEF ReceiversTypeOK, buffered

\* reset keeps the receivers' types.
LEMMA ResetType ==
    ASSUME ReceiversTypeOK, NEW r \in Radio, reset(r)
    PROVE  ReceiversTypeOK'
BY DEF ReceiversTypeOK, reset

\* Initially every variable has its type.
LEMMA TypeInit == Init => TypeOK
<1> SUFFICES ASSUME Init PROVE TypeOK
  OBVIOUS
<1>1. ReceiversTypeOK
  BY DEF Init, ReceiversTypeOK
<1>2. /\ voiceChan \in Seq(Packet)
      /\ out \in Seq(Seq(Packet \cup {Zero}))
      /\ audio \in Seq(Packet \cup {Zero})
      /\ decoding \in Seq(Packet \cup {Zero})
  BY DEF Init
<1>3. /\ voicePc \in VoicePc
      /\ voicePc \notin {"lookup", "route", "append"}
      /\ hand \in Packet \cup {Nil}
  BY DEF Init, VoicePc
<1>4. /\ todo \in SUBSET Radio
      /\ cur \in Radio
      /\ measured \in Nat
      /\ resetting \in SUBSET Radio
      /\ secure \in BOOLEAN
      /\ rosterWriter \in BOOLEAN
  BY DEF Init
<1>5. IsMap(roster, Client, {"own", "spectator"})
  BY DEF Init, IsMap, EmptyMap
<1> QED BY <1>1, <1>2, <1>3, <1>4, <1>5 DEF TypeOK, ReceiversTypeOK

\* Every step keeps the types.
LEMMA TypeStep == ASSUME TypeOK, [Next]_vars PROVE TypeOK'
<1> USE DEF TypeOK, VoicePc
<1>0. ReceiversTypeOK
  BY DEF ReceiversTypeOK
<1>1. ASSUME NEW p \in Packet, ReceiveUDP(p) PROVE TypeOK'
  BY <1>1 DEF ReceiveUDP, receivers, voice, rosterVars
<1>2. ASSUME NEW r \in Radio, Lapse(r) PROVE TypeOK'
  BY <1>2 DEF Lapse, voice, rosterVars
<1>3. CASE TakePacket
  <2>1. Head(voiceChan) \in Packet /\ Tail(voiceChan) \in Seq(Packet)
    BY <1>3 DEF TakePacket
  <2>2. Head(voiceChan).radios \in SUBSET Radio
    BY <2>1, PacketType
  <2> QED BY <1>3, <2>1, <2>2 DEF TakePacket, receivers, rosterVars
<1>4. CASE LookupSender
  <2>1. hand.radios \in SUBSET Radio
    BY <1>4, PacketType DEF LookupSender
  <2> QED BY <1>4, <2>1 DEF LookupSender, receivers, rosterVars
<1>5. ASSUME NEW r \in Radio, CheckPacket(r) PROVE TypeOK'
  BY <1>5 DEF CheckPacket, receivers, rosterVars
<1>6. CASE AppendPacket
  <2>1. ReceiversTypeOK'
    BY <1>0, <1>6, BufferedType DEF AppendPacket
  <2> QED BY <1>6, <2>1 DEF AppendPacket, ReceiversTypeOK, rosterVars
<1>7. CASE EndRoute
  BY <1>7 DEF EndRoute, receivers, rosterVars
<1>8. CASE FlushTick
  BY <1>8 DEF FlushTick, receivers, rosterVars
<1>9. ASSUME NEW r \in Radio, VisitReceiver(r) PROVE TypeOK'
  BY <1>9 DEF VisitReceiver, receivers, rosterVars
<1>10. CASE Measure
  BY <1>10 DEF Measure, receivers, rosterVars
<1>11. CASE CopyBuffer
  <2>1. Copies \subseteq Seq(Packet \cup {Zero})
    <3>1. buffer[cur] \in Seq(Packet \cup {Zero})
      OBVIOUS
    <3>2. [i \in 1..measured |-> Zero] \in Seq(Packet \cup {Zero})
      OBVIOUS
    <3>3. <<>> \in Seq(Packet \cup {Zero})
      OBVIOUS
    <3>4. ASSUME NEW t \in Copies
          PROVE  t = buffer[cur] \/ t = <<>> \/ t = [i \in 1..measured |-> Zero]
      BY DEF Copies
    <3> QED BY <3>1, <3>2, <3>3, <3>4
  <2> QED BY <1>11, <2>1 DEF CopyBuffer, receivers, rosterVars
<1>12. CASE SendTransmission
  <2>1. out' \in Seq(Seq(Packet \cup {Zero})) /\ audio' \in Seq(Packet \cup {Zero})
    BY <1>12 DEF SendTransmission
  <2> QED BY <1>12, <2>1 DEF SendTransmission, receivers, rosterVars
<1>13. CASE ResetReceiver
  <2>1. ReceiversTypeOK'
    BY <1>0, <1>13, ResetType DEF ResetReceiver
  <2> QED BY <1>13, <2>1 DEF ResetReceiver, ReceiversTypeOK, rosterVars
<1>14. CASE EndFlush
  BY <1>14 DEF EndFlush, receivers, rosterVars
<1>15. CASE Decode
  <2>1. /\ out' \in Seq(Seq(Packet \cup {Zero}))
        /\ decoding' \in Seq(Packet \cup {Zero})
    <3>1. /\ out # <<>> /\ out \in Seq(Seq(Packet \cup {Zero}))
          /\ out' = Tail(out)
          /\ Head(out) \in Seq(Packet \cup {Zero})
      BY <1>0, <1>15 DEF Decode
    <3>2. ASSUME NEW n \in 0..Len(Head(out)),
                 NEW frame \in [1..n -> Decodable(Head(out))]
          PROVE  [i \in 1..n |-> Head(out)[frame[i]]]
                   \in Seq(Packet \cup {Zero})
      <4>1. n \in Nat
        BY <3>1, <3>2
      <4>2. \A i \in 1..n : frame[i] \in 1..Len(Head(out))
        BY <3>2 DEF Decodable
      <4>3. \A i \in 1..n : Head(out)[frame[i]] \in Packet \cup {Zero}
        BY <3>1, <4>2
      <4> QED BY <4>1, <4>3
    <3>3. decoding' \in Seq(Packet \cup {Zero})
      BY <1>15, <3>2 DEF Decode
    <3> QED BY <3>1, <3>3
  <2> QED BY <1>15, <2>1 DEF Decode, receivers, voice, rosterVars
<1>16. CASE Publish
  BY <1>16 DEF Publish, receivers, voice, rosterVars
<1>17. CASE StartReset
  BY <1>17 DEF StartReset, receivers, voice, rosterVars
<1>18. ASSUME NEW r \in Radio, HealReset(r) PROVE TypeOK'
  <2>1. ReceiversTypeOK'
    BY <1>0, <1>18, ResetType DEF HealReset
  <2> QED BY <1>18, <2>1 DEF HealReset, ReceiversTypeOK, voice, rosterVars
<1>19. ASSUME NEW e \in BOOLEAN, ServerSettings(e) PROVE TypeOK'
  BY <1>19 DEF ServerSettings, receivers, voice
<1>20. CASE LockRoster
  BY <1>20 DEF LockRoster, receivers, voice
<1>21. ASSUME NEW g \in Client, NEW c \in {"own", "spectator", "other"},
              NEW f \in BOOLEAN, SyncClient(g, c, f)
       PROVE  TypeOK'
  <2>1. IsMap(roster', Client, {"own", "spectator"})
    BY <1>21 DEF SyncClient, IsMap, Put, Drop, Restrict
  <2> QED BY <1>21, <2>1 DEF SyncClient, receivers, voice
<1>22. CASE UNCHANGED vars
  BY <1>22 DEF vars
<1> QED
  BY <1>1, <1>2, <1>3, <1>4, <1>5, <1>6, <1>7, <1>8, <1>9, <1>10, <1>11,
     <1>12, <1>13, <1>14, <1>15, <1>16, <1>17, <1>18, <1>19, <1>20, <1>21,
     <1>22
  DEF Next, VoiceNext, HealNext, RosterNext

\* The reception state always has its types; in particular no receiver ever
\* buffers anything but packets.
THEOREM TypeCorrect == Spec => []TypeOK
BY TypeInit, TypeStep, PTL DEF Spec

----------------------------------------------------------------------------
(* The receivers *)

\* What one receiver guarantees.
SoundAt(r) ==
    /\ OneVoice(buffer[r])
    /\ Len(buffer[r]) <= MaxRxPackets
    /\ \A i \in 1..Len(buffer[r]) : /\ buffer[r][i].origin = origin[r]
                                    /\ buffer[r][i].number <= packetNumber[r]
    /\ buffer[r] = <<>> => IsNewTransmission(r)

\* The decision receive took before it had the lock is still right when it
\* appends: a reset since then has emptied the buffer and changed nothing
\* else that matters.
DecisionHolds ==
    voicePc = "append" =>
        \/ buffer[cur] = <<>>
        \/ hand.origin = origin[cur] /\ hand.number > packetNumber[cur]

\* The inductive invariant of the receivers.
ReceiverInv == TypeOK /\ (\A r \in Radio : SoundAt(r)) /\ DecisionHolds

\* reset leaves a sound receiver and no other changed.
LEMMA ResetSound ==
    ASSUME TypeOK, NEW q \in Radio, reset(q), \A r \in Radio : SoundAt(r)
    PROVE  \A r \in Radio : SoundAt(r)'
<1> SUFFICES ASSUME NEW r \in Radio PROVE SoundAt(r)'
  OBVIOUS
<1>1. CASE r = q
  <2>1. /\ buffer'[r] = <<>>
        /\ origin'[r] = Nil
        /\ packetNumber'[r] = 0
    BY <1>1 DEF reset, TypeOK
  <2> QED BY <2>1, EmptyVoice, ReceptionAssumption DEF SoundAt, IsNewTransmission
<1>2. CASE r # q
  BY <1>2 DEF reset, TypeOK, SoundAt, IsNewTransmission
<1> QED BY <1>1, <1>2

\* The locked part of receive leaves the receiver sound if the decision holds.
LEMMA BufferedSound ==
    ASSUME TypeOK, NEW q \in Radio, NEW p \in Packet, buffered(q, p),
           \A r \in Radio : SoundAt(r),
           buffer[q] = <<>> \/ (p.origin = origin[q] /\ p.number > packetNumber[q])
    PROVE  \A r \in Radio : SoundAt(r)'
<1> SUFFICES ASSUME NEW r \in Radio PROVE SoundAt(r)'
  OBVIOUS
<1>1. CASE r # q
  BY <1>1 DEF buffered, TypeOK, SoundAt, IsNewTransmission
<1>2. CASE r = q
  <2>1. buffer[q] \in Seq(Packet) /\ packetNumber[q] \in Nat /\ p.number \in Nat
    BY PacketType DEF TypeOK
  <2>2. /\ origin'[q] = p.origin
        /\ packetNumber'[q] = p.number
        /\ buffer'[q] = IF Len(buffer[q]) < MaxRxPackets
                        THEN Append(buffer[q], p) ELSE buffer[q]
    BY DEF buffered, TypeOK
  <2>3. \A i \in 1..Len(buffer[q]) : /\ buffer[q][i] \in Packet
                                    /\ buffer[q][i].number \in Nat
                                    /\ buffer[q][i].origin = p.origin
                                    /\ buffer[q][i].number < p.number
    <3>1. ASSUME NEW i \in 1..Len(buffer[q])
          PROVE  /\ buffer[q][i] \in Packet
                 /\ buffer[q][i].number \in Nat
                 /\ buffer[q][i].origin = origin[q]
                 /\ buffer[q][i].number <= packetNumber[q]
      BY <2>1, PacketType DEF SoundAt
    <3>2. ASSUME NEW i \in 1..Len(buffer[q]) PROVE buffer[q] # <<>>
      BY <2>1
    <3> QED BY <2>1, <3>1, <3>2
  <2>4. OneVoice(buffer[q]) /\ Len(buffer[q]) <= MaxRxPackets
    BY DEF SoundAt
  <2>5. CASE Len(buffer[q]) < MaxRxPackets
    <3>1. buffer'[q] = Append(buffer[q], p)
      BY <2>2, <2>5
    <3>2. OneVoice(buffer'[q])
      BY <2>1, <2>3, <2>4, <3>1, AppendVoice
    <3>3. /\ Len(buffer'[q]) = Len(buffer[q]) + 1
          /\ buffer'[q] # <<>>
          /\ \A i \in 1..Len(buffer[q]) : buffer'[q][i] = buffer[q][i]
          /\ buffer'[q][Len(buffer[q]) + 1] = p
      BY <2>1, <3>1
    <3>4. \A i \in 1..Len(buffer'[q]) : /\ buffer'[q][i].origin = p.origin
                                       /\ buffer'[q][i].number <= p.number
      BY <2>1, <2>3, <3>3
    <3>5. Len(buffer'[q]) <= MaxRxPackets
      BY <2>1, <2>5, <3>3, ReceptionAssumption
    <3> QED BY <1>2, <2>2, <3>2, <3>3, <3>4, <3>5 DEF SoundAt
  <2>6. CASE ~(Len(buffer[q]) < MaxRxPackets)
    <3>1. buffer'[q] = buffer[q]
      BY <2>2, <2>6
    <3>2. buffer[q] # <<>>
      BY <2>1, <2>6, ReceptionAssumption
    <3>3. \A i \in 1..Len(buffer[q]) : buffer[q][i].number <= p.number
      BY <2>1, <2>3
    <3> QED BY <1>2, <2>2, <2>3, <2>4, <3>1, <3>2, <3>3 DEF SoundAt
  <2> QED BY <2>5, <2>6
<1> QED BY <1>1, <1>2

\* Every step keeps the receivers sound.
LEMMA ReceiverStep == ASSUME ReceiverInv, [Next]_vars PROVE ReceiverInv'
<1>0. /\ TypeOK
      /\ TypeOK'
      /\ \A r \in Radio : SoundAt(r)
      /\ DecisionHolds
  BY TypeStep DEF ReceiverInv
<1>1. ASSUME NEW r \in Radio, CheckPacket(r)
      PROVE  (\A q \in Radio : SoundAt(q)') /\ DecisionHolds'
  <2>1. \A q \in Radio : SoundAt(q)'
    BY <1>0, <1>1 DEF CheckPacket, receivers, SoundAt, IsNewTransmission
  <2>2. ASSUME voicePc' = "append" PROVE ShouldAcceptPacket(r, hand)
    BY <1>1, <2>2 DEF CheckPacket
  <2>3. buffer[r] = <<>> \/ origin[r] # Nil
    <3>1. ASSUME buffer[r] # <<>> PROVE origin[r] # Nil
      <4>1. 1 \in 1..Len(buffer[r]) /\ buffer[r][1] \in Packet
        <5>1. buffer[r] \in Seq(Packet)
          BY <1>0 DEF TypeOK
        <5> QED BY <3>1, <5>1, FirstElement
      <4>2. origin[r] = buffer[r][1].origin
        BY <1>0, <4>1 DEF SoundAt
      <4> QED BY <4>1, <4>2, PacketType, ReceptionAssumption
    <3> QED BY <3>1
  <2>4. DecisionHolds'
    BY <1>1, <2>2, <2>3
    DEF DecisionHolds, ShouldAcceptPacket, IsNewTransmission, CheckPacket,
        receivers
  <2> QED BY <2>1, <2>4
<1>2. ASSUME AppendPacket
      PROVE  (\A q \in Radio : SoundAt(q)') /\ DecisionHolds'
  <2>1. cur \in Radio /\ hand \in Packet
    BY <1>0, <1>2 DEF AppendPacket, TypeOK
  <2>2. \A q \in Radio : SoundAt(q)'
    BY <1>0, <1>2, <2>1, BufferedSound DEF AppendPacket, DecisionHolds
  <2> QED BY <1>2, <2>2 DEF AppendPacket, DecisionHolds
<1>3. ASSUME NEW r \in Radio, reset(r),
             UNCHANGED <<hand, cur>>, voicePc' = voicePc \/ voicePc' = "flush"
      PROVE  (\A q \in Radio : SoundAt(q)') /\ DecisionHolds'
  <2>1. \A q \in Radio : SoundAt(q)'
    BY <1>0, <1>3, ResetSound
  <2>2. DecisionHolds'
    BY <1>0, <1>3 DEF DecisionHolds, reset, TypeOK
  <2> QED BY <2>1, <2>2
<1>4. ASSUME UNCHANGED <<buffer, origin, packetNumber>>,
             voicePc' # "append" \/ UNCHANGED <<voicePc, hand, cur>>
      PROVE  (\A q \in Radio : SoundAt(q)') /\ DecisionHolds'
  BY <1>0, <1>4 DEF SoundAt, IsNewTransmission, DecisionHolds
<1>5. \/ \E r \in Radio : CheckPacket(r)
      \/ AppendPacket
      \/ \E r \in Radio : /\ reset(r)
                          /\ UNCHANGED <<hand, cur>>
                          /\ voicePc' = voicePc \/ voicePc' = "flush"
      \/ /\ UNCHANGED <<buffer, origin, packetNumber>>
         /\ voicePc' # "append" \/ UNCHANGED <<voicePc, hand, cur>>
  <2>1. CASE VoiceNext
    BY <1>0, <2>1
    DEF VoiceNext, TakePacket, LookupSender, EndRoute, VisitReceiver,
        FlushTick, Measure, CopyBuffer, SendTransmission, ResetReceiver,
        EndFlush, receivers, TypeOK
  <2>2. CASE HealNext
    BY <2>2 DEF HealNext, StartReset, HealReset, receivers, voice
  <2>3. CASE RosterNext
    BY <2>3 DEF RosterNext, ServerSettings, LockRoster, SyncClient,
       receivers, voice
  <2>4. CASE Decode \/ Publish
    BY <2>4 DEF Decode, Publish, receivers, voice
  <2>5. ASSUME NEW p \in Packet, ReceiveUDP(p)
        PROVE  UNCHANGED <<buffer, origin, packetNumber, voicePc, hand, cur>>
    BY <2>5 DEF ReceiveUDP, receivers, voice
  <2>6. ASSUME NEW r \in Radio, Lapse(r)
        PROVE  UNCHANGED <<buffer, origin, packetNumber, voicePc, hand, cur>>
    BY <2>6 DEF Lapse, voice
  <2>7. CASE UNCHANGED vars
    BY <2>7 DEF vars
  <2> QED BY <2>1, <2>2, <2>3, <2>4, <2>5, <2>6, <2>7 DEF Next
<1> QED BY <1>0, <1>1, <1>2, <1>3, <1>4, <1>5 DEF ReceiverInv

\* Initially the receivers are empty and ready.
LEMMA ReceiverInit == Init => ReceiverInv
<1> SUFFICES ASSUME Init PROVE ReceiverInv
  OBVIOUS
<1>1. TypeOK /\ DecisionHolds
  BY TypeInit DEF Init, DecisionHolds
<1>2. ASSUME NEW r \in Radio PROVE SoundAt(r)
  <2>1. buffer[r] = <<>> /\ origin[r] = Nil /\ packetNumber[r] = 0
    BY DEF Init
  <2> QED BY <2>1, EmptyVoice, ReceptionAssumption
          DEF SoundAt, IsNewTransmission
<1> QED BY <1>1, <1>2 DEF ReceiverInv

\* The receivers' invariant holds in every reachable state.
LEMMA ReceiverInvariant == Spec => []ReceiverInv
BY ReceiverInit, ReceiverStep, PTL DEF Spec

\* Whatever packets arrive and whenever autoheal resets the receivers, each
\* buffer holds a single sender's packets in increasing order and never more
\* than maxRxPackets of them.
THEOREM ReceiverCorrect == Spec => []ReceiverSound
<1>1. ReceiverInv => ReceiverSound
  BY DEF ReceiverInv, SoundAt, ReceiverSound
<1> QED BY <1>1, ReceiverInvariant, PTL

\* An empty receiver is always ready for a new sender.
THEOREM NeverDeafCorrect == Spec => []NeverDeaf
<1>1. ReceiverInv => NeverDeaf
  BY DEF ReceiverInv, SoundAt, NeverDeaf
<1> QED BY <1>1, ReceiverInvariant, PTL

----------------------------------------------------------------------------
(* What is published *)

\* A transmission fit to be published, and one without a real packet.
Clean(t) == OneVoice(t) /\ Len(t) <= MaxRxPackets
Blank(t) == \A i \in 1..Len(t) : t[i] = Zero

\* Between the unlocked reads of the ticker case a reset can only have emptied
\* the buffer: what is copied is either the measured transmission or blank.
MeasureHolds ==
    voicePc = "copy" =>
        /\ measured <= MaxRxPackets
        /\ Len(buffer[cur]) = measured \/ buffer[cur] = <<>>

\* Everything on its way to the decoder is clean or blank, and everything
\* that is being published is clean.
InFlightSound ==
    /\ voicePc = "send" => Clean(audio) \/ Blank(audio)
    /\ \A k \in 1..Len(out) : Clean(out[k]) \/ Blank(out[k])
    /\ decoding # <<>> => Clean(decoding)

\* The inductive invariant of the whole path.
PathInv == ReceiverInv /\ MeasureHolds /\ InFlightSound

\* A step that leaves the copy, the queue and the decoder alone keeps what is
\* in flight sound.
LEMMA InFlightStutter ==
    ASSUME InFlightSound, UNCHANGED <<out, audio, decoding>>,
           voicePc' # "send" \/ voicePc' = voicePc
    PROVE  InFlightSound'
BY DEF InFlightSound

\* Every step keeps the path sound.
LEMMA PathStep == ASSUME PathInv, [Next]_vars PROVE PathInv'
<1>0. /\ ReceiverInv
      /\ ReceiverInv'
      /\ TypeOK
      /\ MeasureHolds
      /\ InFlightSound
      /\ \A r \in Radio : SoundAt(r)
      /\ cur \in Radio
      /\ buffer[cur] \in Seq(Packet)
      /\ out \in Seq(Seq(Packet \cup {Zero}))
      /\ audio \in Seq(Packet \cup {Zero})
  BY ReceiverStep DEF PathInv, ReceiverInv, TypeOK
<1>1. ASSUME Measure PROVE MeasureHolds' /\ InFlightSound'
  <2>1. MeasureHolds'
    BY <1>0, <1>1 DEF Measure, MeasureHolds, SoundAt, receivers
  <2>2. InFlightSound'
    BY <1>0, <1>1, InFlightStutter DEF Measure
  <2> QED BY <2>1, <2>2
<1>2. ASSUME CopyBuffer PROVE MeasureHolds' /\ InFlightSound'
  <2>1. ASSUME NEW t \in Copies PROVE Clean(t) \/ Blank(t)
    <3>1. CASE Len(buffer[cur]) = measured
      <4>1. t = buffer[cur] /\ OneVoice(buffer[cur])
        BY <1>0, <2>1, <3>1 DEF Copies, SoundAt
      <4> QED BY <1>0, <1>2, <3>1, <4>1
              DEF CopyBuffer, MeasureHolds, Clean
    <3>2. CASE Len(buffer[cur]) # measured
      <4>1. t = <<>> \/ t = [i \in 1..measured |-> Zero]
        BY <2>1, <3>2 DEF Copies
      <4>2. measured \in Nat
        BY <1>0 DEF TypeOK
      <4> QED BY <4>1, <4>2 DEF Blank
    <3> QED BY <3>1, <3>2
  <2>2. InFlightSound'
    BY <1>0, <1>2, <2>1 DEF CopyBuffer, InFlightSound
  <2>3. MeasureHolds'
    BY <1>2 DEF CopyBuffer, MeasureHolds
  <2> QED BY <2>2, <2>3
<1>3. ASSUME SendTransmission PROVE MeasureHolds' /\ InFlightSound'
  <2>1. MeasureHolds'
    BY <1>3 DEF SendTransmission, MeasureHolds
  <2>2. Clean(audio) \/ Blank(audio)
    BY <1>0, <1>3 DEF SendTransmission, InFlightSound
  <2>3. /\ Len(out') = Len(out) + 1
        /\ \A k \in 1..Len(out) : out'[k] = out[k]
        /\ out'[Len(out) + 1] = audio
    BY <1>0, <1>3 DEF SendTransmission
  <2>4. ASSUME NEW k \in 1..Len(out') PROVE Clean(out'[k]) \/ Blank(out'[k])
    <3>1. k \in 1..Len(out) \/ k = Len(out) + 1
      BY <1>0, <2>3
    <3> QED BY <1>0, <2>2, <2>3, <3>1 DEF InFlightSound
  <2>5. voicePc' # "send" /\ decoding' = decoding
    BY <1>3 DEF SendTransmission
  <2> QED BY <1>0, <2>1, <2>4, <2>5 DEF InFlightSound
<1>4. ASSUME Decode PROVE MeasureHolds' /\ InFlightSound'
  <2>1. MeasureHolds'
    BY <1>0, <1>4 DEF Decode, MeasureHolds, receivers, voice
  <2>2. /\ Len(out') = Len(out) - 1
        /\ \A k \in 1..Len(out') : out'[k] = out[k + 1] /\ k + 1 \in 1..Len(out)
        /\ Head(out) = out[1]
        /\ 1 \in 1..Len(out)
    BY <1>0, <1>4 DEF Decode
  <2>3. \A k \in 1..Len(out') : Clean(out'[k]) \/ Blank(out'[k])
    BY <1>0, <2>2 DEF InFlightSound
  <2>4. ASSUME decoding' # <<>> PROVE Clean(decoding')
    <3> DEFINE t == out[1]
    <3>0. PICK n \in 0..Len(t) : \E frame \in [1..n -> Decodable(t)] :
            /\ \A i, j \in 1..n : i < j => frame[i] < frame[j]
            /\ decoding' = [i \in 1..n |-> t[frame[i]]]
      BY <1>4, <2>2 DEF Decode
    <3>1. PICK frame \in [1..n -> Decodable(t)] :
            /\ \A i, j \in 1..n : i < j => frame[i] < frame[j]
            /\ decoding' = [i \in 1..n |-> t[frame[i]]]
      BY <3>0
    <3>2. t \in Seq(Packet \cup {Zero}) /\ n \in Nat
      BY <1>0, <2>2, <3>0
    <3>3. /\ Len(decoding') = n
          /\ \A i \in 1..n : decoding'[i] = t[frame[i]]
          /\ \A i \in 1..n : frame[i] \in 1..Len(t) /\ t[frame[i]] # Zero
      <4>1. \A i \in 1..n : frame[i] \in 1..Len(t) /\ t[frame[i]] # Zero
        BY DEF Decodable
      <4> QED BY <3>1, <3>2, <4>1
    <3>4. n # 0
      BY <2>4, <3>1, <3>2
    <3>5. Clean(t)
      BY <1>0, <2>2, <3>2, <3>3, <3>4 DEF InFlightSound, Blank
    <3>6. OneVoice(decoding')
      <4>1. \A i \in 1..n : decoding'[i] \in Packet
        BY <3>3, <3>5 DEF Clean, OneVoice
      <4>2. ASSUME NEW i \in 1..n, NEW j \in 1..n, i < j
            PROVE  /\ decoding'[i].origin = decoding'[j].origin
                   /\ decoding'[i].number < decoding'[j].number
        BY <3>1, <3>3, <3>5, <4>2 DEF Clean, OneVoice
      <4> QED BY <3>3, <4>1, <4>2 DEF OneVoice
    <3>7. n <= Len(t) /\ Len(t) \in Nat
      BY <3>0, <3>2
    <3>8. Len(t) <= MaxRxPackets /\ MaxRxPackets \in Nat
      BY <3>5, ReceptionAssumption DEF Clean
    <3>9. Len(decoding') <= MaxRxPackets
      <4> HIDE DEF t
      <4> QED BY <3>2, <3>3, <3>7, <3>8
    <3> QED BY <3>6, <3>9 DEF Clean
  <2>5. UNCHANGED <<voicePc, audio>>
    BY <1>4 DEF Decode, voice
  <2> QED BY <1>0, <2>1, <2>3, <2>4, <2>5 DEF InFlightSound
<1>5. ASSUME Publish PROVE MeasureHolds' /\ InFlightSound'
  BY <1>0, <1>5 DEF Publish, MeasureHolds, InFlightSound, receivers, voice
<1>6. ASSUME NEW r \in Radio, HealReset(r) PROVE MeasureHolds' /\ InFlightSound'
  <2>1. MeasureHolds'
    BY <1>0, <1>6 DEF HealReset, reset, MeasureHolds, voice, TypeOK
  <2> QED BY <1>0, <1>6, <2>1, InFlightStutter DEF HealReset, voice
<1>7. ASSUME voicePc' \notin {"copy", "send"}, UNCHANGED <<out, audio, decoding>>
      PROVE  MeasureHolds' /\ InFlightSound'
  BY <1>0, <1>7, InFlightStutter DEF MeasureHolds
<1>8. ASSUME UNCHANGED <<buffer, voicePc, cur, measured, out, audio, decoding>>
      PROVE  MeasureHolds' /\ InFlightSound'
  BY <1>0, <1>8, InFlightStutter DEF MeasureHolds
<1>9. CASE VoiceNext
  <2>1. CASE TakePacket \/ LookupSender \/ EndRoute \/ FlushTick \/ EndFlush
    BY <1>0, <1>7, <2>1
    DEF TakePacket, LookupSender, EndRoute, FlushTick, EndFlush, PathInv
  <2>2. CASE AppendPacket \/ ResetReceiver
    BY <1>0, <1>7, <2>2 DEF AppendPacket, ResetReceiver, PathInv
  <2>3. ASSUME NEW r \in Radio, CheckPacket(r) \/ VisitReceiver(r)
        PROVE  MeasureHolds' /\ InFlightSound'
    BY <1>7, <2>3 DEF CheckPacket, VisitReceiver
  <2> QED BY <1>0, <1>1, <1>2, <1>3, <1>9, <2>1, <2>2, <2>3
          DEF VoiceNext, PathInv
<1>10. CASE RosterNext \/ StartReset
  BY <1>0, <1>8, <1>10
  DEF RosterNext, ServerSettings, LockRoster, SyncClient, StartReset,
      receivers, voice, PathInv
<1>11. ASSUME NEW p \in Packet, ReceiveUDP(p) PROVE PathInv'
  BY <1>0, <1>8, <1>11 DEF ReceiveUDP, receivers, voice, PathInv
<1>12. ASSUME NEW r \in Radio, Lapse(r) PROVE PathInv'
  BY <1>0, <1>8, <1>12 DEF Lapse, voice, PathInv
<1>13. CASE UNCHANGED vars
  BY <1>0, <1>8, <1>13 DEF vars, PathInv
<1> QED
  BY <1>0, <1>4, <1>5, <1>6, <1>9, <1>10, <1>11, <1>12, <1>13
  DEF Next, HealNext, PathInv

\* What the application receives is one client's frames in order and no more
\* than maxRxPackets of them, although receiveVoice measures and copies the
\* buffer without its lock while autoheal resets it, and whichever frames the
\* decoder rejects.
THEOREM PublishedCorrect == Spec => []PublishedSound
<1>1. Init => PathInv
  BY ReceiverInit DEF Init, PathInv, MeasureHolds, InFlightSound
<1>2. PathInv /\ [Next]_vars => PathInv'
  BY PathStep
<1>3. PathInv => PublishedSound
  BY DEF PathInv, InFlightSound, Clean, PublishedSound
<1> QED BY <1>1, <1>2, <1>3, PTL DEF Spec
=============================================================================
