----------------------------- MODULE Reception -----------------------------
(***************************************************************************)
(* How the SRS client of pkg/simpleradio turns voice packets into          *)
(* transmissions: the UDP reader queues packets (receiveUDP), the voice    *)
(* goroutine filters them and buffers them per radio (receiveVoice and the *)
(* receiver methods), hands a buffer over once its speaker has been silent *)
(* for maxRxGap, and the decoder publishes it (decodeVoice).  Two other    *)
(* goroutines reach into that state: autoheal resets every receiver when   *)
(* it reinitialises the client, and the TCP reader maintains the roster of *)
(* clients (syncClient, removeClient) the filter looks senders up in.      *)
(*                                                                         *)
(* The network loses, repeats and reorders packets: any packet may arrive  *)
(* at any time.  Whether a receiver's deadline has passed is the flag      *)
(* lapsed, which any packet clears and the passage of time sets.           *)
(***************************************************************************)
EXTENDS Integers, Sequences, GoMap

CONSTANTS
    Client,         \* GUIDs of the other SRS clients
    Radio,          \* the radios the client listens to
    PacketNumber,   \* the packet numbers senders use
    Nil,            \* "no client", "no packet"
    Zero,           \* a zero-valued voice.Packet
    MinRxPackets,   \* minRxDuration in packets
    MaxRxPackets,   \* maxRxPackets
    VoiceCap,       \* capacity of udpVoiceRxChan
    OutCap          \* capacity of voiceBytesRxChan

Packet == [origin : Client, number : PacketNumber, radios : SUBSET Radio]

ASSUME ReceptionAssumption ==
    /\ PacketNumber \subseteq Nat
    /\ Nil \notin Client
    /\ Nil \notin Packet
    /\ Zero \notin Packet
    /\ MinRxPackets \in Nat
    /\ MaxRxPackets \in Nat \ {0}
    /\ VoiceCap \in Nat
    /\ OutCap \in Nat

VARIABLES
    buffer,         \* receiver.buffer, per radio
    origin,         \* receiver.origin, Nil for ""
    packetNumber,   \* receiver.packetNumber
    lapsed,         \* whether receiver.deadline has passed
    voiceChan,      \* udpVoiceRxChan
    out,            \* voiceBytesRxChan
    voicePc,        \* where receiveVoice is
    hand,           \* the packet it handles, or Nil
    todo,           \* the receivers it has yet to visit
    cur,            \* the receiver it is working on
    measured,       \* the length it read of that receiver's buffer
    audio,          \* its copy of that buffer
    decoding,       \* what decodeVoice is publishing of one, <<>> if nothing
    resetting,      \* receivers initialize has yet to reset
    secure,         \* secureCoalitionRadios
    roster,         \* clients: the coalition each known client is in
    rosterWriter    \* whether the TCP reader is writing to clients

receivers == <<buffer, origin, packetNumber, lapsed>>
voice == <<voicePc, hand, todo, cur, measured, audio>>
rosterVars == <<secure, roster, rosterWriter>>
vars == <<buffer, origin, packetNumber, lapsed, voiceChan, out, voicePc, hand,
          todo, cur, measured, audio, decoding, resetting, secure, roster,
          rosterWriter>>

VoicePc == {"select", "lookup", "route", "append", "flush", "measure",
            "copy", "send", "reset"}

----------------------------------------------------------------------------
(* The receiver *)

IsNewTransmission(r) == origin[r] = Nil /\ packetNumber[r] = 0

\* Mutant: any newer packet is accepted, whoever sent it.
AcceptAnyOrigin(r, p) ==
    IsNewTransmission(r) \/ p.number > packetNumber[r]

ShouldAcceptPacket(r, p) ==
    \/ IsNewTransmission(r)
    \/ p.number > packetNumber[r] /\ p.origin = origin[r]

\* The part of receive that runs under the lock.
buffered(r, p) ==
    /\ buffer' = [buffer EXCEPT ![r] = IF Len(@) < MaxRxPackets
                                       THEN Append(@, p) ELSE @]
    /\ origin' = [origin EXCEPT ![r] = p.origin]
    /\ lapsed' = [lapsed EXCEPT ![r] = FALSE]
    /\ packetNumber' = [packetNumber EXCEPT ![r] = p.number]

\* Mutant: only a buffer beyond its limit counts as a transmission.
hasEnoughPackets(r) == Len(buffer[r]) > MaxRxPackets /\ lapsed[r]

hasTransmission(r) == buffer[r] # <<>> /\ lapsed[r]

\* Mutant: the packet number survives the reset.
resetKeepingNumber(r) ==
    /\ buffer' = [buffer EXCEPT ![r] = <<>>]
    /\ origin' = [origin EXCEPT ![r] = Nil]
    /\ lapsed' = [lapsed EXCEPT ![r] = TRUE]
    /\ UNCHANGED packetNumber

reset(r) ==
    /\ buffer' = [buffer EXCEPT ![r] = <<>>]
    /\ origin' = [origin EXCEPT ![r] = Nil]
    /\ lapsed' = [lapsed EXCEPT ![r] = TRUE]
    /\ packetNumber' = [packetNumber EXCEPT ![r] = 0]

\* maxRxGap goes by without a packet for r.
Lapse(r) ==
    /\ ~lapsed[r]
    /\ lapsed' = [lapsed EXCEPT ![r] = TRUE]
    /\ UNCHANGED <<buffer, origin, packetNumber, voiceChan, out, voice,
                   decoding, resetting, rosterVars>>

----------------------------------------------------------------------------
(* receiveUDP: a voice packet is queued; a full queue blocks the reader. *)

ReceiveUDP(p) ==
    /\ Len(voiceChan) < VoiceCap
    /\ voiceChan' = Append(voiceChan, p)
    /\ UNCHANGED <<receivers, out, voice, decoding, resetting, rosterVars>>

----------------------------------------------------------------------------
(* receiveVoice, the packet case *)

TakePacket ==
    /\ voicePc = "select"
    /\ voiceChan # <<>>
    /\ hand' = Head(voiceChan)
    /\ voiceChan' = Tail(voiceChan)
    /\ voicePc' = IF secure THEN "lookup" ELSE "route"
    /\ todo' = IF secure THEN {} ELSE Head(voiceChan).radios
    /\ UNCHANGED <<receivers, out, cur, measured, audio, decoding, resetting,
                   rosterVars>>

\* c.clients[packet.OriginGUID], read without clientsLock: unknown senders
\* and senders of another coalition are dropped.
LookupSender ==
    /\ voicePc = "lookup"
    /\ IF hand.origin \in DOMAIN roster /\ roster[hand.origin] = "own"
       THEN voicePc' = "route" /\ todo' = hand.radios /\ UNCHANGED hand
       ELSE voicePc' = "select" /\ todo' = {} /\ hand' = Nil
    /\ UNCHANGED <<receivers, voiceChan, out, cur, measured, audio, decoding,
                   resetting, rosterVars>>

\* receive's decision for one receiver the packet is tuned to, made before
\* the receiver's lock is taken.
CheckPacket(r) ==
    /\ voicePc = "route"
    /\ r \in todo
    /\ todo' = todo \ {r}
    /\ cur' = r
    /\ voicePc' = IF ShouldAcceptPacket(r, hand) THEN "append" ELSE "route"
    /\ UNCHANGED <<receivers, voiceChan, out, hand, measured, audio, decoding,
                   resetting, rosterVars>>

AppendPacket ==
    /\ voicePc = "append"
    /\ buffered(cur, hand)
    /\ voicePc' = "route"
    /\ UNCHANGED <<voiceChan, out, hand, todo, cur, measured, audio, decoding,
                   resetting, rosterVars>>

EndRoute ==
    /\ voicePc = "route"
    /\ todo = {}
    /\ voicePc' = "select"
    /\ hand' = Nil
    /\ UNCHANGED <<receivers, voiceChan, out, todo, cur, measured, audio,
                   decoding, resetting, rosterVars>>

----------------------------------------------------------------------------
(* receiveVoice, the ticker case *)

\* Nothing is handed over while packets are waiting.
FlushTick ==
    /\ voicePc = "select"
    /\ voiceChan = <<>>
    /\ voicePc' = "flush"
    /\ todo' = Radio
    /\ UNCHANGED <<receivers, voiceChan, out, hand, cur, measured, audio,
                   decoding, resetting, rosterVars>>

VisitReceiver(r) ==
    /\ voicePc = "flush"
    /\ r \in todo
    /\ todo' = todo \ {r}
    /\ cur' = r
    /\ voicePc' = IF hasTransmission(r) THEN "measure" ELSE "flush"
    /\ UNCHANGED <<receivers, voiceChan, out, hand, measured, audio, decoding,
                   resetting, rosterVars>>

\* The buffer's length is read without the lock; a transmission no longer
\* than minRxDuration is discarded.
Measure ==
    /\ voicePc = "measure"
    /\ measured' = Len(buffer[cur])
    /\ voicePc' = IF Len(buffer[cur]) > MinRxPackets THEN "copy" ELSE "reset"
    /\ UNCHANGED <<receivers, voiceChan, out, hand, todo, cur, audio,
                   decoding, resetting, rosterVars>>

\* make and copy, without the lock either.  A reset in between leaves either
\* no packets or as many zero-valued ones as were measured.
Copies ==
    IF Len(buffer[cur]) = measured THEN {buffer[cur]}
    ELSE {<<>>, [i \in 1..measured |-> Zero]}

CopyBuffer ==
    /\ voicePc = "copy"
    /\ audio' \in Copies
    /\ voicePc' = "send"
    /\ UNCHANGED <<receivers, voiceChan, out, hand, todo, cur, measured,
                   decoding, resetting, rosterVars>>

SendTransmission ==
    /\ voicePc = "send"
    /\ Len(out) < OutCap
    /\ out' = Append(out, audio)
    /\ audio' = <<>>
    /\ voicePc' = "reset"
    /\ UNCHANGED <<receivers, voiceChan, hand, todo, cur, measured, decoding,
                   resetting, rosterVars>>

ResetReceiver ==
    /\ voicePc = "reset"
    /\ reset(cur)
    /\ measured' = 0
    /\ voicePc' = "flush"
    /\ UNCHANGED <<voiceChan, out, hand, todo, cur, audio, decoding,
                   resetting, rosterVars>>

EndFlush ==
    /\ voicePc = "flush"
    /\ todo = {}
    /\ voicePc' = "select"
    /\ UNCHANGED <<receivers, voiceChan, out, hand, todo, cur, measured,
                   audio, decoding, resetting, rosterVars>>

----------------------------------------------------------------------------
(* decodeVoice: the frames that decode are published, in their order; any  *)
(* frame may fail to decode and zero-valued ones always do; nothing is     *)
(* published when none decodes.                                            *)

Decodable(t) == {i \in 1..Len(t) : t[i] # Zero}

\* Mutant: a transmission is published whether or not a frame decoded.
DecodeEmptyToo ==
    /\ decoding = <<>>
    /\ out # <<>>
    /\ out' = Tail(out)
    /\ decoding' = Head(out)
    /\ UNCHANGED <<receivers, voiceChan, voice, resetting, rosterVars>>

Decode ==
    /\ decoding = <<>>
    /\ out # <<>>
    /\ out' = Tail(out)
    /\ \E n \in 0..Len(Head(out)) :
         \E frame \in [1..n -> Decodable(Head(out))] :
           /\ \A i, j \in 1..n : i < j => frame[i] < frame[j]
           /\ decoding' = [i \in 1..n |-> Head(out)[frame[i]]]
    /\ UNCHANGED <<receivers, voiceChan, voice, resetting, rosterVars>>

\* The application takes the transmission from rxChan.
Publish ==
    /\ decoding # <<>>
    /\ decoding' = <<>>
    /\ UNCHANGED <<receivers, voiceChan, out, voice, resetting, rosterVars>>

----------------------------------------------------------------------------
(* initialize, called by autoheal: every receiver is reset, one by one. *)

StartReset ==
    /\ resetting = {}
    /\ resetting' = Radio
    /\ UNCHANGED <<receivers, voiceChan, out, voice, decoding, rosterVars>>

HealReset(r) ==
    /\ r \in resetting
    /\ reset(r)
    /\ resetting' = resetting \ {r}
    /\ UNCHANGED <<voiceChan, out, voice, decoding, rosterVars>>

----------------------------------------------------------------------------
(* The TCP reader: handleMessage *)

\* updateServerSettings
ServerSettings(enabled) ==
    /\ ~rosterWriter
    /\ secure' = enabled
    /\ UNCHANGED <<receivers, voiceChan, out, voice, decoding, resetting,
                   roster, rosterWriter>>

\* syncClient and removeClient have clientsLock and write to the map.
LockRoster ==
    /\ ~rosterWriter
    /\ rosterWriter' = TRUE
    /\ UNCHANGED <<receivers, voiceChan, out, voice, decoding, resetting,
                   secure, roster>>

\* Mutant: every client on frequency is stored, whatever its coalition.
SyncAnyCoalition(g, coalition, onFrequency) ==
    /\ rosterWriter
    /\ rosterWriter' = FALSE
    /\ roster' = IF onFrequency THEN Put(roster, g, coalition)
                 ELSE Drop(roster, g)
    /\ UNCHANGED <<receivers, voiceChan, out, voice, decoding, resetting,
                   secure>>

\* syncClient: the client is of our coalition or a spectator and on one of
\* our frequencies, or it is dropped; removeClient drops it.
SyncClient(g, coalition, onFrequency) ==
    /\ rosterWriter
    /\ rosterWriter' = FALSE
    /\ roster' = IF coalition \in {"own", "spectator"} /\ onFrequency
                 THEN Put(roster, g, coalition) ELSE Drop(roster, g)
    /\ UNCHANGED <<receivers, voiceChan, out, voice, decoding, resetting,
                   secure>>

----------------------------------------------------------------------------
Init ==
    /\ buffer = [r \in Radio |-> <<>>]
    /\ origin = [r \in Radio |-> Nil]
    /\ packetNumber = [r \in Radio |-> 0]
    /\ lapsed = [r \in Radio |-> TRUE]
    /\ voiceChan = <<>>
    /\ out = <<>>
    /\ voicePc = "select"
    /\ hand = Nil
    /\ todo = {}
    /\ cur \in Radio
    /\ measured = 0
    /\ audio = <<>>
    /\ decoding = <<>>
    /\ resetting = {}
    /\ secure = FALSE
    /\ roster = EmptyMap
    /\ rosterWriter = FALSE

\* Everything receiveVoice does.
VoiceNext ==
    \/ TakePacket \/ LookupSender \/ AppendPacket \/ EndRoute
    \/ \E r \in Radio : CheckPacket(r) \/ VisitReceiver(r)
    \/ FlushTick \/ Measure \/ CopyBuffer \/ SendTransmission
    \/ ResetReceiver \/ EndFlush

HealNext == StartReset \/ \E r \in Radio : HealReset(r)

RosterNext ==
    \/ \E enabled \in BOOLEAN : ServerSettings(enabled)
    \/ LockRoster
    \/ \E g \in Client, c \in {"own", "spectator", "other"},
          onFrequency \in BOOLEAN : SyncClient(g, c, onFrequency)

Next ==
    \/ \E p \in Packet : ReceiveUDP(p)
    \/ \E r \in Radio : Lapse(r)
    \/ VoiceNext
    \/ Decode
    \/ Publish
    \/ HealNext
    \/ RosterNext

Spec == Init /\ [][Next]_vars

----------------------------------------------------------------------------
\* A transmission as the receivers build it: packets of one sender in the
\* order they were sent, none twice.
OneVoice(t) ==
    /\ \A i \in 1..Len(t) : t[i] \in Packet
    /\ \A i, j \in 1..Len(t) :
         i < j => t[i].origin = t[j].origin /\ t[i].number < t[j].number

\* Every variable has its type.
TypeOK ==
    /\ buffer \in [Radio -> Seq(Packet)]
    /\ origin \in [Radio -> Client \cup {Nil}]
    /\ packetNumber \in [Radio -> Nat]
    /\ lapsed \in [Radio -> BOOLEAN]
    /\ voiceChan \in Seq(Packet)
    /\ out \in Seq(Seq(Packet \cup {Zero}))
    /\ voicePc \in VoicePc
    /\ hand \in Packet \cup {Nil}
    /\ voicePc \in {"lookup", "route", "append"} => hand \in Packet
    /\ todo \in SUBSET Radio
    /\ cur \in Radio
    /\ measured \in Nat
    /\ audio \in Seq(Packet \cup {Zero})
    /\ decoding \in Seq(Packet \cup {Zero})
    /\ resetting \in SUBSET Radio
    /\ secure \in BOOLEAN
    /\ IsMap(roster, Client, {"own", "spectator"})
    /\ rosterWriter \in BOOLEAN

\* Each receiver's buffer holds one sender's packets in increasing order, the
\* sender and the number it has recorded are those of the last packet it
\* accepted, and a receiver without a sender is empty - whichever way the
\* resets of autoheal fall between receive's unlocked check and its append.
ReceiverSound ==
    \A r \in Radio :
        /\ OneVoice(buffer[r])
        /\ Len(buffer[r]) <= MaxRxPackets
        /\ \A i \in 1..Len(buffer[r]) :
             /\ buffer[r][i].origin = origin[r]
             /\ buffer[r][i].number <= packetNumber[r]

\* An empty receiver accepts whoever speaks first: no order of resets and
\* appends leaves a receiver that has nothing to hand over and still waits
\* for a particular sender or packet number.
NeverDeaf == \A r \in Radio : buffer[r] = <<>> => IsNewTransmission(r)

\* What the application gets from rxChan is one client's voice in order and no
\* longer than the limit, although the buffer is measured and copied without
\* the receiver's lock and frames are lost to the decoder.  (It may be shorter
\* than minRxDuration: that is asked of the packets, not of what decodes.)
PublishedSound ==
    decoding # <<>> => OneVoice(decoding) /\ Len(decoding) <= MaxRxPackets

\* Packets arrive slower than they are handled: again and again the voice
\* goroutine finds its queue empty.
QuietMoments == []<>(voicePc = "select" /\ voiceChan = <<>>)

\* No transmission stays in a receiver for ever: with quiet moments, which
\* the len(in) == 0 test of the ticker case relies on, it is handed over or
\* discarded once its sender is silent - as every sender is in the end, for a
\* receiver takes rising packet numbers only and there are finitely many.
TransmissionsEnd ==
    QuietMoments => \A r \in Radio : []<>(buffer[r] = <<>>)

\* The goroutines keep running, the application keeps taking transmissions,
\* maxRxGap goes by, and the ticker's case of the select is taken although
\* packets keep arriving.
Fairness ==
    /\ WF_vars(VoiceNext)
    /\ SF_vars(FlushTick)
    /\ WF_vars(Decode)
    /\ WF_vars(Publish)
    /\ \A r \in Radio : WF_vars(Lapse(r))

FairSpec == Spec /\ Fairness
=============================================================================
