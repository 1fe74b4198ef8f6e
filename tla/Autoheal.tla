------------------------------ MODULE Autoheal ------------------------------
(***************************************************************************)
(* How the SRS client of pkg/simpleradio notices that the server is gone   *)
(* and gets back to it: receivePings records when the server last answered *)
(* a ping, autoheal reconnects and reinitialises when that was too long    *)
(* ago, and receiveTCP moves on to the new connection by itself.           *)
(*                                                                         *)
(* Times are kept as ages that stop growing just above the timeout, so     *)
(* that time need not be bounded; the unit of time is pingInterval.        *)
(* lastPingLock is held by autoheal from its look at lastPing to the end   *)
(* of the reconnection.                                                    *)
(***************************************************************************)
EXTENDS Integers

CONSTANTS
    Timeout,    \* pingInterval*3
    PingCap,    \* capacity of udpPingRxChan
    None        \* receivePings has no time in hand

ASSUME AutohealAssumption ==
    /\ Timeout \in Nat
    /\ PingCap \in Nat
    /\ None \notin Nat

VARIABLES
    up,         \* whether the SRS server runs and its address resolves
    registered, \* whether the server knows this client and will answer it
    tcp,        \* c.tcpConnection: "live", or "dead" (closed or broken)
    reader,     \* receiveTCP: on the "current" connection, an "old" one, or
                \* "sleeping" after a read error, until it is "due"
    sent,       \* whether a ping was sent and is not answered yet
    pings,      \* pings waiting in udpPingRxChan
    handAge,    \* age of the time receivePings has read and not yet stored
    pingAge,    \* age of lastPing
    healPc      \* where autoheal is

vars == <<up, registered, tcp, reader, sent, pings, handAge, pingAge, healPc>>

Age == 0..(Timeout + 1)
Older(a) == IF a > Timeout THEN a ELSE a + 1

TypeOK ==
    /\ up \in BOOLEAN
    /\ registered \in BOOLEAN
    /\ tcp \in {"live", "dead"}
    /\ reader \in {"current", "old", "sleeping", "due"}
    /\ sent \in BOOLEAN
    /\ pings \in 0..PingCap
    /\ handAge \in Age \cup {None}
    /\ pingAge \in Age
    /\ healPc \in {"idle", "tcp", "backoff", "udp", "init"}

----------------------------------------------------------------------------
(* The server and the clock *)

ServerStops ==
    /\ up
    /\ up' = FALSE
    /\ registered' = FALSE
    /\ tcp' = "dead"
    /\ UNCHANGED <<reader, sent, pings, handAge, pingAge, healPc>>

ServerStarts ==
    /\ ~up
    /\ up' = TRUE
    /\ UNCHANGED <<registered, tcp, reader, sent, pings, handAge, pingAge,
                   healPc>>

\* What takes no waiting is done before the clock moves: a read from a closed
\* connection returns, a sleeper whose time is up goes on, receivePings handles
\* what it is not kept from handling, and a call to a running server is over
\* in less than pingInterval.  With every tick sendPings sends a ping.
Tick ==
    /\ reader \notin {"old", "due"}
    /\ healPc \in {"idle", "backoff"}
    /\ ~ (pings > 0 /\ handAge = None)
    /\ ~ (handAge # None /\ healPc = "idle")
    /\ pingAge' = Older(pingAge)
    /\ handAge' = IF handAge = None THEN None ELSE Older(handAge)
    /\ reader' = IF reader = "sleeping" THEN "due" ELSE reader
    /\ sent' = TRUE
    /\ UNCHANGED <<up, registered, tcp, pings, healPc>>

----------------------------------------------------------------------------
(* Pings *)

\* Mutant: the queue of pings is not bounded.
ReceivePingPacketUnbounded ==
    /\ up
    /\ registered
    /\ sent
    /\ sent' = FALSE
    /\ pings' = pings + 1
    /\ UNCHANGED <<up, registered, tcp, reader, handAge, pingAge, healPc>>

\* The server answers the ping, and receiveUDP queues the answer; a full queue
\* blocks receiveUDP.
ReceivePingPacket ==
    /\ up
    /\ registered
    /\ sent
    /\ pings < PingCap
    /\ sent' = FALSE
    /\ pings' = pings + 1
    /\ UNCHANGED <<up, registered, tcp, reader, handAge, pingAge, healPc>>

\* receivePings takes the packet and reads the clock ...
TakePing ==
    /\ pings > 0
    /\ handAge = None
    /\ pings' = pings - 1
    /\ handAge' = 0
    /\ UNCHANGED <<up, registered, tcp, reader, sent, pingAge, healPc>>

\* ... and stores what it read once it has lastPingLock.
RecordPing ==
    /\ handAge # None
    /\ healPc = "idle"
    /\ pingAge' = handAge
    /\ handAge' = None
    /\ UNCHANGED <<up, registered, tcp, reader, sent, pings, healPc>>

----------------------------------------------------------------------------
(* autoheal *)

\* Mutant: the check postpones itself instead of reconnecting.
HealTickPostponing ==
    /\ healPc = "idle"
    /\ pingAge > Timeout
    /\ pingAge' = 0
    /\ UNCHANGED <<up, registered, tcp, reader, sent, pings, handAge, healPc>>

\* The lock is taken and lastPing found too old.
HealTick ==
    /\ healPc = "idle"
    /\ pingAge > Timeout
    /\ healPc' = "tcp"
    /\ UNCHANGED <<up, registered, tcp, reader, sent, pings, handAge, pingAge>>

\* reconnect, first half: the old connection is closed and a new one dialled;
\* on failure the loop backs off.
ReconnectTCP ==
    /\ healPc = "tcp"
    /\ registered' = FALSE
    /\ tcp' = IF up THEN "live" ELSE "dead"
    /\ reader' = IF up /\ reader = "current" THEN "old" ELSE reader
    /\ healPc' = IF up THEN "udp" ELSE "backoff"
    /\ UNCHANGED <<up, sent, pings, handAge, pingAge>>

\* reconnect, second half.  Dialling UDP sends nothing; it fails only if the
\* address no longer resolves, and the loop then backs off.
ReconnectUDP(resolves) ==
    /\ healPc = "udp"
    /\ up => resolves
    /\ healPc' = IF resolves THEN "init" ELSE "backoff"
    /\ UNCHANGED <<up, registered, tcp, reader, sent, pings, handAge, pingAge>>

\* The backoff is over, at the latest after a minute.
EndBackoff ==
    /\ healPc = "backoff"
    /\ healPc' = "tcp"
    /\ UNCHANGED <<up, registered, tcp, reader, sent, pings, handAge, pingAge>>

\* initialize: sync, external AWACS mode, ping.  On a live connection the
\* server now knows the client.
Initialize ==
    /\ healPc = "init"
    /\ tcp = "live"
    /\ registered' = TRUE
    /\ sent' = TRUE
    /\ pingAge' = 0
    /\ healPc' = "idle"
    /\ UNCHANGED <<up, tcp, reader, pings, handAge>>

\* initialize on a connection that broke meanwhile: the writes fail, and
\* lastPing stays as it is, or they disappear into the socket's buffer.
InitializeDead(noticed) ==
    /\ healPc = "init"
    /\ tcp = "dead"
    /\ IF noticed THEN UNCHANGED pingAge
       ELSE pingAge' = 0
    /\ healPc' = "idle"
    /\ UNCHANGED <<up, registered, tcp, reader, sent, pings, handAge>>

----------------------------------------------------------------------------
(* receiveTCP *)

ReadError ==
    /\ reader = "old" \/ (reader = "current" /\ tcp = "dead")
    /\ reader' = "sleeping"
    /\ UNCHANGED <<up, registered, tcp, sent, pings, handAge, pingAge, healPc>>

\* Mutant: the reader is not created anew after an error.
ReaderWakesOnOld ==
    /\ reader = "due"
    /\ reader' = "old"
    /\ UNCHANGED <<up, registered, tcp, sent, pings, handAge, pingAge, healPc>>

\* After pingInterval it reads from whatever c.tcpConnection is by then.
ReaderWakes ==
    /\ reader = "due"
    /\ reader' = "current"
    /\ UNCHANGED <<up, registered, tcp, sent, pings, handAge, pingAge, healPc>>

----------------------------------------------------------------------------
\* NewClient has connected and Run has initialised the client.
Init ==
    /\ up = TRUE
    /\ registered = TRUE
    /\ tcp = "live"
    /\ reader = "current"
    /\ sent = TRUE
    /\ pings = 0
    /\ handAge = None
    /\ pingAge = 0
    /\ healPc = "idle"

PingNext == TakePing \/ RecordPing

ReaderNext == ReadError \/ ReaderWakes

----------------------------------------------------------------------------
\* The fully working state: the server answers this client, and its messages
\* reach receiveTCP.
Connected == registered /\ tcp = "live" /\ reader = "current"

\* A client the server has forgotten is not left alone: autoheal eventually
\* acts, although pings queued before and times read before may still be
\* stored as lastPing afterwards.
LossNoticed == ~registered ~> (registered \/ healPc # "idle")

\* If the server stays up from some time on, the client works again, and the
\* TCP reader has found the new connection without being told.
Recovers == <>[]up => []<>Connected
=============================================================================
