# A TLA+ model of SkyEye

SkyEye is a bot that flies as a ground-controlled-intercept (GCI) controller
in a flight simulator: it watches the mission through a Tacview telemetry
stream, listens to pilots on an SRS radio server, answers them and warns them
unasked.  This directory models the parts of it in which goroutines, messages
and failures meet, checks the models with TLC and proves the central safety
properties with TLAPS.

## 1. The system

```
Tacview server --TCP--> telemetry --starts/updates/fades--> radar <--queries-- controller
                                                              \--callbacks------^  |
SRS server <--TCP/UDP--> simpleradio --audio--> recognizer --text--> parser -request-'
                              ^------audio-- synthesizer <--text-- composer <--calls--'
```

| Component | State | Operations | Interaction | What is hard |
|---|---|---|---|---|
| `pkg/telemetry` | objects of the stream, cursor time, hash algorithm, time of the last update | `Run`, `handleLines`, `handleLine`, the three goroutines of `Stream` | reads TCP; sends starts, updates and fades on three unbuffered channels | reconnection; errors in mid-line; three channels without a common order |
| `pkg/radar` | contacts and the callsign index, pending and completed fades, mission time | `handleUpdate`, `collectFadedTrackfiles`, `handleFaded`, `handleGarbageCollection`, `handleStarted`; queries | consumes the three channels; calls the controller back | four writers, four locks, batches of fades against restarts and expiry |
| `pkg/controller` | merge tracker, two cooldown trackers, picture deadline | a 15 s loop (`broadcastMerges`, `broadcastThreats`, `broadcastAutomaticPicture`), request handlers, three callbacks | queries the radar, sends calls on an unbuffered channel | callbacks change the trackers in mid-round; calls wait for the pipeline |
| `pkg/simpleradio` | receivers, the roster of clients, connections, last ping | `receiveUDP`, `receiveVoice`, `decodeVoice`, `receiveTCP`, `sendPings`, `receivePings`, `autoheal`, `transmitPackets` | UDP and TCP to the SRS server; audio to and from the application | lossy packets; unlocked reads; reconnection under the readers' feet |
| `internal/application` | the channels between the stages, file locks | `recognize`, `parse`, `control`, `compose`, `synthesize`, `transmit` | connects everything | back-pressure, cancellation, a nil channel during start-up |
| `pkg/parser`, `pkg/callsigns` | none | `Parse`: text to a request | called by the stage `parse` | digits of several values in one token, or of one in several |
| composer, brevity, recognizer, synthesizer, encyclopedia, spatial | none | pure functions, or adapters to engines | called by the stages and the radar | numeric edges |
| `cmd/skyeye-scaler` | timers | scales a deployment by the number of players | HTTP | timers against each other |

What makes each part correct: the radar must find what it holds, must not lose
a fade to expiry or announce it twice; the controller must not believe in
merges that are over nor repeat itself; the radio must hand over whole,
ordered transmissions of one speaker and must get back to its server; the
telemetry client must keep the radar's picture in step with the mission; the
transmitter must send packets that others can read, in rising order, whatever
happens to its connection; the pipeline must say what it was asked to in order,
must not jam; the request handlers must
understand what was said, and what they tell must be so.

## 2. The modules

| Module | Models | Extended by |
|---|---|---|
| `GoMap` | Go maps as partial functions | the components that keep maps |
| `Radar` | the contact database and the four goroutines of `Radar.Run` | `FadeHistory`, `MCRadar` |
| `FadeHistory` | `Radar` with a record of who led a FADED group when | `MCFadeHistory`, `RadarProofs` |
| `Controller` | the loop's merges and threats, and the radar's callbacks | `CallHistory` |
| `CallHistory` | `Controller` with a record of the THREAT calls | `MCCallHistory`, `ControllerProofs` |
| `Telemetry` | the telemetry client | `TelemetryProofs` |
| `Reception` | the receive path of the SRS client, from packets to transmissions | `MCReception`, `ReceptionProofs` |
| `Autoheal` | pings, the reconnection loop and the TCP reader | `Transmission` |
| `Packet` | the layout of a voice packet, `NewPacket`, `Encode`, `Decode` | `Transmission` |
| `Transmission` | the send path of the SRS client, composed with `Autoheal` | `MCTransmission`, `TransmissionProofs` |
| `Application` | every goroutine of `Application.Run` and what connects them | `MCApplication`, `ApplicationProofs` |
| `LossyQueue` | abstract: what the application promises to those who ask | instantiated by `Application` |
| `Loops` | a loop over a sequence as a recursive function | `Parser`, `Scope` |
| `Parser` | `Parser.Parse`, from normalised words to a request | `Requests` |
| `Scope` | the radar's queries over a snapshot of its contacts | `Requests`, `ScopeProofs` |
| `Requests` | the controller's handlers and the THREAT call, composed with `Parser` and `Scope` | `MCRequests`, `RequestsProofs` |

**Radar.**  `contacts` and `callsignIdx` are the database; each of its methods
holds `db.lock` and is one operator (`set`, `delete`, `reset`).  A goroutine is
a sequence of actions, one per database operation or lock section, and
`updater`, `faderPc`, `starter` and `collecting` say where each is.  The two
locks that matter are predicates over those (`FadesReadLocked`,
`FadesWriteLocked`).  A trackfile is its labels and the mission time of its
newest frame; which aircraft form a group is any set of neighbours of the same
coalition.  The clock is kept as the time left to the fader's deadline and the
ages of completed fades, which is all the code asks of it, so time has no bound;
fades keep arriving for ever, each moving the deadline on, and the ticker resets
the extension counter as the code does.  Only mission time (`MaxMissionTime`)
and the length of a batch (`MaxPending`) are bounded.

**Reception.**  Per radio a buffer, the recorded sender, the recorded packet
number and whether `maxRxGap` has gone by.  `receive` is two actions because it
decides before it takes the receiver's lock (`CheckPacket`, `AppendPacket`),
and the hand-over of a finished transmission is four, because the buffer is
measured, copied and sent without the lock; autoheal's resets fall between any
two of them.  Reads of a field without its lock are modelled by the order of
the atomic steps they fall between.  Packets are taken from a set, so they are
lost, repeated and reordered freely.  `Decode` leaves out every frame that the
decoder rejects, any of them, and publishes the rest if there is any.

**Autoheal.**  Times are ages that stop growing just above the timeout, so the
run is complete without a bound on time.  `lastPingLock` is held from
`HealTick` to `Initialize`.  The server may stop and start at any time.  The
module has the actions only; `Transmission` puts them together with its own.

**Controller.**  Positions are abstracted: the scope reports any set of at most
`MaxGroups` groups of present contacts, and a friendly is at any distance.
`broadcastMerges` is one action per tracker operation (`keep`, `separate`,
`merge`, `remove`), `broadcastThreats` has its decision, its send and the
extension of each cooldown apart; a send waits for its receiver for as long as
it takes.  The decision (`TakeThreat`) reads several trackers in one step:
between two rounds of the loop cooldowns and merges only disappear, so the
outcome of the separate reads is that of one step at the last of them.  The
callbacks are threads that visit one tracker after the other.  A contact whose
fade was handled shortly before leaves the database without a callback.  At most
`MaxRemovals` expiry callbacks wait at once.

**Telemetry.**  `pc` follows `Run`, `read`, `handshake` and `handleLines`;
`conn` is the connection as the server sees it.  An object is an aircraft with
all that `collectUpdates` needs, some other object, or what a failed line has
left behind.  `start`, `fade` and `snapshot` are what the three goroutines of
`Stream` have in hand; `scope` is what the radar has been told.  A `calm` server stays up,
sends no broken lines and updates some object in every period of the reader's
ticker.

**Transmission** extends `Autoheal` by the UDP connection, which reconnection
closes (`CloseUDP`) and replaces (`ReplaceUDP`), by `encodeVoice` and by
`transmitPackets`.  `EncodeVoice` makes the packets of one transmission, with
the numbers of the client's counter; `WritePacket` writes one packet, and an
error loses that packet, a closed connection the rest.  `receiving` says whether
`waitForClearChannel` finds a receiver whose deadline is still to come.  What
Opus makes of a frame is a short sequence of bytes, or an error.

**Packet** keeps the bytes and the 16-bit lengths; it is the one place in which
an encoding is what matters.  A datagram is a function from offsets to bytes;
`Encode` says what is written at each offset (`ByteAt`), `Decode` reads slices of
it, the fixed segment from its end as the code does.

**Application.**  Each goroutine has a place in its code (`pc`) and a message in
`hand`.  A send on an unbuffered channel and its receipt are one step
(`Handover`), possible when the receiver is in its select and whether or not the
context is done, since the code's sends ignore it.  A message is its source and
a number; recognition, parsing, locks and synthesis succeed or fail.  The
controller's loop and the radar's fader are stages too: both send to the
controller's channel, and the loop waits for the fader's batch before a picture
while the fader holds the radar's lock (`FadesLocked`).  The loop asks under
that lock (`AskAgain`), so it is blocked there, cancelled or not, for as long as
the fader holds it.  The fader handles its batch at a tick once the deadline has
passed (`passed`), and every fade, new or repeated, moves the deadline on.
`control` reaches a nil
channel when it handles a request before `Controller.Run` has begun.  A mission
restart (`HandleStarted`) clears the pending fades.  `Cancel` ends the context
at any time; the process ends when every goroutine has left (`Exit`) or by the
watchdog (`ForceExit`).

**LossyQueue** is the abstract specification that `Application` implements: what
a source asks for gets the next number, waits, may be lost, and is said when it
is the oldest of its source that still waits.  The refinement mapping reads what
waits off the hands of the goroutines and the radar's pending fades
(`OnItsWay`): where in the pipeline a message is does not matter to it, so that
the order has to come from the way the stages pass messages on.

**Parser.**  A word is its text or its digits, because the recognizer may write
one number as several tokens or several numbers as one; the token stream is the
sequence of words that are left, its first perhaps consumed in part.  `Parse`
and each step of it give a set, empty if the text is not meant for the controller: when a BOGEY
DOPE names several kinds of aircraft, the order of a map decides.  Words that sound alike are the same word.

**Scope.**  The world is a line with positions in quarters of a nautical mile:
enough to be near, far, on either side, in a sector, in a threat radius or in
an altitude block, without floating point.  On a line two bearings are the same
or opposite; nothing is stated that depends on how bearings spread in the plane.
`Picture` looks around the center point, or around the bullseye while the center
is unset, and ranks from the center in either case.  Every query takes the order in
which the map is iterated as a parameter; the loops within one query share it.
A loop of the code is `Loop`: a function says what the body makes of what there
was and of the next element.  `slices.SortFunc` is the insertion sort that Go
uses for few elements; that matters, because `compareThreat` is no ordering.
`addNearbyAircraftToGroup` calls itself once for each contact it adds, so that
the number of contacts bounds its depth, and it is a function of that depth.

**Requests.**  An exchange starts with a transmission (or the loop's look for
threats) and ends answered or ignored; there is one action per question that a
handler asks the radar, and `Move`, `Fade` and `Forget` (the controller's
callback, which drops the merges of a contact) change the world between two of
them.  `stirred` records which contacts did, so that the properties can be
stated about the others.  An exchange that gets stuck would be a deadlock.  Of
an answer only what the properties need is kept: merge details, readbacks,
altitudes and tracks in a response are left out.  `RequestsAssumption` says what
worlds an exchange may begin with: finitely many contacts, each with a
trackfile that has a side, a name and a position (perhaps none, `Zero`), and
contacts that move get a position.

Definitions marked "Mutant" are plausible bugs of the definition that follows;
each property is known to fail when its mutant takes the definition's place.

## 3. The runs

| Run | Checks | Bounds |
|---|---|---|
| `radar` | types, `IndexSound`, `ExpiryExcludesFades`, `BatchIntact` | two aircraft of one pilot (so that they share an index entry), batches of up to two fades, long extensions and short ones; `ExpiryAge` = 0 and `MaxMissionTime` = 2, so that a trackfile seen at 1 expires at 2 |
| `fades` | `FadeAnnouncedOnce`, `FadesResolve` | the same aircraft; fades repeated within a retention of one tick, every batch a tick after its last fade; fades that never stop are among the behaviours |
| `radar_index` | `EveryContactIndexed` fails | as `radar` |
| `reception` | types, `ReceiverSound`, `NeverDeaf`, `PublishedSound`, `TransmissionsEnd` | two speakers, one of them unknown to the roster, one radio, two packet numbers, buffers up to the limit of two; coalition security on or off |
| `roster_race` | `RosterRaceFree` fails | two known speakers, one packet |
| `transmission` | types, `Readable`, `NumbersRise`, `LossNoticed`, `Recovers`, `SpokenOnceClear` | no bound on time; a timeout of two pings, one ping queued; two transmissions of up to two frames, an empty one among them, on two frequencies; packet numbers up to `MaxPacketNumber` = 5, which two such transmissions never pass |
| `controller` | types, `MergesFollowScope`, `ThreatsSpaced` | one hostile, two friendlies (so that one can be listed without the other), symmetric; no expiries, which call the same removals as fades |
| `controller_live` | `MergesForget` | one hostile, one friendly; fades, expiries and restarts |
| `threat_wingman` | `LiveThreatsSpaced` fails | two hostiles, one friendly |
| `telemetry` | types, `LateOnce`, `SeesAll`, `Streams` | two objects, a grace period of one tick |
| `application` | types, `SaidInOrder`, `Drains`, `FadesResolve` | four messages: at most one by voice, one by chat, two fades, two of the loop; repeated fades, which only postpone the batch, without bound |
| `requests` | types, `Understood`, `Accounted`, `NearestReported`, `PictureFirst`, `ThreatTaken` | nine families of scenarios, below; the center point is set; at most two contacts change during an exchange |

Two contacts, speakers or objects are enough for the first runs: each of
their properties relates one contact to itself over time, or to one other that
shares an index entry, a group, a radio or a snapshot with it.  The safety
properties among them are proved without bounds (section 4).

In `reception` the application takes what is decoded before anything else
happens: taking it touches nothing else, so no other order leads to another state
of the rest.

In `application` two fades make a batch, so that one is announced while the
other waits, and four messages are enough for every stage from parser to radio
to be busy while another message is at its door.  The bound is on what sources
bring; all interleavings, failures and the moment of the shutdown are free, and so is
how often a fade is notified again while its batch is pending.

The scenarios of `requests` are chosen by what a property has to tell apart:
every kind of request in every grouping of its digits (`Wordings`), garbled
text and a speaker without a position (`Lonely`), up to three hostiles near and
far, of known and unknown type, flying and parked (`Seeking`), in and out of a
sector (`Warned`), tankers (`Refueling`), four groups of which a picture names
three (`Overview`), friends and foes in and about a volume (`Disputed`),
flights of which all, some or none are endangered (`Threatened`), and flights
of which some are merged with the threat (`Merging`).  PICTURE asks for
fixed-wing groups only, so that the ranks of helicopters do not occur in it.

The three runs that end in a violation show where the code and its comments
disagree.

- `radar_index`: `contactDatabase.delete` removes the index entry under the
  deleted contact's name even if it belongs to another aircraft of that pilot,
  who then cannot be found by name although `getByCallsignAndCoalititon`
  promises the closest name.
- `roster_race`: `receiveVoice` reads the clients map without the lock that
  "controls access to the clients map".
- `threat_wingman`: `handleFaded` drops the cooldowns of the living wingmen of
  a faded contact, and the THREAT call about them is repeated within "the
  interval between threat calls for the same threat".

The models follow the code in five more places where a comment or a guide says
something else.  No run is about them, and no property claims what is said
there:

- `FindNearestGroupInSector` "returns the nearest group", but its loop never
  records the distance of the best contact so far, so that the last one in the
  sector, in the order of the map, wins.  SPIKED and STROBE answer with it.
- Without a center point `Picture` is "using bullseye" to find groups, but
  `compareThreat` measures from the unset center, so that a threat to the
  bullseye may be left out for groups that are none.  `PictureFirst` is checked
  and proved for a center that is set.
- The player guide says that for a fixed-wing aircraft "hostile fixed-wing
  aircraft are prioritized over hostile helicopters, regardless of range";
  `HandleBogeyDope` looks for the nearest of both, which is what its own comment
  says and `NearestReported` states.
- The ticker sets the count of extensions back to 0 every three seconds, also
  while the batch is pending, so that a chain of fades gets the long extension
  again and again, where a comment promises short ones "for every time after
  that".  `FadesResolve` is about fades that stop.
- `receiveVoice` compares the number of packets with `minRxDuration`, and
  `decodeVoice` leaves out what does not decode after that: what is published
  may be shorter than "the minimum duration of a transmission to be considered
  for speech recognition".  `PublishedSound` has an upper limit only.

Two things the passing runs show in their statements.  `Drains` makes an
exception of a request that is handled before `Controller.Run` has set its
channel: `control` then blocks for ever, and the pipeline with it.  And the
liveness properties about fades have an antecedent: the fades stop (`FadesStop`
in `Application`, no more notifications in `Radar`).  While they keep arriving,
nothing bounds how long a batch is pending.  That stages leave after a
cancellation is not stated: they may be stuck in sends that nobody receives, and
it is the watchdog of `main.go` that ends the process then.

**Fairness.**  Weak fairness is assumed of goroutines that can go on: the Go
scheduler is fair to runnable goroutines and a mutex is handed over.  Strong
fairness is assumed of one case of a `select` that also has others ready
(`FlushTick`), because Go chooses among ready cases at random, and
of the clock in `Transmission`, because time passes however often the
reconnection loop goes round.  `Application` assumes less: that some goroutine
that can go on does while the context lives (the radio takes transmissions, a
lock file becomes free or times out), and that the loop is not starved between
two selects.  Nothing is assumed of servers;
where a property needs a server, a channel or a mission that behaves, its
antecedent says so (`<>[]up`, `<>[]calm`, `<>[]~receiving`, `FadesStop`), and `TransmissionsEnd` says that
the voice goroutine keeps up (`QuietMoments`).  `Controller` assumes that calls
are received, which `Application`'s `Drains` supports; `Telemetry` assumes that
the radar receives.

## 4. What is proved

For every value of the constants, subject to the assumptions named in the
modules:

| Theorem | States | Rests on |
|---|---|---|
| `RadarProofs!TypeCorrect` | `TypeOK` | the database operations keep the types |
| `RadarProofs!IndexCorrect` | the callsign index never dangles | `MissStillHolds`: a lookup of `handleUpdate` that missed is still a miss when it stores the contact, since nobody else adds contacts; without it, `set` could overwrite a contact of another name and leave its entry behind |
| `RadarProofs!ExpiryCorrect` | expiry excludes pending and handled fades | the lock predicates |
| `RadarProofs!BatchCorrect` | a batch is not changed while it is handled | the lock predicates |
| `ReceptionProofs!TypeCorrect` | `TypeOK`, with the roster's coalitions | |
| `ReceptionProofs!ReceiverCorrect`, `NeverDeafCorrect` | receivers hold one voice in order and are never deaf | what the unlocked check established either still holds at the append or the receiver has been reset meanwhile |
| `ReceptionProofs!PublishedCorrect` | what is published is one client's voice, in order and within the limit; nothing is said of a minimum, which the code does not keep | the buffer at the copy is the one measured, or empty; everything in flight is one voice or all zero; leaving out frames keeps the order |
| `ControllerProofs!TypeCorrect` | `TypeOK`; no hostile is merged with nobody | each tracker method keeps the map's type |
| `ControllerProofs!MergesCorrect` | merges on record are merges the scope listed | `RoundSound`: during a round, a merge that is not listed belongs to a hostile whose turn is still to come, in this group or in one not taken yet; the callbacks only shrink the tracker |
| `TelemetryProofs!TypeCorrect` | `TypeOK`; no untyped object while lines are read | `Reset` comes between a failed line and the next session |
| `TelemetryProofs!LateOnceCorrect` | aircraft that are gone are reported at most once more | `LateIsLast`: the state holds what the stream has, and an aircraft reported late is not in the rest of the snapshot |
| `RadarProofs!FadesAnnouncedOnce` | a contact leads no second announced group within the retention | `LedRemembered`: whoever led a group is in `completedFades`, under a time no earlier than that of the group, until the retention is over; clean-up goes by the later time, and a restart forgets both |
| `ControllerProofs!ThreatCallsSpaced` | a THREAT call about the same hostiles is not repeated within the cooldown, unless a callback removed one | `CooldownsCover`: what is left of a cooldown and the time since the call make up the full cooldown, except where a callback removed it or it is only about to be set; `CallIsDue`: what the check found still holds when the call is received |
| `TransmissionProofs!TxTypeCorrect` | `TxTypeOK`, of `Autoheal` and the transmitter | |
| `TransmissionProofs!PacketsReadable` | what is written can be read: `Decode` gives back the packet | the lemma `RoundTrip`, `Decode(Encode(p)) = p` for every well-formed packet, from one lemma for each segment of the datagram; `NewPacket` makes well-formed packets of frames that fit the buffer |
| `TransmissionProofs!PacketNumbersRise` | packet numbers rise on the air | `InOrder`: the numbers rise from the last packet written through the transmitter, the channel and the encoder to the client's counter |
| `ApplicationProofs!TypeCorrect` | `TypeOK`; a message in hand exactly while it is worked on | |
| `ApplicationProofs!ImplementsPromise` | `Application` implements `LossyQueue` | `PipeInv`, below |
| `ApplicationProofs!NeverRepeated` | of each source, what has been said has rising numbers | the refinement, with `SaidFirst`: what was said was asked before all that is on its way |
| `ScopeProofs!GroupIsConnected` | a group starts with the contact asked for, has nobody twice, and each of the others is of its side and within 5 NM of one before him | induction on the depth of the nested calls, and for each of them on the loop |
| `ScopeProofs!NearestGroup` | `FindNearestGroupWithBRAA` returns a group as near as every match | the loop's nearest so far |
| `ScopeProofs!PictureRanked` | of the groups around the point it searches from, what `Picture` leaves out ranks no higher from the center than what it names, whether or not the two points are the same | insertion keeps the sequence ascending in rank, although the comparison is finer than rank and not transitive |
| `ScopeProofs!ReceiversFriendly` | receivers are on frequency and of the other side | |
| `RequestsProofs!BearingRead` | however the digits are grouped into numbers, a bearing is read exactly if there are three, it is the first three, and all others are left | `DigitsKept`: no turn of the loop loses or moves a digit; `LoopsTogether` |
| `RequestsProofs!CollatedCallTaken` | a collated call is taken by the receivers, all of those still there, and no other friendly | an entry's flight is all of it meant, and numbers follow the same name (`EntryOK`) |
| `RequestsProofs!ExchangeWellFormed` | `TypeOK` of `Requests` | `Inv`, below |
| `RequestsProofs!EverybodyAccounted` | `Accounted` | `FoundOK`: after the first of the two questions, a friendly who has been in the volume all the time has been found |
| `RequestsProofs!NearestIsReported` | `NearestReported` | `NearestGroup` |
| `RequestsProofs!HighestFirst` | `PictureFirst`, if the center point is set (without one it fails) | `PictureRanked` |
| `RequestsProofs!CallsTaken` | `ThreatTaken`: those endangered and not merged with the threat, and nobody else, take the call | `ReceiversOK`, `CallsignsGathered`, `CollatedCallTaken` |

The inductive invariants are conjunctions of named parts, which TLC checked
before they were proved.

**The refinement.**  `PipeInv` says that of two messages of one source the one
closer to the radio was asked for first.  `Downstream` names the stages ahead of
a stage and `Carries` the sources whose messages come its way.  A handover moves
a message past stages that hold none of its source: whoever is upstream of the
receiver is upstream of the sender too, or carries other sources (`Pipe`).
Fades overtake requests and requests fades, but only those of another source.
The radar's `pendingFades` is the one queue on the way; the fader, which puts
fades into it and takes them out, is behind it while it works on a new fade and
past it while it announces one with the lock held (`Past`).  Then every step is
one of `LossyQueue`'s: bringing a message is `Ask`, `Transmit` is `Say` because
everybody is upstream of it, and all else loses something or nothing.

**Exchanges.**  A handler looks at the radar once or twice, and between two
looks the world moves on.  What one look yields is a fact about `Scope`, proved
in `ScopeProofs` for any contacts in any order.  What is left of it at the next
look is the invariant `Inv` of `RequestsProofs`: the worlds stay such that they
can be asked (`WorldOK`), the speaker is on the controller's side (`SpeakerOK`),
and of `found` it says what remains true of contacts that have not been stirred
(`FoundOK` for DECLARE and SNAPLOCK, `ReceiversOK` and `CallsignsGathered` for
THREAT).  `Accounted` is not inductive without `FoundOK`: the answer is made of
what was found before contacts moved.  `WorldStep` shows that a move, a fade or a
forgotten merge leaves all this alone; each handler then has a lemma of its own.

**Induction.**  The library's induction theorems take an operator as a
parameter, which none of the provers used here can instantiate.  `ScopeProofs`
has induction over an interval instead, about a set: the least element outside
of it would have a predecessor inside (`Induction`; the least one exists because
the inclusion of finite sets is well-founded, `SmallestSubset`).  From that come
the existence of recursive functions over an interval (`Recursion`) and with it
what `Loop` computes (`LoopUnrolled`), and the rule for loops that all the
queries use (`LoopInvariant`): a set that has the start value and is closed
under the body has the result.  `LoopsTogether` is the same for what relates two
loops over the same elements: the parser's loop over words and the one that only
joins their digits, for `BearingRead`.

The attempt to prove `Accounted` found a mistake in an earlier form of the model:
the choice of the group that DECLARE and SNAPLOCK report was a `CASE` with
overlapping arms, of which TLA+ may take any, while TLC takes the first.  The
arms exclude each other now.  Two properties were made exact by their proofs:
`NearestReported` is about hostiles within the 300 NM that BOGEY DOPE looks at,
and `PictureFirst` compares what PICTURE leaves out with contacts nobody is near
(`Lone`), whose group is known from the world alone.

**Assumptions.**  Durations, capacities and bounds are natural numbers; `Nil`
is no message.  `Transmission` assumes that a frame fits the buffer it is
encoded into (1024 bytes, `encodingBufferSize`), that the radios of the client
fit into a packet beside it, that a GUID has its 22 bytes and that packet
numbers fit into 64 bits: `NewPacket` adds up lengths in 16 bits, and without
the first two the sum could overflow.  `RequestsAssumption` is about the worlds
with which exchanges begin; nothing is assumed of the number of contacts, of
the encyclopedia, of the configured radii, or of what is said.

Only model-checked: every liveness property (`FadesResolve`,
`TransmissionsEnd`, `MergesForget`, `SeesAll`, `Streams`, `LossNoticed`,
`Recovers`, `SpokenOnceClear`, `Drains`), because this prover handles
neither fairness nor `ENABLED`; and `Understood`, which says of the particular
wordings of the scenarios what the parser makes of them: they are data, which
TLC enumerates.  The part of it that is about numbers is proved for every stream
of words (`BearingRead`).

## 5. What is not modelled

- The text of calls (composer, brevity), speech engines, tracing, and the
  parsing of flags: formatting and adapters without state.
- The normalisation of recognized text and the fuzzy comparison of words and
  callsigns: tables and edit distances.  A word or a name is right or another.
- Projections, terrains, magnetic declination and the table of aircraft:
  floating-point geometry and data.  `Scope` keeps what is done with distances
  and directions.  In particular nothing is said of how good the shared BRAA of a
  THREAT call is for each of its receivers: that is a question of bearings in the
  plane.
- `wasLastPictureClean`, which suppresses a repeated clean picture: written by
  three goroutines without a lock, with no promise stated anywhere.
- Of the radar, bullseyes and the center point as state; of telemetry, times,
  the text of the handshake and recorded files; of the SRS client, its JSON
  messages.
- The scaler: one goroutine with two timers.

## 6. Plan

1. *Telemetry and Radar together*: an abstract specification of the scope (the
   contacts of the current mission, each known, fading or gone) that both
   implement.
2. The flag of the automatic picture, and the scaler.

Where a new question needs a run, runs of the same component are joined first:
the runs stay one per question.
