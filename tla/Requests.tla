------------------------------ MODULE Requests ------------------------------
(***************************************************************************)
(* One exchange with the controller: a transmission is parsed and answered *)
(* with what the radar shows, or a THREAT call is put together.  A handler *)
(* asks the radar several things, one after the other, and between two of  *)
(* them contacts move, appear and fade.                                    *)
(***************************************************************************)
EXTENDS Parser, Scope

CONSTANTS
    Coalition,      \* the controller's
    Bullseye,       \* where the bullseyes are, by coalition
    Center,         \* the radar's center point, Zero until it is set
    Place,          \* where a contact may turn up while a request is handled
    OnFrequency,    \* the IDs of the pilots on frequency
    Locations,      \* the configured locations: sequences of [names, point]
    Scenario,       \* what exchanges may begin with
    MaxChanges      \* how often the world changes during an exchange

\* An exchange begins with something said, or with a threat; every contact has a
\* trackfile, and a contact that moves gets a position.
ASSUME RequestsAssumption ==
    /\ MaxChanges \in Nat
    /\ MaxSharedBRAARangeSpread \in Nat
    /\ Coalition \in {"Blue", "Red"}
    /\ Place \subseteq Int \ {Zero}
    /\ \A l \in Range(Locations) : l.names # <<>>
    /\ \A s \in Scenario :
         /\ s.stage \in {"heard", "threat"}
         /\ IsFiniteSet(s.contacts)
         /\ s.contacts \subseteq DOMAIN s.track
         /\ Nil \notin DOMAIN s.track
         /\ s.merged \subseteq (DOMAIN s.track) \X (DOMAIN s.track)
         /\ \A id \in DOMAIN s.track :
              /\ {"coalition", "name", "point"} \subseteq DOMAIN s.track[id]
              /\ s.track[id].point \in Int
              /\ s.track[id].name = [name |-> s.track[id].name.name,
                                     digits |-> s.track[id].name.digits]

VARIABLES
    heard,      \* the words of the transmission
    meant,      \* what its speaker asked for, if it was said properly
    stage,      \* how far the exchange is
    request,    \* what the parser made of it
    me,         \* the trackfile of the speaker
    volume,     \* where DECLARE and SNAPLOCK look
    found,      \* what the handler has found so far
    answer,     \* the call that was sent
    merged,     \* the controller's mergeTracker: pairs of a hostile and a friendly
    stirred     \* history: the contacts that have changed since the first question

vars == <<contacts, track, heard, meant, stage, request, me, volume, found,
          answer, merged, stirred>>
world == <<contacts, track, merged, stirred>>

Hostile == Opposite(Coalition)
Done == {"answered", "ignored"}
Stages == {"heard", "handle", "search", "compare", "threat", "gather", "collate"}
            \cup Done

TypeOK ==
    /\ contacts \subseteq DOMAIN track
    /\ stirred \subseteq DOMAIN track
    /\ merged \subseteq (DOMAIN track) \X (DOMAIN track)
    /\ stage \in Stages
    /\ stage \in {"search", "compare"} => me \in DOMAIN track /\ Point(me) # Zero
    /\ stage = "compare" =>
         DOMAIN volume = {"origin", "interest", "radius", "low", "high"}
    /\ IF stage = "answered" THEN "call" \in DOMAIN answer ELSE answer = Nil

Init ==
    \E s \in Scenario :
      /\ contacts = s.contacts
      /\ track = s.track
      /\ heard \in s.said
      /\ meant = s.meant
      /\ stage = s.stage
      /\ request = Nil /\ me = Nil /\ volume = Nil /\ found = <<>>
      /\ answer = Nil
      /\ merged = s.merged
      /\ stirred = {}

-----------------------------------------------------------------------------
(* The world moves on *)

\* A change before the radar is asked anything makes but another world to begin
\* with.
Changing(ids) ==
    /\ stage \in {"search", "compare", "gather", "collate"}
    /\ Cardinality(stirred) < MaxChanges
    /\ stirred' = stirred \cup ids
    /\ UNCHANGED <<heard, meant, stage, request, me, volume, found, answer>>

Move(id, p) ==
    /\ p # Point(id) /\ Point(id) # Zero
    /\ track' = [track EXCEPT ![id].point = p]
    /\ contacts' = contacts \cup {id}
    /\ UNCHANGED merged
    /\ Changing({id})

Fade(id) ==
    /\ contacts' = contacts \ {id}
    /\ UNCHANGED <<track, merged>>
    /\ Changing({id})

\* The controller's remove, called back by the radar some time after a contact
\* has faded or expired, for it and for those it takes for its group.
Forget(id) ==
    LET forgotten == {m \in merged : id \in {m[1], m[2]}}
    IN  /\ forgotten # {}
        /\ merged' = merged \ forgotten
        /\ Changing(UNION {{m[1], m[2]} : m \in forgotten})
        /\ UNCHANGED <<contacts, track>>

-----------------------------------------------------------------------------
(* Parsing *)

\* Text that is not meant for the controller is ignored.
ParseText ==
    /\ stage = "heard"
    /\ heard' = <<>>
    /\ \E requests \in {Parse(heard)} :
         IF requests = {}
         THEN stage' = "ignored" /\ UNCHANGED request
         ELSE stage' = "handle" /\ request' \in requests
    /\ UNCHANGED <<world, meant, me, volume, found, answer>>

-----------------------------------------------------------------------------
(* Handling: who asks *)

Send(call) ==
    /\ answer' = call
    /\ stage' = "answered"
    /\ meant' = Nil
    /\ UNCHANGED <<world, heard, request, volume>>

\* The trackfiles of the coalition that the callsign may stand for.
FindCallsign(callsign) ==
    LET ids == {id \in contacts : /\ track[id].coalition = Coalition
                                  /\ track[id].name = callsign}
    IN  IF ids = {} THEN {Nil} ELSE ids

\* Mutant: a trackfile without a position is taken for the speaker's.
LocatedAnyhow(id) == id # Nil

Located(id) == id # Nil /\ Point(id) # Zero

NegativeRadarContact == [call |-> "negative", to |-> request.callsign]
Response(fields) ==
    LET header == [call |-> request.kind, to |-> request.callsign]
    IN  [f \in DOMAIN header \cup DOMAIN fields |->
           IF f \in DOMAIN header THEN header[f] ELSE fields[f]]

Handles(kinds) == stage = "handle" /\ request.kind \in kinds

\* HandleRadioCheck, HandleAlphaCheck and a VECTOR without radar contact say
\* so in their own response, the others with NEGATIVE CONTACT.
NoContact ==
    IF request.kind \in {"radio", "alpha", "vector"}
    THEN Response([contact |-> FALSE]) ELSE NegativeRadarContact

HandleUnableToUnderstand ==
    /\ Handles({"unable"})
    /\ \E id \in FindCallsign(request.callsign) :
         Send([call |-> "sayagain",
               to |-> IF id = Nil THEN NoCallsign ELSE track[id].name])
    /\ UNCHANGED <<me, found>>

\* A handler that is done once it knows where the speaker is, if at all.
AnswerAtOnce(kind, response(_)) ==
    /\ Handles({kind})
    /\ \E id \in FindCallsign(request.callsign) :
         Send(IF Located(id) THEN response(id) ELSE NoContact)
    /\ UNCHANGED <<me, found>>

HandleRadioCheck == AnswerAtOnce("radio", LAMBDA id : Response([contact |-> TRUE]))
HandleCheckIn == AnswerAtOnce("checkin", LAMBDA id : Response([contact |-> TRUE]))
HandleTripwire == AnswerAtOnce("tripwire", LAMBDA id : Response([contact |-> TRUE]))
HandleShopping == AnswerAtOnce("shopping", LAMBDA id : Response([contact |-> TRUE]))

HandleAlphaCheck ==
    AnswerAtOnce("alpha",
                 LAMBDA id : Response([contact |-> TRUE,
                                       bearing |-> Bearing(Bullseye[Coalition], Point(id)),
                                       range |-> Distance(Bullseye[Coalition], Point(id))]))

\* The other handlers find the speaker and go on to search.
Identify(id) ==
    IF Located(id)
    THEN /\ me' = id
         /\ stage' = "search"
         /\ meant' = Nil
         /\ UNCHANGED <<world, heard, request, volume, found, answer>>
    ELSE Send(NoContact) /\ UNCHANGED <<me, found>>

FindSpeaker ==
    /\ Handles({"bogey", "spiked", "strobe", "declare", "snaplock", "vector"})
    /\ \E id \in FindCallsign(request.callsign) : Identify(id)

-----------------------------------------------------------------------------
(* BOGEY DOPE, SPIKED, STROBE, VECTOR and PICTURE: one question *)

Searches(kinds) == stage = "search" /\ request.kind \in kinds

\* The direction of a bearing of three digits.
Direction(bearing) == IF bearing = 180 THEN -1 ELSE 1

SendGroup(group) ==
    /\ Send(Response([origin |-> Point(me), group |-> group]))
    /\ UNCHANGED <<me, found>>

HandleBogeyDope ==
    /\ Searches({"bogey"})
    /\ \E order \in Orders :
         SendGroup(FindNearestGroupWithBRAA(Point(me), lowestAltitude,
                     highestAltitude, 300 * NM, Hostile, request.filter, order))

\* What a bearing on a radar that is heard stands for.
correlate(kind) ==
    /\ Searches({kind})
    /\ \E order \in Orders :
         SendGroup(FindNearestGroupInSector(Point(me), lowestAltitude,
                     highestAltitude, 120 * NM, Direction(request.bearing),
                     Hostile, "FixedWing", order))

HandleSpiked == correlate("spiked")
HandleStrobe == correlate("strobe")

SendVector(status, target) ==
    /\ Send(Response([contact |-> TRUE, status |-> status]
                     @@ IF status THEN [bearing |-> Bearing(Point(me), target),
                                        range |-> Distance(Point(me), target)]
                        ELSE <<>>))
    /\ UNCHANGED <<me, found>>

HandleVector ==
    /\ Searches({"vector"})
    /\ request.location # <<"tanker">>
    /\ LET i == SelectInSeq(Locations,
                            LAMBDA l : request.location \in Range(l.names))
       IN  SendVector(i # 0, IF i = 0 THEN Nil ELSE Locations[i].point)

\* The speaker's way of refueling, by probe if nothing else is known.
RefuelingMethod ==
    IF Known(me) /\ Data(me).takes # "none" THEN Data(me).takes ELSE "probe"

HandleTankerVector ==
    /\ Searches({"vector"})
    /\ request.location = <<"tanker">>
    /\ \E order \in Orders :
         LET tanker == FindNearestTanker(Point(me), Coalition, RefuelingMethod, order)
         IN  SendVector(tanker # Nil, IF tanker = Nil THEN Nil ELSE Point(tanker))

DefaultPictureRadius == 300 * NM

\* PICTURE does not look for the speaker.
HandlePicture ==
    /\ Handles({"picture"})
    /\ \E order \in Orders :
         LET picture == Picture(Center, Bullseye[Hostile], DefaultPictureRadius, Hostile,
                                "FixedWing", order)
         IN  Send([call |-> "picture", count |-> picture.count,
                   groups |-> picture.groups])
    /\ UNCHANGED <<me, found>>

-----------------------------------------------------------------------------
(* DECLARE and SNAPLOCK: first the friendly groups, then the hostile ones *)

Feet(altitude, margin) == [low |-> altitude - margin, high |-> altitude + margin]

\* Where to look, and in which altitude block.  DECLARE takes altitude 0 for
\* no altitude; SNAPLOCK does not.
VolumeOf(origin, radius, block) ==
    [origin |-> origin,
     interest |-> origin + Direction(request.bearing) * request.range * NM,
     radius |-> radius, low |-> block.low, high |-> block.high]

DeclareVolume ==
    VolumeOf(IF request.isBRAA THEN Point(me) ELSE Bullseye[Coalition], 7 * NM,
             IF request.altitude = 0
             THEN [low |-> lowestAltitude, high |-> highestAltitude]
             ELSE Feet(request.altitude, 5000))

SnaplockVolume == VolumeOf(Point(me), 10 * NM, Feet(request.altitude, 5000))

GroupsIn(v, coalition, order) ==
    findNearbyGroups(v.interest, v.low, v.high, v.radius, coalition, "Aircraft",
                     {me}, order)

HandleSour ==
    /\ Searches({"declare"})
    /\ request.sour
    /\ Send(Response([declaration |-> "unable", group |-> <<>>]))
    /\ UNCHANGED <<me, found>>

SearchFriendly ==
    /\ Searches({"declare", "snaplock"})
    /\ request.kind = "declare" => ~request.sour
    /\ volume' = IF request.kind = "declare" THEN DeclareVolume ELSE SnaplockVolume
    /\ \E order \in Orders : found' = GroupsIn(volume', Coalition, order)
    /\ stage' = "compare"
    /\ UNCHANGED <<world, heard, meant, request, me, answer>>

\* Mutant: friendlies nearby do not matter once there are hostiles.
DeclarationHostileFirst(friendly, hostile) ==
    CASE friendly = <<>> /\ hostile = <<>> -> "clean"
      [] hostile # <<>> -> "hostile"
      [] OTHER -> "friendly"

Declaration(friendly, hostile) ==
    CASE friendly = <<>> /\ hostile = <<>> -> "clean"
      [] friendly # <<>> /\ hostile = <<>> -> "friendly"
      [] friendly = <<>> /\ hostile # <<>> -> "hostile"
      [] OTHER -> "furball"

\* The hostile groups are looked up, and the answer is sent.
Compares(kind) == stage = "compare" /\ request.kind = kind

SendDeclaration(hostile, group) ==
    /\ Send(Response([declaration |-> Declaration(found, hostile), group |-> group]))
    /\ UNCHANGED <<me, found>>

\* The nearest group of the side that is there; in a furball the hostile group
\* if there is only one.
HandleDeclare ==
    /\ Compares("declare")
    /\ \E order \in Orders :
         LET hostile == GroupsIn(volume, Hostile, order)
         IN  SendDeclaration(hostile,
               CASE hostile # <<>> /\ (found = <<>> \/ Len(hostile) = 1) -> hostile[1]
                 [] hostile = <<>> /\ found # <<>> -> found[1]
                 [] OTHER -> <<>>)

\* The first hostile group that is hot comes before a nearer one; in a furball
\* there is none.
HandleSnaplock ==
    /\ Compares("snaplock")
    /\ \E order \in Orders :
         LET hostile == GroupsIn(volume, Hostile, order)
             hot == SelectInSeq(hostile, LAMBDA g : IsHot(g, volume.origin))
         IN  SendDeclaration(hostile,
               CASE hostile # <<>> /\ found = <<>> -> hostile[IF hot > 0 THEN hot ELSE 1]
                 [] hostile = <<>> /\ found # <<>> -> found[1]
                 [] OTHER -> <<>>)

-----------------------------------------------------------------------------
(* THREAT *)

Strict(callsign) == callsign.name # <<>> /\ Len(callsign.digits) = 2

\* Those of a flight that are called, by their position.
CalledOf(members, receivers) ==
    SortFunc(SetToSeq(members \cap receivers),
             {p \in members \X members : p[1].digits[2] < p[2].digits[2]})

\* Mutant: a flight is called as one when two of it are.
CollateFlightOfTwo(members, receivers) ==
    LET called == CalledOf(members, receivers)
    IN  IF Len(called) > 1
        THEN <<[callsign |-> called[1], how |-> "flight"]>>
        ELSE [i \in DOMAIN called |-> [callsign |-> called[i], how |-> "full"]]

\* One flight of those called: as a flight, or the first in full and the rest
\* by their numbers.
CollateFlight(members, receivers) ==
    LET called == CalledOf(members, receivers)
    IN  IF members \subseteq receivers /\ Cardinality(members) > 1
        THEN <<[callsign |-> called[1], how |-> "flight"]>>
        ELSE [i \in DOMAIN called |->
                [callsign |-> called[i], how |-> IF i = 1 THEN "full" ELSE "numbers"]]

FlightOf(c, everyone) ==
    {d \in everyone : Strict(d) /\ d.name = c.name /\ d.digits[1] = c.digits[1]}

FlightsOf(everyone) == {FlightOf(c, everyone) : c \in {d \in everyone : Strict(d)}}

InFull(callsigns) ==
    LET s == SetToSeq(callsigns)
    IN  [i \in DOMAIN s |-> [callsign |-> s[i], how |-> "full"]]

\* Who is called, and how.
Addresses(receivers) == [callsign : receivers, how : {"full", "flight", "numbers"}]

collateCallsigns(receivers, everyone) ==
    IF Cardinality(receivers) <= 1 THEN InFull(receivers)
    ELSE Loop([collated \in Seq(Addresses(receivers)) |->
                 [members \in FlightsOf(everyone) |->
                    collated \o CollateFlight(members, receivers)]],
              <<>>, SetToSeq(FlightsOf(everyone)))
           \o InFull({c \in receivers : ~Strict(c)})

\* scope.Threats: one of the groups there is a call about, and who hears it.
BroadcastThreats ==
    /\ stage = "threat"
    /\ \E order \in Orders :
         LET threats == Threats(Hostile, OnFrequency, order)
         IN  IF threats = {} THEN stage' = "ignored" /\ UNCHANGED <<found, volume>>
             ELSE \E t \in threats :
                    /\ found' = t.receivers
                    /\ volume' = [group |-> Range(t.group),
                                  origin |-> BRAAOrigin(t.group, t.receivers)]
                    /\ stage' = "gather"
    /\ UNCHANGED <<world, heard, meant, request, me, answer>>

isGroupMergedWithFriendly(group, friendID) ==
    \E hostileID \in group : <<hostileID, friendID>> \in merged

Gather(callsigns) ==
    /\ stage = "gather"
    /\ IF callsigns = {} THEN stage' = "ignored" /\ UNCHANGED me
       ELSE stage' = "collate" /\ me' = callsigns
    /\ UNCHANGED <<world, heard, meant, request, volume, found, answer>>

\* Mutant: those who are merged with the threat are called too.
GatherMerged == Gather({track[id].name : id \in Range(found) \cap contacts})

\* The callsigns of those that are still found and not merged with the threat.
GatherCallsigns ==
    Gather({track[id].name :
              id \in {i \in Range(found) \cap contacts :
                        ~isGroupMergedWithFriendly(volume.group, i)}})

FriendlyCallsigns ==
    {track[id].name : id \in {i \in contacts : track[i].coalition = Coalition}}

BroadcastThreat ==
    /\ stage = "collate"
    /\ Send([call |-> "threat", to |-> collateCallsigns(me, FriendlyCallsigns),
             origin |-> volume.origin])
    /\ UNCHANGED <<me, found>>

-----------------------------------------------------------------------------
HandleNext ==
    \/ HandleUnableToUnderstand \/ FindSpeaker
    \/ HandleRadioCheck \/ HandleCheckIn \/ HandleTripwire \/ HandleShopping
    \/ HandleAlphaCheck \/ HandleBogeyDope \/ HandleSpiked \/ HandleStrobe
    \/ HandleVector \/ HandleTankerVector \/ HandlePicture
    \/ HandleSour \/ SearchFriendly \/ HandleDeclare \/ HandleSnaplock
    \/ BroadcastThreats \/ GatherCallsigns \/ BroadcastThreat

WorldNext ==
    \E id \in DOMAIN track : Fade(id) \/ Forget(id) \/ \E p \in Place : Move(id, p)

\* Nothing else happens to the exchange: one that gets stuck is a deadlock.
Finished == stage \in Done /\ UNCHANGED vars

Next == ParseText \/ HandleNext \/ WorldNext \/ Finished

Spec == Init /\ [][Next]_vars

-----------------------------------------------------------------------------
\* However a proper request is worded, and however the recognizer groups the
\* digits of callsign, bearing and range into numbers, the parser makes the
\* request of it that was meant, and ignores none.
Understood ==
    meant # Nil => stage # "ignored" /\ (stage = "handle" => request = meant)

Steady(coalition) == {id \in contacts \ stirred : track[id].coalition = coalition}

InVolume(id) ==
    /\ isValidTrack(id)
    /\ Distance(volume.interest, Point(id)) <= volume.radius
    /\ InBlock(id, volume.low, volume.high)

Declares(declarations) == answer.declaration \in declarations

\* DECLARE and SNAPLOCK account for everybody who was in the volume asked about
\* all the time: a friendly there is never called hostile and never missed, nor
\* is a hostile called friendly, although the two sides are looked up one after
\* the other while contacts move; and a group called hostile or friendly is one.
Accounted ==
    stage = "answered" /\ volume # Nil /\ answer.call # "threat" =>
      /\ \A id \in Steady(Coalition) \ {me} :
           InVolume(id) => Declares({"friendly", "furball"})
      /\ \A id \in Steady(Hostile) :
           InVolume(id) => Declares({"hostile", "furball"})
      /\ \A id \in Range(answer.group) :
           track[id].coalition = IF Declares({"friendly"}) THEN Coalition ELSE Hostile

Reported(kinds) == stage = "answered" /\ answer.call \in kinds /\ me # Nil

\* The group reported has a contact as near as every one of ids.
NoneNearer(ids) ==
    \A id \in ids : \E g \in Range(answer.group) :
       Distance(answer.origin, Point(g)) <= Distance(answer.origin, Point(id))

\* BOGEY DOPE reports the group of the nearest hostile of the kind asked for
\* within 300 NM, in whatever order the contacts are looked at, and misses none
\* that stayed.  This is what HandleBogeyDope says of itself, "reporting the
\* closest enemy group"; it is not what docs/PLAYER.md promises, that for a
\* fixed-wing pilot airplanes come before helicopters "regardless of range": a
\* nearer helicopter is what the code reports.  Nothing of the kind holds for
\* SPIKED and STROBE: FindNearestGroupInSector returns the group of the contact
\* in the sector that it visits last, near or far.
NearestReported ==
    Reported({"bogey"}) =>
      NoneNearer({id \in Steady(Hostile) :
                    /\ isMatch(id, Hostile, request.filter)
                    /\ InBlock(id, lowestAltitude, highestAltitude)
                    /\ Distance(answer.origin, Point(id)) < 300 * NM})

\* No group that PICTURE leaves out - there are up to three in it - ranks above
\* one that it names, from the point it is anchored at: groups within their
\* threat radius before others, and fighters first among those.  (It asks for
\* fixed-wing groups, so that the ranks of helicopters do not occur.)  A contact
\* that nobody is near is known to be a group by himself.
PictureFirst ==
    stage = "answered" /\ answer.call = "picture" =>
      LET anchor == PictureOrigin(Center, Bullseye[Hostile])
          named == Range(answer.groups)
          members == UNION {Range(g) : g \in named}
          others == {id \in contacts \ members :
                       /\ isMatch(id, Hostile, "FixedWing")
                       /\ InBlock(id, lowestAltitude, highestAltitude)
                       /\ Distance(anchor, Point(id)) <= DefaultPictureRadius
                       /\ Lone(id)}
      IN  /\ Cardinality(named) = Min({3, answer.count})
          /\ \A id \in others, g \in named : Rank(g, anchor) <= Rank(<<id>>, anchor)

\* Who takes a call to be for him: after a full callsign a flight and position
\* alone mean the same name.
Takes(to, everyone) ==
    LET name(i) == to[Max({j \in 1..i : to[j].how # "numbers"})].callsign.name
    IN  {c \in everyone : \E i \in DOMAIN to :
           IF to[i].how = "flight" THEN c \in FlightOf(to[i].callsign, everyone)
           ELSE c = [name |-> name(i), digits |-> to[i].callsign.digits]}

\* Those a THREAT call is for: the pilots whom the group endangers and who are
\* not merged with it.
Endangered == {id \in Range(found) : ~isGroupMergedWithFriendly(volume.group, id)}

\* A THREAT call is taken by those it is for, however it is shortened: by every
\* pilot who was endangered and not merged with the group all the time and is
\* still on the scope, and by nobody else who is - in particular by nobody who
\* is in the merge.
ThreatTaken ==
    stage = "answered" /\ answer.call = "threat" =>
      LET taken == Takes(answer.to, FriendlyCallsigns)
      IN  /\ taken \subseteq {track[id].name : id \in Endangered}
          /\ {track[id].name : id \in Endangered \ stirred} \subseteq taken
=============================================================================
