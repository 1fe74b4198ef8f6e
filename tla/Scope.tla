------------------------------- MODULE Scope -------------------------------
(***************************************************************************)
(* The radar's queries: what the controller asks about the contacts.       *)
(*                                                                         *)
(* The world is a line that runs from south to north, with positions in    *)
(* quarters of a nautical mile, on which distances and the two directions  *)
(* are what they are on a map.  A trackfile is found by its ID and lives   *)
(* on after the contact database has dropped it.                           *)
(*                                                                         *)
(* Queries range over a snapshot of the database in the order of a Go map, *)
(* which is the parameter order: a sequence of the IDs in the database.    *)
(***************************************************************************)
EXTENDS Integers, Sequences, SequencesExt, FiniteSetsExt, Loops

CONSTANTS
    Nil,
    Encyclopedia,               \* aircraftDataLUT, by type of aircraft
    MandatoryThreatRadius,
    MaxSharedBRAABearingSpread, \* in degrees
    MaxSharedBRAARangeSpread

VARIABLES
    contacts,   \* the IDs in the contact database
    track       \* the trackfiles, by ID

NM == 4
Zero == 0       \* the point of a trackfile without a position

Point(id) == track[id].point
Distance(a, b) == IF a < b THEN b - a ELSE a - b
\* 1 to the north, -1 to the south.
Bearing(a, b) == IF b >= a THEN 1 ELSE -1

Opposite(coalition) == IF coalition = "Blue" THEN "Red" ELSE "Blue"

Orders == SetToSeqs(contacts)

\* slices.SortFunc sorts few elements by insertion; before is the set of the
\* pairs with cmp(a, b) < 0.
Insert(sorted, e, before) ==
    InsertAt(sorted,
             1 + Max({0} \cup {i \in DOMAIN sorted : <<e, sorted[i]>> \notin before}),
             e)

SortFunc(seq, before) ==
    Loop([sorted \in Seq(Range(seq)) |-> [e \in Range(seq) |-> Insert(sorted, e, before)]],
         <<>>, seq)

-----------------------------------------------------------------------------
(* Aircraft and trackfiles *)

\* How the entries of a family are made: variants copies all but the radius.
Variant(data) == [data EXCEPT !.threatRadius = 0]

Known(id) == track[id].type \in DOMAIN Encyclopedia
Data(id) == Encyclopedia[track[id].type]
HasTag(id, tag) == Known(id) /\ tag \in Data(id).tags

SAR1IRThreat == 15 * NM
SAR2AR1Threat == 25 * NM

ThreatRadius(id) ==
    CASE ~Known(id) -> SAR2AR1Threat
      [] Known(id) /\ (Data(id).threatRadius # 0 \/ HasTag(id, "Unarmed")) ->
           Data(id).threatRadius
      [] OTHER -> CASE Data(id).category = "RotaryWing" -> 3 * NM
                    [] HasTag(id, "Attack") /\ Data(id).category # "RotaryWing" ->
                         SAR1IRThreat
                    [] OTHER -> SAR2AR1Threat

isValidTrack(id) == Point(id) # Zero /\ track[id].airborne

isMatch(id, coalition, filter) ==
    /\ track[id].coalition = coalition
    /\ isValidTrack(id)
    /\ ~Known(id) \/ Data(id).category = filter \/ filter = "Aircraft"

InBlock(id, low, high) == low <= track[id].altitude /\ track[id].altitude <= high

-----------------------------------------------------------------------------
(* Groups: the sequence of their contacts *)

category(grp) == IF Known(grp[1]) THEN Data(grp[1]).category ELSE "FixedWing"

isArmed(grp) ==
    \/ \A i \in DOMAIN grp : ~Known(grp[i])
    \/ \E i \in DOMAIN grp : Known(grp[i]) /\ ~HasTag(grp[i], "Unarmed")

isFighter(grp) == \E i \in DOMAIN grp : HasTag(grp[i], "Fighter")

point(grp) ==
    Loop([p \in Int |-> [id \in DOMAIN track |-> (p + Point(id)) \div 2]],
         Point(grp[1]), Tail(grp))

threatRadius(grp) == Max({ThreatRadius(id) : id \in Range(grp)})

Altitude(grp) == Max({track[id].altitude : id \in Range(grp)})

\* The mean course is known unless as many fly one way as the other.
course(grp) ==
    Loop([c \in Int |-> [id \in DOMAIN track |-> c + track[id].course]], 0, grp)

\* Hot, seen from origin: flying towards it.
IsHot(grp, origin) == course(grp) * Bearing(origin, point(grp)) < 0

isGroupWithinThreatRadius(grp, distance) ==
    /\ isArmed(grp)
    /\ distance < threatRadius(grp) \/ distance < MandatoryThreatRadius

GroupTags == <<"Fighter", "Attack", "Unarmed">>

\* other has the first of the tags that this has, if this has one.
SimilarTags(this, other) ==
    LET i == SelectInSeq(GroupTags, LAMBDA tag : HasTag(this, tag))
    IN  i = 0 \/ HasTag(other, GroupTags[i])

Joins(this, other, grp) ==
    /\ other \notin Range(grp)
    /\ isMatch(other, track[this].coalition, category(grp))
    /\ SimilarTags(this, other)
    /\ Distance(Point(other), Point(this)) < 5 * NM

\* The calls are nested no deeper than there are contacts, as each adds one.
addNearbyAircraftToGroup(order) ==
    LET add[depth \in 0 .. Len(order)] ==
          IF depth = 0
          THEN [this \in contacts |-> [grp \in Seq(contacts) |-> grp]]
          ELSE [this \in contacts |-> [grp \in Seq(contacts) |->
                  Loop([g \in Seq(contacts) |-> [other \in contacts |->
                          IF Joins(this, other, g)
                          THEN add[depth - 1][other][Append(g, other)]
                          ELSE g]],
                       grp, order)]]
    IN  add[Len(order)]

findGroupForAircraft(id, order) ==
    IF Point(id) = Zero THEN <<id>>
    ELSE addNearbyAircraftToGroup(order)[id][<<id>>]

\* Each of the contacts ids starts a group unless it is in one already.
GroupsOf(ids, order) ==
    Loop([groups \in Seq(Seq(contacts)) |-> [id \in contacts |->
            IF id \in ids /\ \A i \in DOMAIN groups : id \notin Range(groups[i])
            THEN Append(groups, findGroupForAircraft(id, order))
            ELSE groups]],
         <<>>, order)

enumerateGroups(coalition, order) ==
    GroupsOf({id \in contacts : track[id].coalition = coalition /\ isValidTrack(id)},
             order)

\* The contacts whose groups are looked for.
Nearby(interest, low, high, radius, coalition, filter, excluded) ==
    {id \in contacts \ excluded : /\ isMatch(id, coalition, filter)
                                  /\ Distance(interest, Point(id)) <= radius
                                  /\ InBlock(id, low, high)}

Nearer(groups, interest) ==
    {p \in groups \X groups :
       Distance(interest, point(p[1])) < Distance(interest, point(p[2]))}

findNearbyGroups(interest, low, high, radius, coalition, filter, excluded, order) ==
    LET groups == GroupsOf(Nearby(interest, low, high, radius, coalition, filter,
                                  excluded), order)
    IN  SortFunc(groups, Nearer(Range(groups), interest))

-----------------------------------------------------------------------------
(* The nearest contact *)

lowestAltitude == 0
highestAltitude == 100000

\* The nearest to origin of the contacts ids, nearer than radius.
Nearest(origin, radius, ids, order) ==
    Loop([nearest \in contacts \cup {Nil} |-> [id \in contacts |->
            IF /\ id \in ids
               /\ Distance(origin, Point(id)) <
                    IF nearest = Nil THEN radius ELSE Distance(origin, Point(nearest))
            THEN id ELSE nearest]],
         Nil, order)

\* The last one that passes, whatever was found before.
LastOf(ids, order) ==
    Loop([nearest \in contacts \cup {Nil} |-> [id \in contacts |->
            IF id \in ids THEN id ELSE nearest]],
         Nil, order)

MatchesInBlock(coalition, filter, low, high) ==
    {id \in contacts : isMatch(id, coalition, filter) /\ InBlock(id, low, high)}

\* Mutant: the distance to beat is not updated.
FindTrackfileInRadius(origin, low, high, radius, coalition, filter, order) ==
    LastOf({id \in MatchesInBlock(coalition, filter, low, high) :
              Distance(origin, Point(id)) < radius},
           order)

FindNearestTrackfile(origin, low, high, radius, coalition, filter, order) ==
    Nearest(origin, radius, MatchesInBlock(coalition, filter, low, high), order)

\* The group of the nearest contact, or no contact at all.
GroupOf(id, order) == IF id = Nil THEN <<>> ELSE findGroupForAircraft(id, order)

FindNearestGroupWithBRAA(origin, low, high, radius, coalition, filter, order) ==
    GroupOf(FindNearestTrackfile(origin, low, high, radius, coalition, filter, order),
            order)

DefaultMarginRadius == 3 * NM

InSector(id, origin, length, bearing) ==
    /\ Bearing(origin, Point(id)) = bearing
    /\ Distance(origin, Point(id)) > DefaultMarginRadius
    /\ Distance(origin, Point(id)) < length

\* nearestDistance is never set: the last contact in the sector is taken.
FindNearestGroupInSector(origin, low, high, length, bearing, coalition, filter, order) ==
    GroupOf(LastOf({id \in MatchesInBlock(coalition, filter, low, high) :
                      InSector(id, origin, length, bearing)},
                   order),
            order)

\* 2400 statute miles.
TankerRadius == 2085 * NM

FindNearestTanker(origin, coalition, method, order) ==
    Nearest(origin, TankerRadius,
            {id \in contacts : /\ track[id].coalition = coalition
                               /\ isValidTrack(id)
                               /\ Known(id) /\ Data(id).gives = method},
            order)

-----------------------------------------------------------------------------
(* PICTURE *)

IsThreat(grp, center) == Distance(center, point(grp)) < threatRadius(grp)

\* compareThreat, first by what the group is.
Rank(grp, center) ==
    CASE category(grp) = "RotaryWing" -> IF IsThreat(grp, center) THEN
                                            IF isFighter(grp) THEN 4 ELSE 5
                                         ELSE 6
      [] OTHER -> IF IsThreat(grp, center) THEN
                     IF isFighter(grp) THEN 1 ELSE 2
                  ELSE 3

\* Then by the distance weighted with the threat radius, the distance itself,
\* each if it differs by more than 3 NM, and the altitude.  The weighted
\* distances are d * d / radius.
HigherThreatInRank(a, b, center) ==
    LET da == Distance(center, point(a))
        db == Distance(center, point(b))
        ra == threatRadius(a)
        rb == threatRadius(b)
        wa == Min({da, ra}) * Min({da, ra}) * rb
        wb == Min({db, rb}) * Min({db, rb}) * ra
    IN  IF Distance(wa, wb) > 3 * NM * ra * rb THEN wa < wb
        ELSE IF Distance(da, db) > 3 * NM THEN da < db
        ELSE Altitude(a) > Altitude(b)

HigherThreat(a, b, center) ==
    \/ Rank(a, center) < Rank(b, center)
    \/ Rank(a, center) = Rank(b, center) /\ HigherThreatInRank(a, b, center)

HigherThreats(groups, center) ==
    {p \in groups \X groups : HigherThreat(p[1], p[2], center)}

\* Groups are looked for around the bullseye while there is no center.
PictureOrigin(center, bullseye) == IF center = Zero THEN bullseye ELSE center

\* Mutant: the groups stay in the order of their distance.
PictureByDistance(center, bullseye, radius, coalition, filter, order) ==
    LET groups == findNearbyGroups(PictureOrigin(center, bullseye), 0, highestAltitude,
                                   radius, coalition, filter, {}, order)
    IN  [count |-> Len(groups),
         groups |-> SubSeq(groups, 1, Min({3, Len(groups)}))]

\* They are compared from the center in any case.
Picture(center, bullseye, radius, coalition, filter, order) ==
    LET groups == findNearbyGroups(PictureOrigin(center, bullseye), 0, highestAltitude,
                                   radius, coalition, filter, {}, order)
        sorted == SortFunc(groups, HigherThreats(Range(groups), center))
    IN  [count |-> Len(groups),
         groups |-> SubSeq(sorted, 1, Min({3, Len(sorted)}))]

-----------------------------------------------------------------------------
(* THREAT *)

\* Friendlies on frequency in friendly groups the hostile group endangers.
Receivers(grp, onFrequency, order) ==
    LET friendly == Opposite(track[grp[1]].coalition)
        groups == findNearbyGroups(point(grp), 0, highestAltitude,
                                   Max({100 * NM, MandatoryThreatRadius}),
                                   friendly, "Aircraft", {}, order)
        endangered(fg) ==
            /\ isGroupWithinThreatRadius(grp, Distance(point(grp), point(fg)))
            /\ ~(category(grp) = "RotaryWing" /\ category(fg) = "FixedWing")
        ObjectIDs(fg) == SortFunc(fg, {p \in contacts \X contacts : p[1] < p[2]})
    IN  Loop([receivers \in Seq(contacts) |-> [fg \in Seq(contacts) |->
                IF endangered(fg)
                THEN Loop([ids \in Seq(contacts) |-> [id \in contacts |->
                             IF id \in onFrequency THEN Append(ids, id) ELSE ids]],
                          receivers, ObjectIDs(fg))
                ELSE receivers]],
             <<>>, groups)

\* How far apart the receivers are, as seen from the group.
RangesAgree(grp, receivers) ==
    \A a, b \in Range(receivers) :
       Distance(Point(a), point(grp)) - Distance(Point(b), point(grp))
          <= MaxSharedBRAARangeSpread

\* Two bearings on the line are the same or opposite.
AngularDistance(a, b) == IF a = b THEN 0 ELSE 180

BearingsAgree(grp, receivers) ==
    \A a, b \in Range(receivers) :
       AngularDistance(Bearing(Point(a), point(grp)), Bearing(Point(b), point(grp)))
          <= MaxSharedBRAABearingSpread

\* The BRAA of a THREAT call is given from its only receiver, or from the
\* midpoint of receivers that see the group in about the same place.
BRAAOrigin(grp, receivers) ==
    IF \/ Len(receivers) = 1
       \/ BearingsAgree(grp, receivers) /\ RangesAgree(grp, receivers)
    THEN point(receivers) ELSE Nil

Threats(coalition, onFrequency, order) ==
    LET groups == enumerateGroups(coalition, order)
    IN  {[group |-> g, receivers |-> Receivers(g, onFrequency, order)] :
           g \in {h \in Range(groups) : Receivers(h, onFrequency, order) # <<>>}}

-----------------------------------------------------------------------------
\* Nobody could be in a group with id.
Lone(id) == \A other \in contacts \ {id} : Distance(Point(other), Point(id)) >= 5 * NM
=============================================================================
