----------------------------- MODULE MCRequests -----------------------------
(***************************************************************************)
(* Exchanges of a pilot with the controller, in small worlds.              *)
(***************************************************************************)
EXTENDS Requests

Callsign(name, digits) == [name |-> <<name>>, digits |-> digits]
Eagle(n) == Callsign("eagle", <<1, n>>)

Aircraft(cat, tags, radius, gives, takes) ==
    [category |-> cat, tags |-> tags, threatRadius |-> radius,
     gives |-> gives, takes |-> takes]

\* A "mystery" is a type that the encyclopedia does not have.
MCEncyclopedia ==
    [fighter |-> Variant(Aircraft("FixedWing", {"Fighter"}, 35 * NM, "none", "boom")),
     bomber  |-> Aircraft("FixedWing", {"Attack"}, 0, "none", "none"),
     tanker  |-> Aircraft("FixedWing", {"Unarmed"}, 0, "probe", "none"),
     helo    |-> Aircraft("RotaryWing", {"Attack"}, 0, "none", "none")]

MCWakePhrase == {<<"goliath">>, <<"any", "face">>}
MCLocation == {<<"home">>, <<"home", "plate">>, <<"range">>, <<"tanker">>}
MCLocations == <<[names |-> <<<<"home", "plate">>>>, point |-> 80 * NM],
                 [names |-> <<<<"home">>, <<"home", "plate">>>>, point |-> 90 * NM]>>

Track(coalition, name, type, p, altitude) ==
    [coalition |-> coalition, name |-> name, type |-> type, point |-> p,
     altitude |-> altitude, airborne |-> TRUE, course |-> -1]

Here == 20 * NM
Me == Track("Blue", Eagle(1), "fighter", Here, 20000)
Foe(type, p, altitude) == Track("Red", Callsign("red", <<>>), type, p, altitude)
Friend(name, p) == Track("Blue", name, "bomber", p, 15000)

\* The speaker is contact 1.
Exchange(others, said, asked) ==
    LET tracks == <<Me>> \o others
    IN  [contacts |-> DOMAIN tracks, track |-> tracks, said |-> said,
         meant |-> asked, stage |-> "heard", merged |-> {}]

Simply(kind, args) ==
    {<<W("goliath"), W("eagle"), Num(<<1, 1>>), W(kind)>> \o args}
North(range) == <<Num(<<3, 6, 0>>), Num(range)>>

-----------------------------------------------------------------------------
(* What may be said *)

Wordings ==
    LET pos == PositionWords(<<1, 8, 0>>, <<2, 0>>)
        meansBR == [bearing |-> 180, range |-> 20]
        angels == {<<W("altitude"), Num(<<1, 5>>)>>, <<Num(<<1, 5, 0, 0, 0>>)>>}
        wants(kind, fields) == [kind |-> kind, callsign |-> Eagle(1)] @@ fields
        declares(alt, trk, braa, amb) ==
            wants("declare", meansBR @@ [altitude |-> alt, track |-> trk, sour |-> FALSE,
                                         isBRAA |-> braa, isAmbiguous |-> amb])
        says(kind, args, asked) == Exchange(<<>>, Said(kind, Eagle(1), args), asked)
        nothing == {<<>>}
    IN  {says(kind, nothing, Request(kind, Eagle(1))) :
           kind \in {"radio", "alpha", "picture", "tripwire", "shopping"}}
        \cup
        {says("declare", nothing, wants("declare", [sour |-> TRUE])),
         says("declare", pos, declares(0, "unknown", FALSE, TRUE)),
         says("declare", Concat({<<W("bullseye")>>}, pos),
              declares(0, "unknown", FALSE, FALSE)),
         says("declare", Concat({<<W("bra")>>}, Concat(pos, angels)),
              declares(15000, "unknown", TRUE, FALSE)),
         says("declare", Concat(pos, Concat(angels, {<<W("track"), W("west")>>,
                                                     <<W("west")>>})),
              declares(15000, "west", FALSE, TRUE)),
         says("snaplock", Concat(pos, angels),
              wants("snaplock", meansBR @@ [altitude |-> 15000])),
         says("spiked", Written(<<1, 8, 0>>), wants("spiked", [bearing |-> 180])),
         says("strobe", Written(<<3, 6, 0>>), wants("strobe", [bearing |-> 360])),
         says("bogey", {<<>>, <<W("dope")>>}, wants("bogey", [filter |-> "Aircraft"])),
         says("bogey", {<<W("dope"), W("helo")>>}, wants("bogey", [filter |-> "RotaryWing"])),
         says("vector", {<<W("to"), W("home"), W("plate")>>},
              wants("vector", [location |-> <<"home", "plate">>])),
         says("vector", {<<W("to"), W("range")>>}, wants("vector", [location |-> <<"range">>])),
         says("vector", {<<W("tanker")>>}, wants("vector", [location |-> <<"tanker">>]))}

\* Transmissions that are garbled, incomplete or for somebody else.
Garbled ==
    LET eagle == <<W("goliath"), W("eagle")>>
    IN  {eagle, <<W("eagle"), W("radio")>>, <<W("goliath"), W("picture")>>,
         <<W("goliath"), W("declare")>>,
         eagle \o <<Num(<<1, 1>>), W("check"), W("in")>>,
         eagle \o <<Num(<<1, 1>>), W("declare"), Num(<<3, 6>>), W("helo")>>,
         eagle \o <<Num(<<1, 1>>), W("declare"), W("helo")>>,
         eagle \o <<Num(<<1, 1>>), W("spiked"), Num(<<3>>)>>,
         eagle \o <<Num(<<1, 1>>), W("vector"), W("north")>>,
         eagle \o <<Num(<<1, 1>>), W("bogey"), W("fighter"), W("or"), W("helo")>>,
         eagle \o <<W("for"), W("to"), W("request"), W("picture")>>,
         eagle \o <<W("tutu"), W("alpha")>>,
         eagle \o <<Num(<<1, 2, 3, 4>>), W("radio")>>}

-----------------------------------------------------------------------------
(* Where everybody may be *)

Parked == [Foe("fighter", 24 * NM, 0) EXCEPT !.airborne = FALSE]

Around(points, altitudes) ==
    {Foe(type, p, a) : type \in {"fighter", "helo", "mystery"},
                       p \in points, a \in altitudes}

\* Nobody is listed twice: contacts come in any order in any case.
Several(tracks, n) ==
    {SetToSeq(s) : s \in UNION {kSubset(k, tracks) : k \in 0..n}}

Lonely == {Exchange(<<>>, Garbled, Nil), 
           [Exchange(<<>>, UNION {Simply(k, <<>>) : k \in {"alpha", "bogey"}}, Nil)
              EXCEPT !.track[1].point = Zero]}

Seeking ==
    {Exchange(foes, Simply("bogey", args), Nil) :
       foes \in Several(Around({10 * NM, 26 * NM, 60 * NM}, {10000}) \cup {Parked}, 3),
       args \in {<<>>, <<W("helo")>>}}

Warned ==
    {Exchange(foes, Simply(kind, <<Num(<<3, 6, 0>>)>>), Nil) :
       foes \in Several(Around({10 * NM, 22 * NM, 40 * NM, 60 * NM}, {10000}), 2)
                  \cup {<<Parked>>},
       kind \in {"spiked", "strobe"}}

Refueling ==
    {[Exchange(friends, Simply("vector", <<W("tanker")>>), Nil)
        EXCEPT !.track[1].type = type] :
       friends \in Several({[Friend(Callsign("texaco", <<>>), p) EXCEPT !.type = "tanker"] :
                              p \in {10 * NM, 26 * NM, 60 * NM}}, 2),
       type \in {"fighter", "bomber", "mystery"}}

Overflown ==
    {Foe(t, p, 10000) : t \in {"fighter", "bomber", "mystery"},
                        p \in {-13 * NM, -7 * NM, 26 * NM, 34 * NM}}

Overview ==
    {Exchange(foes, Simply("picture", <<>>), Nil) :
       foes \in {f \in [1..4 -> Overflown] :
                   \A i \in 1..3 : f[i].point < f[i + 1].point}}

\* Up to three friends or foes about the point 20 NM to the north.
Disputed ==
    {Exchange(others, said, Nil) :
       others \in Several({Foe("fighter", p, a) : p \in {34 * NM, 44 * NM},
                                                 a \in {10000, 30000}}
                            \cup {Foe("helo", 34 * NM, 30000), Foe("helo", 44 * NM, 10000)}
                            \cup {Friend(Eagle(2), p) : p \in {36 * NM, 60 * NM}}, 3),
       said \in {Simply("declare", <<W("bra")>> \o North(<<2, 0>>)),
                 Simply("declare", North(<<4, 0>>) \o <<Num(<<1, 0>>)>>),
                 Simply("snaplock", North(<<2, 0>>) \o <<Num(<<1, 2>>)>>)}}

\* A hostile and friends, some of whom listen.
Threatened ==
    {[Exchange(<<Foe(type, Here + 16 * NM, 20000)>> \o friends, {<<>>}, Nil)
        EXCEPT !.stage = "threat"] :
       type \in {"fighter", "bomber", "helo", "tanker"},
       friends \in Several({Friend(n, 19 * NM) : n \in {Eagle(2), Eagle(3),
                                                       Callsign("eagle", <<2, 1>>),
                                                       Callsign("hawk", <<1, 1>>),
                                                       Callsign("solo", <<>>)}}
                             \cup {Friend(n, 52 * NM) : n \in {Eagle(2), Eagle(3),
                                                              Callsign("solo", <<>>)}}, 3)}

\* Two hostiles in a group, and friends, of whom those nearby may be merged with
\* either.
Merging ==
    LET hostiles(friends) == {2, Len(friends) + 3}
        near(friends) == {i + 2 : i \in {k \in DOMAIN friends : friends[k].point = 35 * NM}}
        threat(friends) ==
          Exchange(<<Foe("fighter", 36 * NM, 20000)>> \o friends
                     \o <<Foe("fighter", 39 * NM, 20000)>>, {<<>>}, Nil)
    IN  UNION {{[threat(friends) EXCEPT !.stage = "threat", !.merged = pairs] :
                  pairs \in SUBSET (hostiles(friends) \X near(friends))} :
                 friends \in Several({Friend(Eagle(n), p) : n \in {2, 3},
                                                          p \in {19 * NM, 35 * NM}}, 2)}

MCScenario == Wordings \cup Lonely \cup Seeking \cup Warned \cup Refueling
                \cup Overview \cup Disputed \cup Threatened
                \cup Merging
MCPlace == {30 * NM, 200 * NM}
MCCenter == 10 * NM
MCBullseye == [Blue |-> 0, Red |-> 2010 * NM]
MCOnFrequency == {1, 3, 4}
MCThreatRadius == 18 * NM
MCSpread == NM
=============================================================================
