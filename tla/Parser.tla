------------------------------- MODULE Parser -------------------------------
(***************************************************************************)
(* The parser: the words of a transmission, as the recognizer wrote them   *)
(* down and Normalize cleaned them up, become a request.                   *)
(*                                                                         *)
(* A word is its text, or its digits when it is a number: the recognizer   *)
(* writes "one eight zero forty" as 1 8 0 40, 180 40 or 18040.  Words that *)
(* sound alike (isSimilar) are one word here.                              *)
(***************************************************************************)
EXTENDS Integers, Sequences, SequencesExt, Loops

CONSTANTS
    WakePhrase,     \* what the controller answers to, as sequences of text
    Location        \* the names of the configured locations, likewise

W(text) == [text |-> text, digits |-> <<>>]
Num(digits) == [text |-> "", digits |-> digits]
Digit == 0 .. 9
Words == [text : STRING, digits : {<<>>}] \cup [text : {""}, digits : Seq(Digit)]
Text(words) == [i \in DOMAIN words |-> words[i].text]
IsNum(word) == word.digits # <<>>

\* The digits of words, however they are grouped.
Digits(words) ==
    Loop([digits \in Seq(Digit) |-> [word \in Words |-> digits \o word.digits]],
         <<>>, words)

\* The number that digits, read one after the other, make.
Value(digits) == FoldLeft(LAMBDA v, d : 10 * v + d, 0, digits)

requestWords == {"radio", "alpha", "bogey", "declare", "picture", "spiked",
                 "strobe", "snaplock", "tripwire", "shopping", "vector"}
bullseyeWords == {"bullseye"}
braaWords == {"bra"}
digitHomophones == [for |-> <<4>>, to |-> <<2>>, tutu |-> <<2, 2>>]
bogeyFilterMap == [fighter |-> "FixedWing", planes |-> "FixedWing",
                   helo |-> "RotaryWing", chopper |-> "RotaryWing"]
Tracks == {"north", "east", "south", "west"}

-----------------------------------------------------------------------------
(* Numbers.  A token stream is the sequence of the words that are left, the *)
(* first of which may have been consumed in part.  What is read from it is  *)
(* a set: of the value and of what is left, or empty if it is not there.    *)

\* Mutant: what is left of a token is lost with the bearing.
ConsumeAll(acc, word) ==
    IF acc.n = 3
    THEN [acc EXCEPT !.left = Append(@, word)]
    ELSE LET take == IF Len(word.digits) < 3 - acc.n
                     THEN Len(word.digits) ELSE 3 - acc.n
         IN  [n |-> acc.n + take,
              digits |-> acc.digits \o SubSeq(word.digits, 1, take),
              left |-> <<>>]

\* A bearing takes three digits from as many words as it needs and leaves the
\* rest of the last one in the stream.  Words without digits are skipped.
Consume(acc, word) ==
    IF acc.n = 3
    THEN [acc EXCEPT !.left = Append(@, word)]
    ELSE LET len == Len(word.digits)
             take == IF len < 3 - acc.n THEN len ELSE 3 - acc.n
         IN  [n |-> acc.n + take,
              digits |-> acc.digits \o SubSeq(word.digits, 1, take),
              left |-> IF take < len
                       THEN <<Num(SubSeq(word.digits, take + 1, len))>>
                       ELSE <<>>]

Reading == [n : 0 .. 3, digits : Seq(Digit), left : Seq(Words)]

parseBearing(stream) ==
    LET read == Loop([acc \in Reading |-> [word \in Words |-> Consume(acc, word)]],
                     [n |-> 0, digits |-> <<>>, left |-> <<>>], stream)
    IN  {[val |-> Value(r.digits), left |-> r.left] : r \in {acc \in {read} : acc.n = 3}}

Skip(stream, words) ==
    IF stream # <<>> /\ Head(stream).text \in words THEN Tail(stream) ELSE stream

parseNaturalNumber(stream) ==
    IF stream # <<>> /\ IsNum(Head(stream))
    THEN {[val |-> Value(Head(stream).digits), left |-> Tail(stream)]} ELSE {}

parseRange(stream) == parseNaturalNumber(Skip(stream, {"for"}))

\* Below 100 it is "angels", thousands of feet.  No altitude is altitude 0.
parseAltitude(stream) ==
    LET from == Skip(stream, {"at", "altitude", "angels"})
        said == parseNaturalNumber(from)
    IN  IF said = {} THEN {[val |-> 0, left |-> from]}
        ELSE {[r EXCEPT !.val = IF @ < 100 THEN @ * 1000 ELSE @] : r \in said}

parseTrack(stream) ==
    LET i == SelectInSeq(stream, LAMBDA w : w.text # "track")
    IN  IF i > 0 /\ stream[i].text \in Tracks THEN stream[i].text ELSE "unknown"

\* A bearing and a range, after an optional keyword.
BearingAndRange(stream, keywords) ==
    UNION {{[bearing |-> b.val, range |-> r.val, left |-> r.left] : r \in parseRange(b.left)} :
             b \in parseBearing(Skip(stream, keywords))}

parseBullseye(stream) == BearingAndRange(stream, bullseyeWords)

parseBRA(stream) ==
    UNION {{[bearing |-> br.bearing, range |-> br.range, altitude |-> alt.val] :
              alt \in parseAltitude(br.left)} :
             br \in BearingAndRange(stream, braaWords)}

-----------------------------------------------------------------------------
(* Requests with arguments.  Each gives the set of the requests it may make *)
(* of its stream, which is empty when there is none.                        *)

Request(kind, callsign) == [kind |-> kind, callsign |-> callsign]

Declare(callsign, positions, isBRAA, isAmbiguous) ==
    UNION {{[kind |-> "declare", callsign |-> callsign, sour |-> FALSE,
             bearing |-> br.bearing, range |-> br.range, altitude |-> alt.val,
             track |-> parseTrack(alt.left),
             isBRAA |-> isBRAA, isAmbiguous |-> isAmbiguous] :
              alt \in parseAltitude(br.left)} : br \in positions}

\* The first keyword or number says how the position is given.
parseDeclare(callsign, stream) ==
    LET tells(w) == IsNum(w) \/ w.text \in bullseyeWords \cup braaWords
        i == SelectInSeq(stream, tells)
        from == SubSeq(stream, i, Len(stream))
    IN  CASE stream = <<>> -> {[kind |-> "declare", callsign |-> callsign,
                                sour |-> TRUE]}
          [] stream # <<>> /\ i = 0 -> {}
          [] OTHER ->
               IF Head(from).text \in braaWords
               THEN Declare(callsign, BearingAndRange(Tail(from), {}), TRUE, FALSE)
               ELSE IF Head(from).text \in bullseyeWords
               THEN Declare(callsign, parseBullseye(Tail(from)), FALSE, FALSE)
               ELSE Declare(callsign, parseBullseye(from), FALSE, TRUE)

\* The filter is looked up in the order of a Go map.
parseBogeyDope(callsign, stream) ==
    LET said == Range(Text(stream)) \cap DOMAIN bogeyFilterMap
        filters == IF said = {} THEN {"Aircraft"}
                   ELSE {bogeyFilterMap[t] : t \in said}
    IN  {[kind |-> "bogey", callsign |-> callsign, filter |-> f] : f \in filters}

parseBearingOnly(kind, callsign, stream) ==
    {[kind |-> kind, callsign |-> callsign, bearing |-> b.val] :
       b \in parseBearing(stream)}

parseSnaplock(callsign, stream) ==
    {[kind |-> "snaplock", callsign |-> callsign, bearing |-> bra.bearing,
      range |-> bra.range, altitude |-> bra.altitude] : bra \in parseBRA(stream)}

\* The longest location named, the earliest of those.
parseVector(callsign, stream) ==
    LET words == Text(stream)
        named == {ij \in (DOMAIN words) \X (DOMAIN words) :
                    SubSeq(words, ij[1], ij[2]) \in Location}
        span(ij) == ij[2] - ij[1]
        best == {ij \in named : \A other \in named :
                   \/ span(ij) > span(other)
                   \/ span(ij) = span(other) /\ ij[1] <= other[1]}
    IN  {[kind |-> "vector", callsign |-> callsign,
          location |-> SubSeq(words, ij[1], ij[2])] : ij \in best}

parseRequestWithArgs(kind, callsign, args) ==
    LET requests ==
          CASE kind = "bogey" -> parseBogeyDope(callsign, args)
            [] kind = "declare" -> parseDeclare(callsign, args)
            [] kind \in {"spiked", "strobe"} -> parseBearingOnly(kind, callsign, args)
            [] kind = "snaplock" -> parseSnaplock(callsign, args)
            [] kind = "vector" -> parseVector(callsign, args)
    IN  IF requests = {} THEN {Request("unable", callsign)} ELSE requests

-----------------------------------------------------------------------------
maxCallsignDigits == 3
NoCallsign == [name |-> <<>>, digits |-> <<>>]

\* From the first digit, or word that sounds like one, on.
replaceDigitHomophones(words) ==
    LET sounds(w) == w.text \in DOMAIN digitHomophones
        first == SelectInSeq(words, LAMBDA w : IsNum(w) \/ sounds(w))
    IN  [i \in DOMAIN words |->
           IF first > 0 /\ i >= first /\ sounds(words[i])
           THEN Num(digitHomophones[words[i].text]) ELSE words[i]]

\* Without the phrase "this is"; either word alone is part of a name.
dropThisIs(words) ==
    LET said(i, text) == i \in DOMAIN words /\ words[i].text = text
        kept == {i \in DOMAIN words : /\ ~(said(i, "this") /\ said(i + 1, "is"))
                                     /\ ~(said(i, "is") /\ said(i - 1, "this"))}
    IN  [k \in 1..Cardinality(kept) |-> words[SetToSortSeq(kept, <)[k]]]

\* The words up to the first digit, and up to three digits.
ParsePilotCallsign(rest) ==
    LET cut == SelectInSeq(rest, LAMBDA w : w.text = "request")
        kept == IF cut = 0 THEN rest ELSE SubSeq(rest, 1, cut - 1)
        words == replaceDigitHomophones(dropThisIs(kept))
        first == SelectInSeq(words, IsNum)
        name == IF first = 0 THEN words ELSE SubSeq(words, 1, first - 1)
        digits == Digits(words)
        n == IF Len(digits) < maxCallsignDigits THEN Len(digits)
             ELSE maxCallsignDigits
    IN  [name |-> Text(name), digits |-> SubSeq(digits, 1, n)]

findRequestWord(words) == SelectInSeq(words, LAMBDA w : w.text \in requestWords)

\* How many words of the text the controller's callsign takes; 0 if the text
\* does not begin with it.
findControllerCallsign(words) ==
    LET wakes == {i \in DOMAIN words : SubSeq(Text(words), 1, i) \in WakePhrase}
    IN  IF wakes = {} THEN 0 ELSE CHOOSE i \in wakes : \A j \in wakes : i <= j

HasCheckIn(words) ==
    \E i \in 1..(Len(words) - 1) :
       words[i].text = "check" /\ words[i + 1].text = "in"

handleNoRequestWord(words, callsign) ==
    {Request(IF HasCheckIn(words) THEN "checkin" ELSE "unable", callsign)}

\* What may be made of a text; nothing if it is not meant for the controller.
Parse(words) ==
    LET idx == findRequestWord(words)
        kind == words[idx].text
        before == IF idx = 0 THEN words ELSE SubSeq(words, 1, idx - 1)
        wake == findControllerCallsign(before)
        callsign == ParsePilotCallsign(SubSeq(before, wake + 1, Len(before)))
        unknown == callsign = NoCallsign
    IN  CASE wake = 0 -> {}
          [] wake > 0 /\ unknown ->
               {Request(IF idx > 0 /\ kind = "picture" THEN "picture" ELSE "unable",
                        NoCallsign)}
          [] wake > 0 /\ ~unknown /\ idx = 0 -> handleNoRequestWord(words, callsign)
          [] OTHER ->
               IF kind \in {"alpha", "radio", "picture", "tripwire", "shopping"}
               THEN {Request(kind, callsign)}
               ELSE parseRequestWithArgs(kind, callsign,
                                         SubSeq(words, idx + 1, Len(words)))

-----------------------------------------------------------------------------
(* The reference: how a pilot may say a request, and the recognizer write   *)
(* it down.                                                                 *)

\* Digits said one by one are written as numbers of any length.
Written(digits) ==
    LET n == Len(digits)
        cuts == SUBSET (1..(n - 1))
        ends(c) == c \cup {n}
        from(c, e) == 1 + (CHOOSE s \in c \cup {0} :
                             s < e /\ \A t \in c \cup {0} : t < e => t <= s)
        group(c, e) == Num(SubSeq(digits, from(c, e), e))
    IN  {LET es == SetToSortSeq(ends(c), LAMBDA a, b : a < b)
         IN  [i \in DOMAIN es |-> group(c, es[i])] : c \in cuts}

Concat(As, Bs) == {a \o b : a \in As, b \in Bs}

\* A bearing and a range, with "for" between them, run together or neither.
PositionWords(bearing, range) ==
    LET loose == Concat(Written(bearing), {<<Num(range)>>, <<W("for"), Num(range)>>})
        glued == {[w EXCEPT ![Len(w)].digits = @ \o range] : w \in Written(bearing)}
    IN  loose \cup glued

CallsignWords(callsign) ==
    LET name == [i \in DOMAIN callsign.name |-> W(callsign.name[i])]
    IN  Concat({<<>>, <<W("this"), W("is")>>},
               Concat({name}, Written(callsign.digits)))

\* The transmissions that ask kind for callsign with one of args.
Said(kind, callsign, args) ==
    LET wakes == {[i \in DOMAIN w |-> W(w[i])] : w \in WakePhrase}
    IN  Concat(Concat(wakes, CallsignWords(callsign)), Concat({<<W(kind)>>}, args))
=============================================================================
