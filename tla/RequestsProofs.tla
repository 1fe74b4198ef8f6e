--------------------------- MODULE RequestsProofs ---------------------------
(***************************************************************************)
(* Theorems about exchanges, whatever the contacts are, however often they *)
(* change while a request is handled, and in whatever order the radar      *)
(* looks at them.                                                          *)
(*                                                                         *)
(* What a handler makes of one look at the radar is a fact about the       *)
(* queries (ScopeProofs).  What remains true of it until the next look is  *)
(* the invariant: the changes leave alone what has not been stirred.       *)
(***************************************************************************)
EXTENDS Requests, ScopeProofs

----------------------------------------------------------------------------
(* What is read *)

\* A word has digits, or the empty sequence of them.
LEMMA WordsHaveDigits ==
    ASSUME NEW word \in Words
    PROVE  word.digits \in Seq(Digit)
<1>1. <<>> \in Seq(Digit)
  OBVIOUS
<1>2. word \in [text : STRING, digits : {<<>>}] \/ word \in [text : {""}, digits : Seq(Digit)]
  BY DEF Words
<1> QED
  BY <1>1, <1>2

\* Another word adds its digits to those of the words before it.
LEMMA DigitsOfMore ==
    /\ Digits(<<>>) = <<>>
    /\ \A words \in Seq(Words) : Digits(words) \in Seq(Digit)
    /\ \A words \in Seq(Words), word \in Words :
         Digits(Append(words, word)) = Digits(words) \o word.digits
<1> DEFINE A == Seq(Digit)
           step == [digits \in A |-> [word \in Words |-> digits \o word.digits]]
<1>1. \A word \in Words : word.digits \in A
  BY WordsHaveDigits
<1>2. \A a \in A : \A e \in Words : step[a][e] = a \o e.digits /\ step[a][e] \in A
  <2> SUFFICES ASSUME NEW a \in A, NEW e \in Words
               PROVE  a \o e.digits \in A
    OBVIOUS
  <2> QED
    BY <1>1, ConcatProperties
<1>3. <<>> \in A
  OBVIOUS
<1>4. \A words : Digits(words) = Loop(step, <<>>, words)
  BY DEF Digits
<1> HIDE DEF A, step
<1>5. /\ StaysWithin(step, A, Words)
      /\ \A a \in A : \A e \in Words : step[a][e] \in A
  BY <1>2 DEF StaysWithin
<1>6. Digits(<<>>) = <<>>
  BY <1>3, <1>4, <1>5, LoopEmpty
<1>7. ASSUME NEW words \in Seq(Words)
      PROVE  Digits(words) \in A
  <2> DEFINE I == A
  <2>1. \A i \in 1 .. Len(words) : \A a \in A : a \in I => step[a][words[i]] \in I
    BY <1>2
  <2> HIDE DEF I
  <2>2. <<>> \in I
    BY <1>3 DEF I
  <2> QED
    BY <1>3, <1>4, <1>5, <2>1, <2>2, LoopKeeps
<1>8. ASSUME NEW words \in Seq(Words), NEW word \in Words
      PROVE  Digits(Append(words, word)) = Digits(words) \o word.digits
  <2>1. Loop(step, <<>>, Append(words, word)) = step[Loop(step, <<>>, words)][word]
    BY <1>3, <1>5, LoopAppend
  <2> QED
    BY <1>2, <1>4, <1>7, <2>1
<1> QED
  BY <1>6, <1>7, <1>8 DEF A

\* A bearing takes digits from the front, and no more than it needs.
ReadingOK(acc) ==
    /\ acc \in Reading
    /\ acc.n = Len(acc.digits)
    /\ acc.left # <<>> => acc.n = 3

LEMMA DigitsKept ==
    ASSUME NEW acc, ReadingOK(acc), NEW word \in Words
    PROVE  LET r == Consume(acc, word)
           IN  /\ ReadingOK(r)
               /\ r.digits \o Digits(r.left) = (acc.digits \o Digits(acc.left)) \o word.digits
<1> DEFINE ds == word.digits
           r == Consume(acc, word)
<1>1. /\ acc.n \in 0 .. 3 /\ acc.digits \in Seq(Digit) /\ acc.left \in Seq(Words)
      /\ acc = [n |-> acc.n, digits |-> acc.digits, left |-> acc.left]
      /\ ds \in Seq(Digit) /\ Len(ds) \in Nat
  <2>1. acc \in [n : 0 .. 3, digits : Seq(Digit), left : Seq(Words)]
    BY DEF ReadingOK, Reading
  <2>2. word.digits \in Seq(Digit)
    BY WordsHaveDigits
  <2> QED
    BY <2>1, <2>2
<1>2. Digits(acc.left) \in Seq(Digit) /\ Digits(<<>>) = <<>>
  BY <1>1, DigitsOfMore
<1> HIDE DEF ds
<1>3. CASE acc.n = 3
  <2>1. r = [n |-> 3, digits |-> acc.digits, left |-> Append(acc.left, word)]
    BY <1>1, <1>3 DEF Consume
  <2>2. Digits(r.left) = Digits(acc.left) \o ds
    BY <1>1, <2>1, DigitsOfMore DEF ds
  <2>3. acc.digits \o (Digits(acc.left) \o ds) = (acc.digits \o Digits(acc.left)) \o ds
    BY <1>1, <1>2, ConcatAssociative
  <2>4. Append(acc.left, word) \in Seq(Words)
    BY <1>1
  <2>5. /\ r.n = 3 /\ r.digits = acc.digits
        /\ r \in [n : 0 .. 3, digits : Seq(Digit), left : Seq(Words)]
    BY <1>1, <2>1, <2>4
  <2>6. Len(acc.digits) = 3
    BY <1>3 DEF ReadingOK
  <2> HIDE DEF r
  <2>7. ReadingOK(r)
    BY <2>5, <2>6 DEF ReadingOK, Reading
  <2>8. r.digits \o Digits(r.left) = (acc.digits \o Digits(acc.left)) \o ds
    BY <2>2, <2>3, <2>5
  <2> QED
    BY <2>7, <2>8 DEF ds, r
<1>4. CASE acc.n # 3
  <2> DEFINE len == Len(ds)
             take == IF len < 3 - acc.n THEN len ELSE 3 - acc.n
             front == SubSeq(ds, 1, take)
             back == SubSeq(ds, take + 1, len)
  <2>1. acc.left = <<>>
    BY <1>4 DEF ReadingOK
  <2>2. r = [n |-> acc.n + take, digits |-> acc.digits \o front,
             left |-> IF take < len THEN <<Num(back)>> ELSE <<>>]
    BY <1>4 DEF Consume, ds
  <2>3. len \in Nat /\ take \in 0 .. len /\ acc.n + take \in 0 .. 3
        /\ (take < len => acc.n + take = 3)
    BY <1>1, <1>4
  <2>4. front \o back = ds
    <3>1. SubSeq(ds, 1, take) \o SubSeq(ds, take + 1, len) = SubSeq(ds, 1, len)
      <4> HIDE DEF take
      <4> QED
        <5>1. /\ 1 \in 1 .. Len(ds) + 1 /\ take \in 1 - 1 .. Len(ds)
              /\ len \in take .. Len(ds) /\ ds \in Seq(Digit)
          BY <1>1, <2>3
        <5> QED
          BY <5>1, ConcatAdjacentSubSeq
    <3>2. SubSeq(ds, 1, len) = ds
      BY <1>1, SubSeqFull
    <3> QED
      BY <3>1, <3>2
  <2>5. front \in Seq(Digit) /\ Len(front) = take
    <3> HIDE DEF take
    <3>1. \A i \in 1 .. take : ds[i] \in Digit
      BY <1>1, <2>3
    <3> QED
      BY <2>3, <3>1, SubSeqProperties
  <2>6. back \in Seq(Digit) /\ (~(take < len) => back = <<>>)
    <3> HIDE DEF take
    <3>1. \A i \in take + 1 .. len : ds[i] \in Digit
      BY <1>1, <2>3
    <3>2. back \in Seq(Digit)
      BY <2>3, <3>1, SubSeqProperties
    <3>3. ~(take < len) => back = <<>>
      BY <2>3, SubSeqEmpty
    <3> QED
      BY <3>2, <3>3
  <2> HIDE DEF len, take, front, back
  <2>7. Num(back) \in Words
    BY <2>6 DEF Num, Words
  <2>8. r.left \in Seq(Words) /\ Digits(r.left) = back
    <3>1. CASE take < len
      <4>1. r.left = Append(<<>>, Num(back)) /\ <<>> \in Seq(Words)
        BY <2>2, <3>1
      <4>2. Digits(r.left) = Digits(<<>>) \o Num(back).digits
        BY <2>7, <4>1, DigitsOfMore
      <4>3. Num(back).digits = back
        BY DEF Num
      <4> QED
        BY <1>2, <2>6, <2>7, <4>1, <4>2, <4>3, ConcatEmptySeq
    <3>2. CASE ~(take < len)
      BY <1>2, <2>2, <2>6, <3>2
    <3> QED
      BY <3>1, <3>2
  <2>9. r.n = acc.n + take /\ r.digits = acc.digits \o front
        /\ (r.left # <<>> => r.n = 3)
    BY <2>2, <2>3
  <2>10. r.digits \in Seq(Digit) /\ Len(r.digits) = acc.n + take
    <3>1. Len(acc.digits) = acc.n
      BY DEF ReadingOK
    <3>2. acc.digits \o front \in Seq(Digit)
          /\ Len(acc.digits \o front) = Len(acc.digits) + Len(front)
      BY <1>1, <2>5, ConcatProperties
    <3> QED
      BY <2>5, <2>9, <3>1, <3>2
  <2>11. ReadingOK(r)
    <3>1. r \in Reading
      BY <2>2, <2>3, <2>8, <2>9, <2>10 DEF Reading
    <3> QED
      BY <2>9, <2>10, <3>1 DEF ReadingOK
  <2>12. (acc.digits \o front) \o back = acc.digits \o ds
    <3>1. (acc.digits \o front) \o back = acc.digits \o (front \o back)
      BY <1>1, <2>5, <2>6, ConcatAssociative
    <3> QED
      BY <2>4, <3>1
  <2>13. acc.digits \o Digits(acc.left) = acc.digits
    BY <1>1, <1>2, <2>1, ConcatEmptySeq
  <2> QED
    BY <2>8, <2>9, <2>11, <2>12, <2>13 DEF ds
<1> QED
  BY <1>3, <1>4

\* However the digits of a bearing and of what follows are grouped into numbers,
\* a bearing is read exactly if there are three digits, it is the first three,
\* and all the others are left for what comes next.
THEOREM BearingRead ==
    ASSUME NEW stream \in Seq(Words)
    PROVE  /\ parseBearing(stream) = {} <=> Len(Digits(stream)) < 3
           /\ \A b \in parseBearing(stream) :
                /\ b.left \in Seq(Words)
                /\ \E spoken \in Seq(Digit) :
                     /\ Len(spoken) = 3 /\ b.val = Value(spoken)
                     /\ spoken \o Digits(b.left) = Digits(stream)
<1> DEFINE A == {acc \in Reading : ReadingOK(acc)}
           D == Seq(Digit)
           whole == [acc \in Reading |-> [word \in Words |-> Consume(acc, word)]]
           start == [n |-> 0, digits |-> <<>>, left |-> <<>>]
           read == Loop(whole, start, stream)
           adds == [digits \in D |-> [word \in Words |-> digits \o word.digits]]
           R == [d \in D |-> {acc \in A : acc.digits \o Digits(acc.left) = d}]
<1>1. \A a \in A, e \in Words : whole[a][e] = Consume(a, e) /\ Consume(a, e) \in A
  BY DigitsKept DEF ReadingOK
<1>2. start \in A /\ start.digits = <<>> /\ start.left = <<>>
  <2>1. /\ start \in [n : 0 .. 3, digits : Seq(Digit), left : Seq(Words)]
        /\ start.n = 0 /\ start.digits = <<>> /\ start.left = <<>> /\ Len(<<>>) = 0
    OBVIOUS
  <2> HIDE DEF start
  <2> QED
    BY <2>1 DEF ReadingOK, Reading
<1>3. \A d \in D, e \in Words : adds[d][e] = d \o e.digits /\ d \o e.digits \in D
  <2> SUFFICES ASSUME NEW d \in D, NEW e \in Words
               PROVE  d \o e.digits \in D
    OBVIOUS
  <2>1. e.digits \in Seq(Digit)
    BY WordsHaveDigits
  <2> QED
    BY <2>1, ConcatProperties
<1>4. <<>> \in D
  OBVIOUS
<1>5. Digits(stream) = Loop(adds, <<>>, stream)
  BY DEF Digits
<1>6. start \in R[<<>>]
  <2>1. Digits(<<>>) = <<>> /\ <<>> \o <<>> = <<>>
    BY <1>4, DigitsOfMore, ConcatEmptySeq
  <2> HIDE DEF A, D, start
  <2> QED
    BY <1>2, <1>4, <2>1
<1>7. ASSUME NEW a \in A, NEW d \in D, NEW e \in Words, a \in R[d]
      PROVE  whole[a][e] \in R[adds[d][e]]
  <2>1. ReadingOK(a)
    OBVIOUS
  <2> HIDE DEF A, D, whole, adds
  <2>2. a.digits \o Digits(a.left) = d
    BY <1>7
  <2>3. LET r == Consume(a, e)
        IN  r.digits \o Digits(r.left) = d \o e.digits
    BY <2>1, <2>2, DigitsKept
  <2> QED
    BY <1>1, <1>3, <2>3
<1>8. StaysWithin(whole, A, Words) /\ StaysWithin(adds, D, Words)
  BY <1>1, <1>3 DEF StaysWithin
<1> HIDE DEF A, D, R, whole, start, adds
<1>9. read \in A /\ read \in R[Digits(stream)] /\ Digits(stream) \in D
  <2> DEFINE none == <<>>
  <2>1. none \in D /\ start \in R[none]
    BY <1>4, <1>6
  <2>2. \A e \in Words : \A a \in A : \A d \in D :
           a \in R[d] => whole[a][e] \in R[adds[d][e]]
    BY <1>7
  <2> HIDE DEF none
  <2>3. /\ Loop(whole, start, stream) \in A /\ Loop(adds, none, stream) \in D
        /\ Loop(whole, start, stream) \in R[Loop(adds, none, stream)]
    BY <1>2, <1>8, <2>1, <2>2, LoopsTogether
  <2> QED
    BY <1>5, <2>3 DEF none
<1> HIDE DEF read
<1>10. /\ ReadingOK(read) /\ read.digits \o Digits(read.left) = Digits(stream)
       /\ read.digits \in Seq(Digit) /\ read.left \in Seq(Words)
  <2>1. ReadingOK(read)
    BY <1>9 DEF A
  <2>2. read.digits \o Digits(read.left) = Digits(stream)
    BY <1>9 DEF R
  <2> QED
    BY <2>1, <2>2 DEF ReadingOK, Reading
<1>11. parseBearing(stream) =
         {[val |-> Value(r.digits), left |-> r.left] : r \in {acc \in {read} : acc.n = 3}}
  BY DEF parseBearing, read, whole, start
<1>12. /\ Len(read.digits) = read.n /\ read.n \in 0 .. 3
       /\ Digits(read.left) \in Seq(Digit)
       /\ Len(Digits(stream)) = read.n + Len(Digits(read.left))
       /\ Len(Digits(read.left)) \in Nat
       /\ read.n # 3 => Len(Digits(read.left)) = 0
  <2>1. Digits(read.left) \in Seq(Digit) /\ Digits(<<>>) = <<>>
    BY <1>10, DigitsOfMore
  <2>2. Len(read.digits \o Digits(read.left)) = Len(read.digits) + Len(Digits(read.left))
    BY <1>10, <2>1, ConcatProperties
  <2>3. Len(read.digits) = read.n /\ read.n \in 0 .. 3
        /\ (read.n # 3 => read.left = <<>>)
    BY <1>10 DEF ReadingOK, Reading
  <2>4. Len(Digits(read.left)) \in Nat
    BY <2>1
  <2>5. read.n # 3 => Len(Digits(read.left)) = 0
    BY <2>1, <2>3
  <2> QED
    BY <1>10, <2>1, <2>2, <2>3, <2>4, <2>5
<1>13. parseBearing(stream) = {} <=> Len(Digits(stream)) < 3
  <2>1. parseBearing(stream) = {} <=> read.n # 3
    BY <1>11
  <2> QED
    BY <1>12, <2>1
<1>14. ASSUME NEW b \in parseBearing(stream)
       PROVE  b = [val |-> Value(read.digits), left |-> read.left] /\ read.n = 3
  BY <1>11, <1>14
<1>15. ASSUME NEW b \in parseBearing(stream)
       PROVE  /\ b.left \in Seq(Words)
              /\ \E spoken \in Seq(Digit) :
                   /\ Len(spoken) = 3 /\ b.val = Value(spoken)
                   /\ spoken \o Digits(b.left) = Digits(stream)
  <2>1. b.val = Value(read.digits) /\ b.left = read.left /\ read.n = 3
    BY <1>14
  <2> QED
    BY <1>10, <1>12, <2>1
<1> QED
  BY <1>13, <1>15

----------------------------------------------------------------------------
(* Who is called *)

\* A callsign is a name and digits, and nothing else.
CallsignsOK(callsigns) ==
    \A c \in callsigns : c = [name |-> c.name, digits |-> c.digits]

\* An entry of a call makes sense: a flight is called as one only if all of it
\* is meant, and numbers alone follow a callsign with the same name.
EntryOK(to, i, receivers, everyone) ==
    /\ to[i].how = "flight" => FlightOf(to[i].callsign, everyone) \subseteq receivers
    /\ to[i].how = "numbers" => i > 1 /\ to[i - 1].callsign.name = to[i].callsign.name

CallOK(to, receivers, everyone) ==
    /\ to \in Seq(Addresses(receivers))
    /\ \A i \in 1 .. Len(to) : EntryOK(to, i, receivers, everyone)

\* The call has an entry for c.
EntryFor(c, entry, everyone) ==
    IF entry.how = "flight" THEN c \in FlightOf(entry.callsign, everyone)
    ELSE c = entry.callsign

Called(c, to, everyone) == \E i \in 1 .. Len(to) : EntryFor(c, to[i], everyone)

LEMMA CallsJoined ==
    ASSUME NEW receivers, NEW everyone,
           NEW a, CallOK(a, receivers, everyone), NEW b, CallOK(b, receivers, everyone)
    PROVE  /\ CallOK(a \o b, receivers, everyone)
           /\ \A c : Called(c, a, everyone) \/ Called(c, b, everyone)
                       => Called(c, a \o b, everyone)
<1> DEFINE A == Addresses(receivers)
           r == a \o b
<1>1. a \in Seq(A) /\ b \in Seq(A) /\ Len(a) \in Nat /\ Len(b) \in Nat
  BY DEF CallOK
<1> HIDE DEF A
<1>2. /\ r \in Seq(A) /\ Len(r) = Len(a) + Len(b)
      /\ \A i \in 1 .. Len(a) + Len(b) : r[i] = IF i <= Len(a) THEN a[i] ELSE b[i - Len(a)]
  BY <1>1, ConcatProperties
<1> HIDE DEF r
<1>3. \A i \in 1 .. Len(a) : i \in 1 .. Len(r) /\ r[i] = a[i]
  BY <1>1, <1>2
<1>4. \A i \in 1 .. Len(b) : i + Len(a) \in 1 .. Len(r) /\ r[i + Len(a)] = b[i]
  <2> SUFFICES ASSUME NEW i \in 1 .. Len(b)
               PROVE  i + Len(a) \in 1 .. Len(r) /\ r[i + Len(a)] = b[i]
    OBVIOUS
  <2>1. /\ i + Len(a) \in 1 .. Len(a) + Len(b) /\ ~(i + Len(a) <= Len(a))
        /\ (i + Len(a)) - Len(a) = i
    BY <1>1
  <2> QED
    BY <1>2, <2>1
<1>5. ASSUME NEW i \in 1 .. Len(r)
      PROVE  EntryOK(r, i, receivers, everyone)
  <2>1. CASE i <= Len(a)
    <3>1. i \in 1 .. Len(a) /\ (i > 1 => i - 1 \in 1 .. Len(a))
      BY <1>1, <1>2, <2>1
    <3>2. EntryOK(a, i, receivers, everyone)
      BY <3>1 DEF CallOK
    <3> QED
      BY <1>3, <3>1, <3>2 DEF EntryOK
  <2>2. CASE i > Len(a)
    <3> DEFINE j == i - Len(a)
    <3>1. j \in 1 .. Len(b) /\ i = j + Len(a) /\ (j > 1 => j - 1 \in 1 .. Len(b))
      BY <1>1, <1>2, <2>2
    <3>2. j > 1 => i - 1 = (j - 1) + Len(a)
      BY <1>1, <3>1
    <3> HIDE DEF j
    <3>3. EntryOK(b, j, receivers, everyone)
      BY <3>1 DEF CallOK
    <3>4. r[i] = b[j] /\ (j > 1 => i > 1 /\ r[i - 1] = b[j - 1])
      <4>1. r[i] = b[j]
        BY <1>4, <3>1
      <4>2. j > 1 => i > 1
        BY <1>1, <3>1
      <4>3. j > 1 => r[i - 1] = b[j - 1]
        BY <1>4, <3>1, <3>2
      <4> QED
        BY <4>1, <4>2, <4>3
    <3> QED
      BY <3>3, <3>4 DEF EntryOK
  <2> QED
    BY <1>1, <1>2, <2>1, <2>2
<1>6. ASSUME NEW c, Called(c, a, everyone) \/ Called(c, b, everyone)
      PROVE  Called(c, r, everyone)
  BY <1>3, <1>4, <1>6 DEF Called
<1>7. CallOK(r, receivers, everyone)
  BY <1>2, <1>5 DEF CallOK, A
<1> QED
  BY <1>6, <1>7 DEF r

LEMMA CallInFull ==
    ASSUME NEW receivers, NEW everyone, NEW callsigns \in SUBSET receivers,
           IsFiniteSet(callsigns)
    PROVE  /\ CallOK(InFull(callsigns), receivers, everyone)
           /\ \A c \in callsigns : Called(c, InFull(callsigns), everyone)
<1> DEFINE s == SetToSeq(callsigns)
           r == [i \in DOMAIN s |-> [callsign |-> s[i], how |-> "full"]]
<1>1. s \in Seq(callsigns) /\ Range(s) = callsigns
  BY SetToSeqCovers
<1>2. InFull(callsigns) = r
  BY DEF InFull
<1> HIDE DEF s
<1>3. Len(s) \in Nat /\ DOMAIN s = 1 .. Len(s) /\ \A i \in 1 .. Len(s) : s[i] \in receivers
  BY <1>1
<1>4. r \in Seq(Addresses(receivers)) /\ Len(r) = Len(s)
  BY <1>3 DEF Addresses
<1>5. \A i \in 1 .. Len(r) : r[i].callsign = s[i] /\ r[i].how = "full"
  BY <1>3, <1>4
<1> HIDE DEF r
<1>6. CallOK(r, receivers, everyone)
  BY <1>4, <1>5 DEF CallOK, EntryOK
<1>7. ASSUME NEW c \in callsigns
      PROVE  Called(c, r, everyone)
  <2>1. PICK i \in 1 .. Len(s) : c = s[i]
    BY <1>1, <1>3 DEF Range
  <2> QED
    BY <1>4, <1>5, <2>1 DEF Called, EntryFor
<1> QED
  BY <1>2, <1>6, <1>7

LEMMA FlightCalled ==
    ASSUME NEW receivers, NEW everyone, IsFiniteSet(everyone),
           NEW members \in FlightsOf(everyone)
    PROVE  /\ CallOK(CollateFlight(members, receivers), receivers, everyone)
           /\ \A c \in members \cap receivers :
                Called(c, CollateFlight(members, receivers), everyone)
<1> DEFINE both == members \cap receivers
           before == {p \in members \X members : p[1].digits[2] < p[2].digits[2]}
           called == SortFunc(SetToSeq(both), before)
           numbers == [i \in DOMAIN called |->
                         [callsign |-> called[i], how |-> IF i = 1 THEN "full" ELSE "numbers"]]
<1>1. PICK x \in everyone : Strict(x) /\ members = FlightOf(x, everyone)
  BY DEF FlightsOf
<1>2. members \subseteq everyone /\ IsFiniteSet(both)
  BY <1>1, FS_Subset DEF FlightOf
<1>3. \A c \in members : c.name = x.name /\ FlightOf(c, everyone) = members
  BY <1>1 DEF FlightOf
<1>4. SetToSeq(both) \in Seq(both) /\ Range(SetToSeq(both)) = both
  <2> HIDE DEF both
  <2> QED
    BY <1>2, SetToSeqCovers
<1>5. called \in Seq(both) /\ Range(called) = both
  <2> HIDE DEF both, before
  <2> QED
    BY <1>4, SortFuncKeeps
<1>6. CollateFlight(members, receivers) =
        IF members \subseteq receivers /\ Cardinality(members) > 1
        THEN <<[callsign |-> called[1], how |-> "flight"]>> ELSE numbers
  BY DEF CollateFlight, CalledOf
<1> HIDE DEF called
<1>7. /\ Len(called) \in Nat /\ DOMAIN called = 1 .. Len(called)
      /\ \A i \in 1 .. Len(called) : called[i] \in members /\ called[i] \in receivers
  BY <1>5
<1>8. CASE members \subseteq receivers /\ Cardinality(members) > 1
  <2> DEFINE entry == [callsign |-> called[1], how |-> "flight"]
  <2>1. members # {}
    BY <1>8, FS_EmptySet
  <2>2. 1 \in 1 .. Len(called)
    BY <1>5, <1>7, <1>8, <2>1 DEF Range
  <2>3. called[1] \in members /\ called[1] \in receivers
    BY <1>7, <2>2
  <2>4. FlightOf(entry.callsign, everyone) = members /\ entry \in Addresses(receivers)
        /\ entry.how = "flight"
    BY <1>3, <2>3 DEF Addresses
  <2> HIDE DEF entry
  <2>5. CallOK(<<entry>>, receivers, everyone)
    BY <1>8, <2>4 DEF CallOK, EntryOK
  <2>6. \A c \in members : Called(c, <<entry>>, everyone)
    <3>1. 1 \in 1 .. Len(<<entry>>) /\ <<entry>>[1] = entry
      OBVIOUS
    <3> QED
      BY <2>4, <3>1 DEF Called, EntryFor
  <2> QED
    BY <1>6, <1>8, <2>5, <2>6 DEF entry
<1>9. CASE ~(members \subseteq receivers /\ Cardinality(members) > 1)
  <2>1. numbers \in Seq(Addresses(receivers)) /\ Len(numbers) = Len(called)
    BY <1>7 DEF Addresses
  <2>2. \A i \in 1 .. Len(numbers) : /\ numbers[i].callsign = called[i]
                                     /\ numbers[i].how = IF i = 1 THEN "full" ELSE "numbers"
    BY <1>7, <2>1
  <2> HIDE DEF numbers
  <2>3. ASSUME NEW i \in 1 .. Len(numbers)
        PROVE  EntryOK(numbers, i, receivers, everyone)
    <3>1. i = 1 \/ i - 1 \in 1 .. Len(numbers)
      BY <1>7, <2>1
    <3>2. CASE i = 1
      BY <2>2, <3>2 DEF EntryOK
    <3>3. CASE i # 1
      <4>1. numbers[i].callsign = called[i] /\ numbers[i - 1].callsign = called[i - 1]
            /\ numbers[i].how = "numbers"
        BY <2>2, <3>1, <3>3
      <4>2. called[i] \in members /\ called[i - 1] \in members
        BY <1>7, <2>1, <3>1, <3>3
      <4>3. called[i].name = called[i - 1].name
        BY <1>3, <4>2
      <4>4. i > 1
        BY <3>3
      <4> QED
        BY <4>1, <4>3, <4>4 DEF EntryOK
    <3> QED
      BY <3>2, <3>3
  <2>4. CallOK(numbers, receivers, everyone)
    BY <2>1, <2>3 DEF CallOK
  <2>5. ASSUME NEW c \in both
        PROVE  Called(c, numbers, everyone)
    <3>1. PICK i \in 1 .. Len(called) : c = called[i]
      BY <1>5, <1>7 DEF Range
    <3>2. numbers[i].callsign = c /\ numbers[i].how # "flight"
      BY <2>1, <2>2, <3>1
    <3> QED
      BY <2>1, <3>1, <3>2 DEF Called, EntryFor
  <2> QED
    BY <1>6, <1>9, <2>4, <2>5
<1> QED
  BY <1>8, <1>9

LEMMA FlightsFinite ==
    ASSUME NEW everyone, IsFiniteSet(everyone)
    PROVE  IsFiniteSet(FlightsOf(everyone))
<1> DEFINE S == {d \in everyone : Strict(d)}
           f == [c \in S |-> FlightOf(c, everyone)]
<1>1. IsFiniteSet(S)
  BY FS_Subset
<1>2. f \in Surjection(S, FlightsOf(everyone))
  BY DEF Surjection, FlightsOf
<1> QED
  BY <1>1, <1>2, FS_Surjection

\* However the callsigns fall into flights, the call is in order, and everybody
\* who is to hear it and is one of the friendlies is called.
LEMMA CallsignsCollated ==
    ASSUME NEW receivers, NEW everyone, IsFiniteSet(receivers), IsFiniteSet(everyone)
    PROVE  /\ CallOK(collateCallsigns(receivers, everyone), receivers, everyone)
           /\ \A c \in receivers \cap everyone :
                Called(c, collateCallsigns(receivers, everyone), everyone)
<1> DEFINE A == Seq(Addresses(receivers))
           B == FlightsOf(everyone)
           flights == SetToSeq(B)
           step == [collated \in A |-> [members \in B |->
                      collated \o CollateFlight(members, receivers)]]
           Sofar(i, to) == /\ CallOK(to, receivers, everyone)
                           /\ \A j \in 1 .. i : \A c \in flights[j] \cap receivers :
                                Called(c, to, everyone)
           inv == [i \in 0 .. Len(flights) |-> {to \in A : Sofar(i, to)}]
           rest == InFull({c \in receivers : ~Strict(c)})
<1>1. flights \in Seq(B) /\ Range(flights) = B
  BY FlightsFinite, SetToSeqCovers
<1>2. CASE Cardinality(receivers) <= 1
  <2>1. collateCallsigns(receivers, everyone) = InFull(receivers)
    BY <1>2 DEF collateCallsigns
  <2> QED
    BY <2>1, CallInFull
<1>3. CASE ~(Cardinality(receivers) <= 1)
  <2>1. collateCallsigns(receivers, everyone) = Loop(step, <<>>, flights) \o rest
    BY <1>3 DEF collateCallsigns
  <2> HIDE DEF B, flights
  <2>2. /\ Len(flights) \in Nat /\ DOMAIN flights = 1 .. Len(flights)
        /\ \A i \in 1 .. Len(flights) : flights[i] \in B
    BY <1>1
  <2>3. ASSUME NEW to \in A, NEW members \in B
        PROVE  /\ step[to][members] = to \o CollateFlight(members, receivers)
               /\ step[to][members] \in A
               /\ CallOK(to, receivers, everyone) =>
                    /\ CallOK(step[to][members], receivers, everyone)
                    /\ \A c : Called(c, to, everyone) => Called(c, step[to][members], everyone)
                    /\ \A c \in members \cap receivers : Called(c, step[to][members], everyone)
    <3> DEFINE piece == CollateFlight(members, receivers)
    <3>1. /\ CallOK(piece, receivers, everyone)
          /\ \A c \in members \cap receivers : Called(c, piece, everyone)
      BY FlightCalled DEF B
    <3>2. step[to][members] = to \o piece
      OBVIOUS
    <3> HIDE DEF piece, step
    <3>3. piece \in A
      BY <3>1 DEF CallOK
    <3>4. to \o piece \in A
      <4> HIDE DEF A
      <4>1. to \in Seq(Addresses(receivers)) /\ piece \in Seq(Addresses(receivers))
        BY <3>3 DEF A
      <4> QED
        BY <4>1, ConcatProperties DEF A
    <3>5. CallOK(to, receivers, everyone) =>
            /\ CallOK(to \o piece, receivers, everyone)
            /\ \A c : Called(c, to, everyone) \/ Called(c, piece, everyone)
                        => Called(c, to \o piece, everyone)
      BY <3>1, CallsJoined
    <3> QED
      BY <3>1, <3>2, <3>4, <3>5 DEF piece
  <2> HIDE DEF step
  <2>4. <<>> \in A /\ Sofar(0, <<>>)
    BY DEF CallOK
  <2>5. ASSUME NEW i \in 1 .. Len(flights), NEW to \in A, Sofar(i - 1, to)
        PROVE  Sofar(i, step[to][flights[i]])
    <3> DEFINE r == step[to][flights[i]]
    <3>1. /\ CallOK(r, receivers, everyone)
          /\ \A c : Called(c, to, everyone) => Called(c, r, everyone)
          /\ \A c \in flights[i] \cap receivers : Called(c, r, everyone)
      <4> HIDE DEF A
      <4> QED
        BY <2>2, <2>3, <2>5
    <3>2. ASSUME NEW j \in 1 .. i, NEW c \in flights[j] \cap receivers
          PROVE  Called(c, r, everyone)
      <4>1. CASE j = i
        BY <3>1, <3>2, <4>1
      <4>2. CASE j # i
        <5>1. j \in 1 .. i - 1
          BY <4>2
        <5> QED
          BY <2>5, <3>1, <5>1
      <4> QED
        BY <4>1, <4>2
    <3> QED
      BY <3>1, <3>2
  <2> DEFINE to == Loop(step, <<>>, flights)
  <2>6. to \in A /\ to \in inv[Len(flights)]
    <3>1. <<>> \in inv[0]
      BY <2>2, <2>4
    <3>2. \A i \in 1 .. Len(flights) : \A a \in A :
             a \in inv[i - 1] => step[a][flights[i]] \in inv[i]
      <4> SUFFICES ASSUME NEW i \in 1 .. Len(flights), NEW a \in A, a \in inv[i - 1]
                   PROVE  step[a][flights[i]] \in inv[i]
        OBVIOUS
      <4> HIDE DEF Sofar, A
      <4>1. inv[i - 1] = {t \in A : Sofar(i - 1, t)} /\ inv[i] = {t \in A : Sofar(i, t)}
        BY <2>2
      <4>2. Sofar(i, step[a][flights[i]])
        BY <2>5, <4>1
      <4>3. step[a][flights[i]] \in A
        BY <2>2, <2>3
      <4> QED
        BY <4>1, <4>2, <4>3
    <3>3. \A a \in A : \A e \in B : step[a][e] \in A
      BY <2>3
    <3> HIDE DEF inv, A
    <3> QED
      BY <1>1, <2>4, <3>1, <3>2, <3>3, LoopInvariant
  <2> HIDE DEF to
  <2>7. Sofar(Len(flights), to)
    <3> HIDE DEF Sofar, A
    <3> QED
      BY <2>2, <2>6
  <2>8. /\ CallOK(rest, receivers, everyone)
        /\ \A c \in receivers : ~Strict(c) => Called(c, rest, everyone)
    <3>1. {c \in receivers : ~Strict(c)} \in SUBSET receivers
      OBVIOUS
    <3>2. IsFiniteSet({c \in receivers : ~Strict(c)})
      BY FS_Subset
    <3> QED
      BY <3>1, <3>2, CallInFull
  <2> HIDE DEF rest
  <2>9. /\ CallOK(to \o rest, receivers, everyone)
        /\ \A c : Called(c, to, everyone) \/ Called(c, rest, everyone)
                    => Called(c, to \o rest, everyone)
    BY <2>7, <2>8, CallsJoined
  <2>10. ASSUME NEW c \in receivers \cap everyone
         PROVE  Called(c, to \o rest, everyone)
    <3>1. CASE Strict(c)
      <4>1. FlightOf(c, everyone) \in B /\ c \in FlightOf(c, everyone)
        BY <3>1 DEF B, FlightsOf, FlightOf
      <4>2. PICK j \in 1 .. Len(flights) : flights[j] = FlightOf(c, everyone)
        BY <1>1, <2>2, <4>1 DEF Range
      <4> QED
        BY <2>7, <2>9, <4>1, <4>2
    <3>2. CASE ~Strict(c)
      BY <2>8, <2>9, <3>2
    <3> QED
      BY <3>1, <3>2
  <2> QED
    BY <2>1, <2>9, <2>10 DEF to
<1> QED
  BY <1>2, <1>3

\* A call in order is taken by none but the receivers, and by everybody called.
LEMMA CallTaken ==
    ASSUME NEW receivers, NEW everyone, CallsignsOK(receivers), NEW to,
           CallOK(to, receivers, everyone)
    PROVE  /\ Takes(to, everyone) \subseteq receivers
           /\ \A c \in everyone \cap receivers :
                Called(c, to, everyone) => c \in Takes(to, everyone)
<1> DEFINE named(i) == {j \in 1 .. i : to[j].how # "numbers"}
           name(i) == to[Max(named(i))].callsign.name
<1>1. /\ to \in Seq(Addresses(receivers)) /\ Len(to) \in Nat /\ DOMAIN to = 1 .. Len(to)
      /\ \A i \in 1 .. Len(to) : EntryOK(to, i, receivers, everyone)
  BY DEF CallOK
<1>2. ASSUME NEW i \in 1 .. Len(to)
      PROVE  to[i].callsign \in receivers
  <2>1. to[i] \in Addresses(receivers)
    BY <1>1
  <2>2. \A a \in Addresses(receivers) : a.callsign \in receivers
    BY DEF Addresses
  <2> QED
    BY <2>1, <2>2
<1>3. ASSUME NEW i \in 1 .. Len(to)
      PROVE  name(i) = to[i].callsign.name
  <2>1. 1 \in 1 .. Len(to) /\ 1 \in 1 .. i
    BY <1>1
  <2>2. to[1].how # "numbers"
    BY <1>1, <2>1 DEF EntryOK
  <2>3. named(i) \in SUBSET (0 .. i) /\ named(i) # {}
    BY <2>1, <2>2
  <2>4. Max(named(i)) \in named(i) /\ \A n \in named(i) : n <= Max(named(i))
    <3> HIDE DEF named
    <3> QED
      BY <2>3, MaxIsGreatest
  <2> DEFINE m == Max(named(i))
  <2>5. m \in 1 .. i /\ \A j \in 1 .. i : j > m => to[j].how = "numbers"
    <3>1. m \in 1 .. i
      BY <2>4
    <3>2. \A n \in named(i) : n <= m
      BY <2>4
    <3> HIDE DEF m
    <3> QED
      BY <3>1, <3>2
  <2> HIDE DEF m
  <2> DEFINE T == {k \in 0 .. i - m : to[m + k].callsign.name = to[m].callsign.name}
  <2>6. 0 \in T
    BY <2>5
  <2>7. ASSUME NEW k \in 1 .. i - m, k - 1 \in T
        PROVE  k \in T
    <3>1. m + k \in 1 .. i /\ m + k > m /\ m + k \in 1 .. Len(to) /\ (m + k) - 1 = m + (k - 1)
      BY <1>1, <2>5
    <3>2. to[(m + k) - 1].callsign.name = to[m + k].callsign.name
      BY <1>1, <2>5, <3>1 DEF EntryOK
    <3> QED
      BY <2>7, <3>1, <3>2
  <2>8. i - m \in T
    <3>1. i - m \in Nat
      BY <2>5
    <3> HIDE DEF T
    <3>2. \A k \in 0 .. i - m : k \in T
      BY <2>6, <2>7, <3>1, Induction
    <3> QED
      BY <3>1, <3>2
  <2>9. m + (i - m) = i
    BY <2>5
  <2> QED
    BY <2>8, <2>9 DEF m
<1> HIDE DEF name
<1>4. \A i \in 1 .. Len(to) :
         [name |-> name(i), digits |-> to[i].callsign.digits] = to[i].callsign
  BY <1>2, <1>3 DEF CallsignsOK
<1>5. Takes(to, everyone) =
        {c \in everyone : \E i \in DOMAIN to :
           IF to[i].how = "flight" THEN c \in FlightOf(to[i].callsign, everyone)
           ELSE c = [name |-> name(i), digits |-> to[i].callsign.digits]}
  BY DEF Takes, name
<1>6. Takes(to, everyone) =
        {c \in everyone : \E i \in 1 .. Len(to) : EntryFor(c, to[i], everyone)}
  BY <1>1, <1>4, <1>5 DEF EntryFor
<1>7. ASSUME NEW c \in Takes(to, everyone)
      PROVE  c \in receivers
  <2>1. PICK i \in 1 .. Len(to) : EntryFor(c, to[i], everyone)
    BY <1>6
  <2>2. CASE to[i].how = "flight"
    BY <1>1, <2>1, <2>2 DEF EntryFor, EntryOK
  <2>3. CASE to[i].how # "flight"
    BY <1>2, <2>1, <2>3 DEF EntryFor
  <2> QED
    BY <2>2, <2>3
<1> QED
  BY <1>6, <1>7 DEF Called

\* A call is taken by those it is for: by no other friendly, and by every one of
\* them who is still there, however flights are shortened.
THEOREM CollatedCallTaken ==
    ASSUME NEW receivers, NEW everyone, IsFiniteSet(receivers), IsFiniteSet(everyone),
           CallsignsOK(receivers)
    PROVE  LET taken == Takes(collateCallsigns(receivers, everyone), everyone)
           IN  taken \subseteq receivers /\ receivers \cap everyone \subseteq taken
BY CallsignsCollated, CallTaken

----------------------------------------------------------------------------
(* The invariant *)

\* The world is one that can be queried.
WorldOK ==
    /\ WorldTypeOK
    /\ \A id \in DOMAIN track :
         /\ {"coalition", "name", "point"} \subseteq DOMAIN track[id]
         /\ track[id].name = [name |-> track[id].name.name,
                              digits |-> track[id].name.digits]

\* The speaker is on the controller's side.
SpeakerOK == stage \in {"search", "compare"} => track[me].coalition = Coalition

\* Only DECLARE, SNAPLOCK and THREAT look somewhere.
VolumeOK == stage \in {"heard", "handle", "search", "threat"} => volume = Nil

\* What the first of the two questions has found: groups of friendlies, and one
\* at least if a friendly has been in the volume all the time.
FoundOK ==
    stage = "compare" =>
      /\ found \in Seq(Seq(DOMAIN track))
      /\ \A k \in 1 .. Len(found) : \A id \in Range(found[k]) :
           track[id].coalition = Coalition
      /\ \A id \in Steady(Coalition) \ {me} : InVolume(id) => found # <<>>

\* Those a THREAT call is for are friendly, and on the scope unless they have
\* changed.
ReceiversOK ==
    stage \in {"gather", "collate"} =>
      /\ \A id \in Range(found) : id \in DOMAIN track /\ track[id].coalition = Coalition
      /\ Range(found) \ stirred \subseteq contacts

\* The callsigns of those who are endangered and not merged with the threat have
\* been gathered: of nobody else, and of everyone who has not changed.
CallsignsGathered ==
    stage = "collate" =>
      /\ IsFiniteSet(me)
      /\ me \subseteq {track[id].name : id \in Endangered}
      /\ {track[id].name : id \in Endangered \ stirred} \subseteq me

\* PICTURE ranks groups from the center point, and looks for them around it
\* once it is set.
PictureInv == Center # Zero => PictureFirst

Inv ==
    /\ TypeOK /\ WorldOK /\ SpeakerOK /\ VolumeOK /\ FoundOK /\ ReceiversOK
    /\ CallsignsGathered
    /\ Accounted /\ NearestReported /\ PictureInv /\ ThreatTaken

LEMMA InvInit == ASSUME Init PROVE Inv
<1>1. PICK s \in Scenario :
         /\ contacts = s.contacts /\ track = s.track /\ stage = s.stage
         /\ me = Nil /\ volume = Nil /\ found = <<>> /\ answer = Nil /\ stirred = {}
         /\ merged = s.merged
  BY DEF Init
<1>2. /\ s.stage \in {"heard", "threat"}
      /\ IsFiniteSet(s.contacts)
      /\ s.contacts \subseteq DOMAIN s.track
      /\ Nil \notin DOMAIN s.track
      /\ s.merged \subseteq (DOMAIN s.track) \X (DOMAIN s.track)
      /\ \A id \in DOMAIN s.track :
           /\ {"coalition", "name", "point"} \subseteq DOMAIN s.track[id]
           /\ s.track[id].point \in Int
           /\ s.track[id].name = [name |-> s.track[id].name.name,
                                  digits |-> s.track[id].name.digits]
  BY RequestsAssumption
<1>3. stage \in {"heard", "threat"}
  BY <1>1, <1>2
<1>4. TypeOK
  BY <1>1, <1>2, <1>3 DEF TypeOK, Stages, Done
<1>5. WorldOK
  BY <1>1, <1>2 DEF WorldOK, WorldTypeOK, Point
<1>6. SpeakerOK /\ VolumeOK /\ FoundOK /\ ReceiversOK /\ CallsignsGathered
  BY <1>1, <1>3 DEF SpeakerOK, VolumeOK, FoundOK, ReceiversOK, CallsignsGathered
<1>7. Accounted /\ NearestReported /\ PictureInv /\ ThreatTaken
  BY <1>3 DEF Accounted, NearestReported, Reported, PictureInv, PictureFirst, ThreatTaken
<1> QED
  BY <1>4, <1>5, <1>6, <1>7 DEF Inv

----------------------------------------------------------------------------
(* The world moves on *)

\* Whoever a merge is forgotten of is stirred.
LEMMA Forgetting ==
    ASSUME TypeOK, NEW x, Forget(x)
    PROVE  /\ x \in stirred' /\ stirred \subseteq stirred' /\ stirred' \subseteq DOMAIN track
           /\ merged' \subseteq merged
           /\ \A a, b : <<a, b>> \in merged \ merged' => b \in stirred'
<1> DEFINE forgotten == {m \in merged : x \in {m[1], m[2]}}
<1>1. /\ forgotten # {} /\ merged' = merged \ forgotten
      /\ stirred' = stirred \cup UNION {{m[1], m[2]} : m \in forgotten}
  BY DEF Forget, Changing
<1>2. \A m \in forgotten : m[1] \in DOMAIN track /\ m[2] \in DOMAIN track
  BY DEF TypeOK
<1>3. \A m \in forgotten : m[1] \in stirred' /\ m[2] \in stirred'
  BY <1>1
<1>4. x \in stirred'
  BY <1>1, <1>3
<1>5. stirred \subseteq stirred' /\ stirred' \subseteq DOMAIN track
  BY <1>1, <1>2 DEF TypeOK
<1>6. ASSUME NEW a, NEW b, <<a, b>> \in merged \ merged'
      PROVE  b \in stirred'
  BY <1>1, <1>3, <1>6
<1> QED
  BY <1>1, <1>4, <1>5, <1>6

\* A step that changes the world changes nothing else, and no contact but those
\* it stirs.
LEMMA WorldStep ==
    ASSUME Inv, NEW x \in DOMAIN track,
           Fade(x) \/ Forget(x) \/ \E p \in Place : Move(x, p)
    PROVE  Inv'
<1> USE DEF Inv
<1>1. /\ stage \in {"search", "compare", "gather", "collate"}
      /\ x \in stirred' /\ stirred \subseteq stirred' /\ stirred' \subseteq DOMAIN track
      /\ merged' \subseteq merged
      /\ \A a, b : <<a, b>> \in merged \ merged' => b \in stirred'
      /\ UNCHANGED <<stage, request, me, volume, found, answer>>
  <2>1. CASE Forget(x)
    <3>1. /\ stage \in {"search", "compare", "gather", "collate"}
          /\ UNCHANGED <<stage, request, me, volume, found, answer>>
      BY <2>1 DEF Forget, Changing
    <3> QED
      BY <2>1, <3>1, Forgetting
  <2>2. CASE Fade(x) \/ \E p \in Place : Move(x, p)
    <3>1. /\ stage \in {"search", "compare", "gather", "collate"}
          /\ stirred' = stirred \cup {x} /\ merged' = merged
          /\ UNCHANGED <<stage, request, me, volume, found, answer>>
      BY <2>2 DEF Fade, Move, Changing
    <3> QED
      BY <3>1 DEF TypeOK
  <2> QED
    BY <2>1, <2>2
<1>2. /\ contacts \subseteq DOMAIN track /\ IsFiniteSet(contacts) /\ Nil \notin DOMAIN track
      /\ \A id \in DOMAIN track : track[id].point \in Int
      /\ \A id \in DOMAIN track :
           "coalition" \in DOMAIN track[id] /\ "name" \in DOMAIN track[id]
             /\ "point" \in DOMAIN track[id]
  BY DEF WorldOK, WorldTypeOK, Point
<1>3. /\ DOMAIN track' = DOMAIN track
      /\ \A id \in DOMAIN track : id # x => track'[id] = track[id]
      /\ track'[x].coalition = track[x].coalition /\ track'[x].name = track[x].name
      /\ track'[x].point \in Int /\ (track[x].point # Zero => track'[x].point # Zero)
      /\ DOMAIN track'[x] = DOMAIN track[x]
  <2>1. CASE Fade(x) \/ Forget(x)
    BY <1>2, <2>1 DEF Fade, Forget
  <2>2. ASSUME NEW p \in Place, Move(x, p)
        PROVE  <1>3
    <3>1. track' = [track EXCEPT ![x].point = p]
      BY <2>2 DEF Move
    <3>2. track'[x] = [track[x] EXCEPT !.point = p]
      BY <3>1
    <3>3. /\ DOMAIN track'[x] = DOMAIN track[x]
          /\ track'[x].point = p
          /\ track'[x].coalition = track[x].coalition
          /\ track'[x].name = track[x].name
      BY <1>2, <3>2
    <3>4. p \in Int /\ p # Zero
      BY RequestsAssumption
    <3> QED
      BY <3>1, <3>3, <3>4
  <2> QED
    BY <2>1, <2>2
<1>4. /\ contacts' \subseteq contacts \cup {x}
      /\ IsFiniteSet(contacts')
  <2>1. contacts' = contacts \cup {x} \/ contacts' = contacts \ {x} \/ contacts' = contacts
    BY DEF Fade, Forget, Move
  <2>2. IsFiniteSet(contacts \cup {x})
    BY <1>2, FS_AddElement
  <2>3. IsFiniteSet(contacts \ {x})
    BY <1>2, FS_Subset
  <2> QED
    BY <2>1, <2>2, <2>3
<1>5. \A id \in DOMAIN track : /\ track'[id].coalition = track[id].coalition
                              /\ track'[id].name = track[id].name
  BY <1>3
<1>6. TypeOK'
  <2>1. contacts' \subseteq DOMAIN track' /\ stirred' \subseteq DOMAIN track'
    BY <1>1, <1>2, <1>3, <1>4 DEF TypeOK
  <2>2. stage \in {"search", "compare"} => me \in DOMAIN track' /\ Point(me)' # Zero
    BY <1>1, <1>3 DEF TypeOK, Point
  <2>3. merged' \subseteq (DOMAIN track') \X (DOMAIN track')
    BY <1>1, <1>3 DEF TypeOK
  <2> QED
    BY <1>1, <2>1, <2>2, <2>3 DEF TypeOK
<1>7. WorldOK'
  <2>1. \A id \in DOMAIN track' : track'[id].point \in Int
    BY <1>2, <1>3
  <2>2. \A id \in DOMAIN track' : {"coalition", "name", "point"} \subseteq DOMAIN track'[id]
    BY <1>2, <1>3
  <2>3. \A id \in DOMAIN track' :
           track'[id].name = [name |-> track'[id].name.name,
                              digits |-> track'[id].name.digits]
    BY <1>3, <1>5 DEF WorldOK
  <2> QED
    BY <1>2, <1>3, <1>4, <2>1, <2>2, <2>3 DEF WorldOK, WorldTypeOK, Point
<1>8. SpeakerOK' /\ VolumeOK'
  BY <1>1, <1>3, <1>5 DEF SpeakerOK, VolumeOK, TypeOK
\* Whoever has stayed was there before, and is where he was.
<1>9. \A id \in contacts' \ stirred' : id \in contacts \ stirred /\ track'[id] = track[id]
  BY <1>1, <1>2, <1>3, <1>4
<1>10. FoundOK'
  <2> SUFFICES ASSUME stage = "compare"
               PROVE  FoundOK'
    BY <1>1 DEF FoundOK
  <2>1. \A id \in Steady(Coalition)' : id \in Steady(Coalition)
    BY <1>9 DEF Steady
  <2>2. \A id \in contacts' \ stirred' : InVolume(id)' => InVolume(id)
    BY <1>1, <1>9 DEF InVolume, isValidTrack, Point, InBlock
  <2>3. \A id \in Steady(Coalition)' \ {me'} : InVolume(id)' => found' # <<>>
    <3>1. \A id \in Steady(Coalition)' : id \in contacts' \ stirred'
      BY DEF Steady
    <3> QED
      BY <1>1, <2>1, <2>2, <3>1 DEF FoundOK
  <2>4. /\ found' \in Seq(Seq(DOMAIN track'))
        /\ \A k \in 1 .. Len(found') : \A id \in Range(found'[k]) :
             track'[id].coalition = Coalition
    <3>1. found \in Seq(Seq(DOMAIN track))
      BY DEF FoundOK
    <3>2. \A k \in 1 .. Len(found) : \A id \in Range(found[k]) :
             id \in DOMAIN track /\ track[id].coalition = Coalition
      BY <3>1 DEF FoundOK, Range
    <3> QED
      BY <1>1, <1>3, <1>5, <3>1, <3>2
  <2> QED
    BY <2>3, <2>4 DEF FoundOK
\* Whoever is no longer there has been stirred, and so is whoever was merged
\* with the threat and is not any more.
<1>11. ReceiversOK' /\ CallsignsGathered'
  <2>1. contacts \ {x} \subseteq contacts'
    BY DEF Fade, Forget, Move
  <2>2. ReceiversOK'
    BY <1>1, <1>3, <1>5, <2>1 DEF ReceiversOK
  <2>3. CASE stage = "collate"
    <3>1. /\ IsFiniteSet(me)
          /\ me \subseteq {track[id].name : id \in Endangered}
          /\ {track[id].name : id \in Endangered \ stirred} \subseteq me
          /\ Range(found) \subseteq DOMAIN track
      BY <2>3 DEF CallsignsGathered, ReceiversOK
    <3>2. me' = me /\ found' = found /\ volume' = volume
      BY <1>1
    <3>3. Endangered \subseteq Endangered' /\ Endangered' \ stirred' \subseteq Endangered \ stirred
      BY <1>1, <3>2 DEF Endangered, isGroupMergedWithFriendly
    <3>4. Endangered \subseteq DOMAIN track /\ Endangered' \subseteq DOMAIN track
      BY <3>1, <3>2 DEF Endangered
    <3> DEFINE E == Endangered
               F == Endangered'
    <3> HIDE DEF E, F
    <3>5. {track[id].name : id \in E} \subseteq {track'[id].name : id \in F}
      BY <1>5, <3>3, <3>4 DEF E, F
    <3>6. {track'[id].name : id \in F \ stirred'} \subseteq {track[id].name : id \in E \ stirred}
      BY <1>5, <3>3, <3>4 DEF E, F
    <3>7. me' \subseteq {track'[id].name : id \in F}
      BY <3>1, <3>2, <3>5 DEF E
    <3>8. {track'[id].name : id \in F \ stirred'} \subseteq me'
      BY <3>1, <3>2, <3>6 DEF E
    <3> QED
      BY <2>2, <3>1, <3>2, <3>7, <3>8 DEF CallsignsGathered, F
  <2>4. CASE stage # "collate"
    <3>1. stage' # "collate"
      BY <1>1, <2>4
    <3> QED
      BY <2>2, <3>1 DEF CallsignsGathered
  <2> QED
    BY <2>2, <2>3, <2>4
<1>12. Accounted' /\ NearestReported' /\ PictureInv' /\ ThreatTaken'
  BY <1>1 DEF Accounted, NearestReported, Reported, PictureInv, PictureFirst, ThreatTaken
<1> QED
  BY <1>6, <1>7, <1>8, <1>10, <1>11, <1>12

----------------------------------------------------------------------------
(* Steps that leave the world alone *)

\* What such a step must still show of the invariant.
LEMMA QuietStep ==
    ASSUME Inv, UNCHANGED world, TypeOK', SpeakerOK', VolumeOK', FoundOK', ReceiversOK',
           CallsignsGathered', Accounted', NearestReported', PictureInv', ThreatTaken'
    PROVE  Inv'
<1>1. contacts' = contacts /\ track' = track
  BY DEF world
<1>2. WorldOK'
  BY <1>1 DEF Inv, WorldOK, WorldTypeOK, Point
<1> QED
  BY <1>2 DEF Inv

\* A step on the way to an answer, or to none, that asks the radar nothing.
LEMMA OnTheWay ==
    ASSUME Inv, UNCHANGED <<world, answer>>, stage # "answered",
           stage' \in {"handle", "ignored"}, stage' = "handle" => volume' = Nil
    PROVE  Inv'
<1>1. contacts' = contacts /\ track' = track /\ merged' = merged /\ stirred' = stirred /\ answer' = answer
  BY DEF world
<1>2. TypeOK'
  BY <1>1 DEF Inv, TypeOK, Stages, Done
<1>3. /\ SpeakerOK' /\ VolumeOK' /\ FoundOK' /\ ReceiversOK' /\ CallsignsGathered'
      /\ Accounted' /\ NearestReported' /\ PictureInv' /\ ThreatTaken'
  BY DEF SpeakerOK, VolumeOK, FoundOK, ReceiversOK, CallsignsGathered, Accounted,
         NearestReported, Reported, PictureInv, PictureFirst, ThreatTaken
<1> QED
  BY <1>2, <1>3, QuietStep DEF world

\* An answer.
LEMMA Answer ==
    ASSUME Inv, NEW call, Send(call), "call" \in DOMAIN call,
           Accounted', NearestReported', PictureInv', ThreatTaken'
    PROVE  Inv'
<1>1. /\ contacts' = contacts /\ track' = track /\ merged' = merged /\ stirred' = stirred
      /\ answer' = call /\ stage' = "answered" /\ UNCHANGED world
  BY DEF Send, world
<1>2. TypeOK'
  BY <1>1 DEF Inv, TypeOK, Stages, Done
<1>3. SpeakerOK' /\ VolumeOK' /\ FoundOK' /\ ReceiversOK' /\ CallsignsGathered'
  BY <1>1 DEF SpeakerOK, VolumeOK, FoundOK, ReceiversOK, CallsignsGathered
<1> QED
  BY <1>1, <1>2, <1>3, QuietStep

\* An answer that none of the properties is about.
LEMMA PlainAnswer ==
    ASSUME Inv, NEW call, Send(call), "call" \in DOMAIN call,
           call.call \notin {"bogey", "picture", "threat"}, volume = Nil
    PROVE  Inv'
<1>1. /\ answer' = call /\ stage' = "answered" /\ volume' = volume
  BY DEF Send
<1>2. Accounted' /\ NearestReported' /\ PictureInv' /\ ThreatTaken'
  BY <1>1 DEF Accounted, NearestReported, Reported, PictureInv, PictureFirst, ThreatTaken
<1> QED
  BY <1>2, Answer

LEMMA ResponseFields ==
    ASSUME NEW fields
    PROVE  /\ "call" \in DOMAIN Response(fields)
           /\ Response(fields).call = request.kind
           /\ \A f \in DOMAIN fields :
                f \notin {"call", "to"} => Response(fields)[f] = fields[f]
BY DEF Response

LEMMA NoContactCall ==
    /\ "call" \in DOMAIN NoContact
    /\ NoContact.call \in {"radio", "alpha", "vector", "negative"}
<1>1. CASE request.kind \in {"radio", "alpha", "vector"}
  <2>1. NoContact = Response([contact |-> FALSE])
    BY <1>1 DEF NoContact
  <2> QED
    BY <1>1, <2>1, ResponseFields
<1>2. CASE request.kind \notin {"radio", "alpha", "vector"}
  BY <1>2 DEF NoContact, NegativeRadarContact
<1> QED
  BY <1>1, <1>2

\* The handlers that ask the radar nothing but who the speaker is.
LEMMA AtOnce ==
    ASSUME Inv,
           \/ HandleRadioCheck \/ HandleCheckIn \/ HandleTripwire \/ HandleShopping
           \/ HandleAlphaCheck \/ HandleUnableToUnderstand
    PROVE  Inv'
<1>1. stage = "handle" /\ volume = Nil
  BY DEF Inv, VolumeOK, HandleRadioCheck, HandleCheckIn, HandleTripwire, HandleShopping,
         HandleAlphaCheck, HandleUnableToUnderstand, AnswerAtOnce, Handles
<1>2. CASE HandleUnableToUnderstand
  <2>1. PICK id : Send([call |-> "sayagain",
                        to |-> IF id = Nil THEN NoCallsign ELSE track[id].name])
    BY <1>2 DEF HandleUnableToUnderstand
  <2> QED
    BY <1>1, <2>1, PlainAnswer
<1>3. CASE ~HandleUnableToUnderstand
  <2>1. request.kind \in {"radio", "checkin", "tripwire", "shopping", "alpha"}
    BY <1>3 DEF HandleRadioCheck, HandleCheckIn, HandleTripwire, HandleShopping,
                HandleAlphaCheck, AnswerAtOnce, Handles
  <2>2. Send(NoContact) \/ \E fields : Send(Response(fields))
    BY <1>3 DEF HandleRadioCheck, HandleCheckIn, HandleTripwire, HandleShopping,
                HandleAlphaCheck, AnswerAtOnce
  <2>3. CASE Send(NoContact)
    BY <1>1, <2>3, NoContactCall, PlainAnswer
  <2>4. ASSUME NEW fields, Send(Response(fields))
        PROVE  Inv'
    BY <1>1, <2>1, <2>4, ResponseFields, PlainAnswer
  <2> QED
    BY <2>2, <2>3, <2>4
<1> QED
  BY <1>2, <1>3

\* The others look for the speaker first.
LEMMA Speaker ==
    ASSUME Inv, FindSpeaker
    PROVE  Inv'
<1>1. stage = "handle" /\ volume = Nil
  BY DEF FindSpeaker, Handles, Inv, VolumeOK
<1>2. PICK id \in FindCallsign(request.callsign) : Identify(id)
  BY DEF FindSpeaker
<1>3. CASE ~Located(id)
  BY <1>1, <1>2, <1>3, NoContactCall, PlainAnswer DEF Identify
<1>4. CASE Located(id)
  <2>1. /\ me' = id /\ stage' = "search" /\ UNCHANGED <<world, volume, found, answer>>
    BY <1>2, <1>4 DEF Identify
  <2>2. contacts' = contacts /\ track' = track /\ merged' = merged /\ stirred' = stirred
    BY <2>1 DEF world
  <2>3. /\ id \in contacts /\ track[id].coalition = Coalition
        /\ Point(id) # Zero
    BY <1>4 DEF FindCallsign, Located
  <2>4. TypeOK'
    BY <1>1, <2>1, <2>2, <2>3 DEF Inv, TypeOK, Stages, Point
  <2>5. SpeakerOK' /\ VolumeOK' /\ FoundOK' /\ ReceiversOK' /\ CallsignsGathered'
    BY <1>1, <2>1, <2>2, <2>3 DEF SpeakerOK, VolumeOK, FoundOK, ReceiversOK,
                                  CallsignsGathered
  <2>6. Accounted' /\ NearestReported' /\ PictureInv' /\ ThreatTaken'
    BY <2>1 DEF Accounted, NearestReported, Reported, PictureInv, PictureFirst, ThreatTaken
  <2> QED
    BY <2>1, <2>4, <2>5, <2>6, QuietStep
<1> QED
  BY <1>3, <1>4

\* One question, and an answer that no property is about.
LEMMA PlainSearch ==
    ASSUME Inv, HandleSpiked \/ HandleStrobe \/ HandleVector \/ HandleTankerVector \/ HandleSour
    PROVE  Inv'
<1>1. stage = "search" /\ volume = Nil
  BY DEF Inv, VolumeOK, HandleSpiked, HandleStrobe, correlate, HandleVector,
         HandleTankerVector, HandleSour, Searches
<1>2. request.kind \in {"spiked", "strobe", "vector", "declare"}
  BY DEF HandleSpiked, HandleStrobe, correlate, HandleVector, HandleTankerVector,
         HandleSour, Searches
<1>3. \E fields : Send(Response(fields))
  <2>1. CASE HandleSpiked
    BY <2>1 DEF HandleSpiked, correlate, SendGroup
  <2>2. CASE HandleStrobe
    BY <2>2 DEF HandleStrobe, correlate, SendGroup
  <2>3. CASE HandleVector
    BY <2>3 DEF HandleVector, SendVector
  <2>4. CASE HandleTankerVector
    BY <2>4 DEF HandleTankerVector, SendVector
  <2>5. CASE HandleSour
    BY <2>5 DEF HandleSour
  <2> QED
    BY <2>1, <2>2, <2>3, <2>4, <2>5
<1>4. PICK fields : Send(Response(fields))
  BY <1>3
<1> QED
  BY <1>1, <1>2, <1>4, ResponseFields, PlainAnswer

----------------------------------------------------------------------------
(* BOGEY DOPE and PICTURE *)

LEMMA Bogey ==
    ASSUME Inv, HandleBogeyDope
    PROVE  Inv'
<1> DEFINE G(order) == FindNearestGroupWithBRAA(Point(me), lowestAltitude, highestAltitude,
                                                300 * NM, Hostile, request.filter, order)
<1>1. /\ stage = "search" /\ request.kind = "bogey" /\ volume = Nil
      /\ me \in DOMAIN track /\ Point(me) \in Int /\ WorldTypeOK
  BY DEF Inv, TypeOK, VolumeOK, WorldOK, WorldTypeOK, HandleBogeyDope, Searches
<1>2. PICK order \in Orders : SendGroup(G(order))
  BY DEF HandleBogeyDope
<1> DEFINE fields == [origin |-> Point(me), group |-> G(order)]
           call == Response(fields)
<1>3. Send(call) /\ me' = me
  BY <1>2 DEF SendGroup
<1>4. /\ "call" \in DOMAIN call /\ call.call = "bogey"
      /\ call.origin = Point(me) /\ call.group = G(order)
  BY <1>1, ResponseFields
<1> HIDE DEF call
<1>5. /\ contacts' = contacts /\ track' = track /\ stirred' = stirred
      /\ request' = request /\ volume' = volume /\ answer' = call /\ stage' = "answered"
  BY <1>3 DEF Send, world
<1>6. ASSUME NEW id \in contacts, isMatch(id, Hostile, request.filter),
             InBlock(id, lowestAltitude, highestAltitude),
             Distance(Point(me), Point(id)) < 300 * NM
      PROVE  \E g \in Range(G(order)) :
                Distance(Point(me), Point(g)) <= Distance(Point(me), Point(id))
  <2>1. id \in MatchesInBlock(Hostile, request.filter, lowestAltitude, highestAltitude)
    BY <1>6 DEF MatchesInBlock
  <2>2. 300 * NM \in Int
    BY DEF NM
  <2> QED
    BY <1>1, <1>6, <2>1, <2>2, NearestGroup
<1> HIDE DEF G
<1>7. NearestReported'
  <2> SUFFICES ASSUME NEW id \in contacts, isMatch(id, Hostile, request.filter)',
                      InBlock(id, lowestAltitude, highestAltitude)',
                      Distance(call.origin, track[id].point) < 300 * NM
               PROVE  \E g \in Range(call.group) :
                         Distance(call.origin, track[g].point)
                           <= Distance(call.origin, track[id].point)
    BY <1>5 DEF NearestReported, NoneNearer, Steady, Point, Distance
  <2>1. isMatch(id, Hostile, request.filter) /\ InBlock(id, lowestAltitude, highestAltitude)
    BY <1>5 DEF isMatch, InBlock, isValidTrack, Point, Known, Data, lowestAltitude,
                highestAltitude
  <2> QED
    BY <1>4, <1>6, <2>1 DEF Point
<1>8. Accounted' /\ PictureInv' /\ ThreatTaken'
  BY <1>1, <1>4, <1>5 DEF Accounted, PictureInv, PictureFirst, ThreatTaken
<1> QED
  BY <1>3, <1>4, <1>7, <1>8, Answer

LEMMA PictureAnswer ==
    ASSUME Inv, HandlePicture
    PROVE  Inv'
<1> DEFINE picture(order) == Picture(Center, Bullseye[Hostile], DefaultPictureRadius,
                                     Hostile, "FixedWing", order)
<1>1. stage = "handle" /\ volume = Nil /\ WorldTypeOK
  BY DEF Inv, VolumeOK, WorldOK, HandlePicture, Handles
<1>2. PICK order \in Orders :
         Send([call |-> "picture", count |-> picture(order).count,
               groups |-> picture(order).groups])
  BY DEF HandlePicture
<1> DEFINE groups == picture(order).groups
           count == picture(order).count
           call == [call |-> "picture", count |-> count, groups |-> groups]
           ids == Nearby(PictureOrigin(Center, Bullseye[Hostile]), 0, highestAltitude,
                         DefaultPictureRadius, Hostile, "FixedWing", {})
<1>3. /\ "call" \in DOMAIN call /\ call.call = "picture" /\ call.count = count
      /\ call.groups = groups
  OBVIOUS
<1>4. /\ contacts' = contacts /\ track' = track /\ stirred' = stirred
      /\ volume' = volume /\ answer' = call /\ stage' = "answered"
  BY <1>2 DEF Send, world
<1>5. /\ groups \in Seq(Seq(contacts))
      /\ Len(groups) = Min({3, count})
      /\ Distinct(groups)
      /\ \A id \in ids :
           \/ InSome(id, groups)
           \/ \E x \in ids \cap contacts :
                LET left == findGroupForAircraft(x, order)
                IN  /\ id \in Range(left)
                    /\ \A k \in 1 .. Len(groups) : Rank(groups[k], Center) <= Rank(left, Center)
  BY <1>1, PictureRanked
<1>6. order \in Seq(contacts)
  BY <1>1, OrderCovers
<1> HIDE DEF groups, count
<1>7. Cardinality(Range(groups)) = Min({3, count})
  BY <1>5, DistinctRange
<1>8. ASSUME Center # Zero,
             NEW id \in contacts, \A g \in Range(groups) : id \notin Range(g),
             isMatch(id, Hostile, "FixedWing"),
             InBlock(id, lowestAltitude, highestAltitude),
             Distance(Center, Point(id)) <= DefaultPictureRadius,
             Lone(id), NEW g \in Range(groups)
      PROVE  Rank(g, Center) <= Rank(<<id>>, Center)
  <2>1. id \in ids
    BY <1>8 DEF Nearby, lowestAltitude, PictureOrigin
  <2>2. DOMAIN groups = 1 .. Len(groups)
    BY <1>5
  <2>3. ~InSome(id, groups)
    BY <1>8, <2>2 DEF InSome, Range
  <2>4. PICK x \in contacts :
           /\ id \in Range(findGroupForAircraft(x, order))
           /\ \A k \in 1 .. Len(groups) :
                Rank(groups[k], Center) <= Rank(findGroupForAircraft(x, order), Center)
    BY <1>5, <2>1, <2>3
  <2>5. findGroupForAircraft(x, order) = <<id>>
    BY <1>1, <1>6, <1>8, <2>4, LoneGroup
  <2>6. PICK k \in 1 .. Len(groups) : g = groups[k]
    BY <2>2 DEF Range
  <2> QED
    BY <2>4, <2>5, <2>6
<1> HIDE DEF call, ids
\* Nothing the ranks depend on has changed.
<1>9. \A grp : Rank(grp, Center)' = Rank(grp, Center)
  BY <1>4 DEF Rank, category, Known, Data, IsThreat, isFighter, HasTag, threatRadius,
              ThreatRadius, SAR2AR1Threat, SAR1IRThreat, NM, Distance, point, Point
<1>10. PictureInv'
  <2> SUFFICES ASSUME Center # Zero
               PROVE  PictureFirst'
    BY DEF PictureInv
  <2>1. PictureOrigin(Center, Bullseye[Hostile])' = Center
    BY DEF PictureOrigin
  <2> QED
    BY <2>1, <1>3, <1>4, <1>7, <1>8, <1>9
       DEF PictureFirst, isMatch, isValidTrack, InBlock, Known, Data, Point, Lone, Distance
<1>11. Accounted' /\ NearestReported' /\ ThreatTaken'
  BY <1>1, <1>3, <1>4 DEF Accounted, NearestReported, Reported, ThreatTaken
<1> QED
  BY <1>2, <1>3, <1>10, <1>11, Answer DEF call, groups, count

----------------------------------------------------------------------------
(* DECLARE and SNAPLOCK *)

LEMMA Sides == Hostile # Coalition /\ Opposite(Hostile) = Coalition
BY RequestsAssumption DEF Hostile, Opposite

\* What is found of a coalition in a volume.
LEMMA GroupsInVolume ==
    ASSUME WorldTypeOK, NEW v, NEW coalition, NEW order \in Orders
    PROVE  LET r == GroupsIn(v, coalition, order)
           IN  /\ r \in Seq(Seq(contacts))
               /\ \A k \in 1 .. Len(r) : \A id \in Range(r[k]) :
                    track[id].coalition = coalition
               /\ \A id \in contacts \ {me} :
                    /\ track[id].coalition = coalition
                    /\ isValidTrack(id)
                    /\ Distance(v.interest, Point(id)) <= v.radius
                    /\ InBlock(id, v.low, v.high)
                    => r # <<>>
<1> DEFINE r == GroupsIn(v, coalition, order)
           ids == Nearby(v.interest, v.low, v.high, v.radius, coalition, "Aircraft", {me})
<1>1. order \in Seq(contacts)
  BY OrderCovers
<1>2. /\ r \in Seq(Seq(contacts))
      /\ GroupsStartedBy(r, ids, order)
      /\ \A id \in ids : InSome(id, r)
  BY NearbyGroups DEF GroupsIn
<1>3. \A id \in ids : track[id].coalition = coalition
  BY DEF Nearby, isMatch
<1>4. ASSUME NEW id \in contacts \ {me}, track[id].coalition = coalition, isValidTrack(id),
             Distance(v.interest, Point(id)) <= v.radius, InBlock(id, v.low, v.high)
      PROVE  id \in ids
  BY <1>4 DEF Nearby, isMatch
<1> HIDE DEF r, ids
<1>5. \A k \in 1 .. Len(r) : \A id \in Range(r[k]) : track[id].coalition = coalition
  <2> SUFFICES ASSUME NEW k \in 1 .. Len(r)
               PROVE  \A id \in Range(r[k]) : track[id].coalition = coalition
    OBVIOUS
  <2>1. \E x \in ids : \A id \in Range(r[k]) : track[id].coalition = track[x].coalition
    <3>1. GroupsStartedBy(r, ids, order)
      BY <1>2
    <3> QED
      BY <1>1, <3>1, GroupsOfCoalition
  <2> QED
    BY <1>3, <2>1
<1>6. \A id : InSome(id, r) => r # <<>>
  BY DEF InSome
<1> QED
  BY <1>2, <1>4, <1>5, <1>6 DEF r

LEMMA FirstSide ==
    ASSUME Inv, SearchFriendly
    PROVE  Inv'
<1>1. /\ stage = "search" /\ WorldTypeOK /\ me \in DOMAIN track /\ Point(me) # Zero
      /\ track[me].coalition = Coalition /\ answer = Nil
  BY DEF Inv, TypeOK, SpeakerOK, WorldOK, SearchFriendly, Searches
<1>2. /\ contacts' = contacts /\ track' = track /\ merged' = merged /\ stirred' = stirred /\ UNCHANGED world
      /\ me' = me /\ answer' = answer /\ stage' = "compare"
  BY DEF SearchFriendly, world
<1>3. PICK order \in Orders : found' = GroupsIn(volume', Coalition, order)
  BY DEF SearchFriendly
<1> DEFINE v == volume'
<1>4. DOMAIN v = {"origin", "interest", "radius", "low", "high"}
  BY DEF SearchFriendly, DeclareVolume, SnaplockVolume, VolumeOf
<1> HIDE DEF v
<1> DEFINE r == GroupsIn(v, Coalition, order)
<1>5. /\ r \in Seq(Seq(contacts))
      /\ \A k \in 1 .. Len(r) : \A id \in Range(r[k]) : track[id].coalition = Coalition
      /\ \A id \in contacts \ {me} :
           /\ track[id].coalition = Coalition
           /\ isValidTrack(id)
           /\ Distance(v.interest, Point(id)) <= v.radius
           /\ InBlock(id, v.low, v.high)
           => r # <<>>
  BY <1>1, GroupsInVolume
<1>6. found' = r
  BY <1>3 DEF v
<1> HIDE DEF r
<1>7. r \in Seq(Seq(DOMAIN track))
  <2>1. contacts \subseteq DOMAIN track
    BY <1>1 DEF WorldTypeOK
  <2>2. Seq(contacts) \subseteq Seq(DOMAIN track)
    BY <2>1, SeqMonotonic
  <2>3. Seq(Seq(contacts)) \subseteq Seq(Seq(DOMAIN track))
    BY <2>2, SeqMonotonic
  <2> QED
    BY <1>5, <2>3
<1>8. FoundOK'
  BY <1>2, <1>5, <1>6, <1>7
     DEF FoundOK, Steady, InVolume, isValidTrack, Point, InBlock, Distance, v
<1>9. TypeOK' /\ SpeakerOK' /\ VolumeOK' /\ ReceiversOK' /\ CallsignsGathered'
  BY <1>1, <1>2, <1>4 DEF Inv, TypeOK, Stages, SpeakerOK, VolumeOK, ReceiversOK,
                          CallsignsGathered, Point, v
<1>10. Accounted' /\ NearestReported' /\ PictureInv' /\ ThreatTaken'
  BY <1>2 DEF Accounted, NearestReported, Reported, PictureInv, PictureFirst, ThreatTaken
<1> QED
  BY <1>2, <1>8, <1>9, <1>10, QuietStep

\* The second look and the answer: group is one of those found, or none.
LEMMA SecondSide ==
    ASSUME Inv, stage = "compare", request.kind \in {"declare", "snaplock"},
           NEW order \in Orders, NEW hostile, hostile = GroupsIn(volume, Hostile, order),
           NEW group, SendDeclaration(hostile, group),
           \/ group = <<>>
           \/ hostile = <<>> /\ found # <<>> /\ group = found[1]
           \/ \E k \in 1 .. Len(hostile) : group = hostile[k]
    PROVE  Inv'
<1> DEFINE declaration == Declaration(found, hostile)
           fields == [declaration |-> declaration, group |-> group]
           call == Response(fields)
<1>1. Send(call) /\ me' = me /\ found' = found
  BY DEF SendDeclaration
<1>2. /\ "call" \in DOMAIN call /\ call.call \in {"declare", "snaplock"}
      /\ call.declaration = declaration /\ call.group = group
  BY ResponseFields
<1> HIDE DEF call
<1>3. /\ contacts' = contacts /\ track' = track /\ stirred' = stirred
      /\ volume' = volume /\ answer' = call /\ stage' = "answered"
  BY <1>1 DEF Send, world
<1>4. /\ WorldTypeOK /\ track[me].coalition = Coalition
      /\ found \in Seq(Seq(DOMAIN track))
      /\ \A k \in 1 .. Len(found) : \A id \in Range(found[k]) :
           track[id].coalition = Coalition
      /\ \A id \in Steady(Coalition) \ {me} : InVolume(id) => found # <<>>
  BY DEF Inv, WorldOK, SpeakerOK, FoundOK
<1>5. /\ hostile \in Seq(Seq(contacts))
      /\ \A k \in 1 .. Len(hostile) : \A id \in Range(hostile[k]) :
           track[id].coalition = Hostile
      /\ \A id \in contacts \ {me} :
           /\ track[id].coalition = Hostile
           /\ isValidTrack(id)
           /\ Distance(volume.interest, Point(id)) <= volume.radius
           /\ InBlock(id, volume.low, volume.high)
           => hostile # <<>>
  BY <1>4, GroupsInVolume
<1>6. \A id \in Steady(Hostile) : InVolume(id) => hostile # <<>>
  BY <1>4, <1>5, Sides DEF Steady, InVolume
<1>7. /\ found # <<>> => declaration \in {"friendly", "furball"}
      /\ hostile # <<>> => declaration \in {"hostile", "furball"}
      /\ declaration = "friendly" <=> found # <<>> /\ hostile = <<>>
  BY DEF Declaration
<1>8. ASSUME NEW id \in Range(group)
      PROVE  track[id].coalition = IF declaration = "friendly" THEN Coalition ELSE Hostile
  <2>1. group # <<>>
    BY <1>8 DEF Range
  <2>2. CASE hostile = <<>> /\ found # <<>> /\ group = found[1]
    <3>1. 1 \in 1 .. Len(found)
      BY <1>4, <2>2
    <3>2. track[id].coalition = Coalition
      BY <1>4, <1>8, <2>2, <3>1
    <3> QED
      BY <1>7, <2>2, <3>2
  <2>3. CASE \E k \in 1 .. Len(hostile) : group = hostile[k]
    <3>1. PICK k \in 1 .. Len(hostile) : group = hostile[k]
      BY <2>3
    <3>2. hostile # <<>>
      BY <3>1
    <3>3. track[id].coalition = Hostile
      BY <1>5, <1>8, <3>1
    <3> QED
      BY <1>7, <3>2, <3>3
  <2> QED
    BY <2>1, <2>2, <2>3
<1> HIDE DEF declaration
<1>9. Accounted'
  <2>1. /\ Steady(Coalition)' = Steady(Coalition)
        /\ Steady(Hostile)' = Steady(Hostile)
    BY <1>3 DEF Steady, Hostile, Opposite
  <2>2. \A id : InVolume(id)' <=> InVolume(id)
    BY <1>3 DEF InVolume, isValidTrack, Point, InBlock, Distance
  <2>3. \A id \in Steady(Coalition) \ {me} :
           InVolume(id) => call.declaration \in {"friendly", "furball"}
    BY <1>2, <1>4, <1>7
  <2>4. \A id \in Steady(Hostile) :
           InVolume(id) => call.declaration \in {"hostile", "furball"}
    BY <1>2, <1>6, <1>7
  <2>5. \A id \in Range(call.group) :
           track[id].coalition =
             IF call.declaration \in {"friendly"} THEN Coalition ELSE Hostile
    BY <1>2, <1>8
  <2> QED
    BY <1>1, <1>3, <2>1, <2>2, <2>3, <2>4, <2>5 DEF Accounted, Declares, Hostile, Opposite
<1>10. NearestReported' /\ PictureInv' /\ ThreatTaken'
  BY <1>2, <1>3 DEF NearestReported, Reported, PictureInv, PictureFirst, ThreatTaken
<1> QED
  BY <1>1, <1>2, <1>9, <1>10, Answer

LEMMA SelectType ==
    ASSUME NEW S, NEW s \in Seq(S), NEW Test(_)
    PROVE  SelectInSeq(s, Test) \in 0 .. Len(s)
<1> DEFINE I == {i \in 1 .. Len(s) : Test(s[i])}
<1>1. I # {} => Min(I) \in I
  <2> SUFFICES ASSUME I # {}
               PROVE  Min(I) \in I
    OBVIOUS
  <2>1. I \in SUBSET Nat
    OBVIOUS
  <2> HIDE DEF I
  <2>2. \E m \in I : \A n \in I : m <= n
    BY <2>1, Least
  <2> QED
    BY <2>2 DEF Min
<1>2. SelectInSeq(s, Test) = IF I # {} THEN Min(I) ELSE 0
  BY DEF SelectInSeq
<1> QED
  BY <1>1, <1>2

LEMMA Declaring ==
    ASSUME Inv, HandleDeclare \/ HandleSnaplock
    PROVE  Inv'
<1>1. stage = "compare" /\ request.kind \in {"declare", "snaplock"} /\ WorldTypeOK
  BY DEF Inv, WorldOK, HandleDeclare, HandleSnaplock, Compares
<1>2. ASSUME NEW order \in Orders
      PROVE  GroupsIn(volume, Hostile, order) \in Seq(Seq(contacts))
  BY <1>1, GroupsInVolume
<1>3. CASE HandleDeclare
  <2>1. PICK order \in Orders :
           LET hostile == GroupsIn(volume, Hostile, order)
           IN  SendDeclaration(hostile,
                 CASE hostile # <<>> /\ (found = <<>> \/ Len(hostile) = 1) -> hostile[1]
                   [] hostile = <<>> /\ found # <<>> -> found[1]
                   [] OTHER -> <<>>)
    BY <1>3 DEF HandleDeclare
  <2> DEFINE hostile == GroupsIn(volume, Hostile, order)
  <2>2. hostile \in Seq(Seq(contacts))
    BY <1>2
  <2>3. PICK group : SendDeclaration(hostile, group)
                  /\ group = (CASE hostile # <<>> /\ (found = <<>> \/ Len(hostile) = 1) -> hostile[1]
                                [] hostile = <<>> /\ found # <<>> -> found[1]
                                [] OTHER -> <<>>)
    BY <2>1
  <2> HIDE DEF hostile
  <2>4. hostile # <<>> => 1 \in 1 .. Len(hostile)
    BY <2>2
  <2>5. \/ group = <<>>
        \/ hostile = <<>> /\ found # <<>> /\ group = found[1]
        \/ \E k \in 1 .. Len(hostile) : group = hostile[k]
    BY <2>3, <2>4
  <2> QED
    BY <1>1, <2>3, <2>5, SecondSide DEF hostile
<1>4. CASE HandleSnaplock
  <2>1. PICK order \in Orders :
           LET hostile == GroupsIn(volume, Hostile, order)
               hot == SelectInSeq(hostile, LAMBDA g : IsHot(g, volume.origin))
           IN  SendDeclaration(hostile,
                 CASE hostile # <<>> /\ found = <<>> -> hostile[IF hot > 0 THEN hot ELSE 1]
                   [] hostile = <<>> /\ found # <<>> -> found[1]
                   [] OTHER -> <<>>)
    BY <1>4 DEF HandleSnaplock
  <2> DEFINE hostile == GroupsIn(volume, Hostile, order)
             hot == SelectInSeq(hostile, LAMBDA g : IsHot(g, volume.origin))
  <2>2. hostile \in Seq(Seq(contacts))
    BY <1>2
  <2>3. hot \in 0 .. Len(hostile)
    <3> HIDE DEF hostile
    <3> QED
      BY <2>2, SelectType
  <2>4. PICK group : SendDeclaration(hostile, group)
                  /\ group = (CASE hostile # <<>> /\ found = <<>> -> hostile[IF hot > 0 THEN hot ELSE 1]
                                [] hostile = <<>> /\ found # <<>> -> found[1]
                                [] OTHER -> <<>>)
    BY <2>1
  <2> HIDE DEF hostile, hot
  <2>5. hostile # <<>> => (IF hot > 0 THEN hot ELSE 1) \in 1 .. Len(hostile)
    BY <2>2, <2>3
  <2>6. \/ group = <<>>
        \/ hostile = <<>> /\ found # <<>> /\ group = found[1]
        \/ \E k \in 1 .. Len(hostile) : group = hostile[k]
    BY <2>4, <2>5
  <2> QED
    BY <1>1, <2>4, <2>6, SecondSide DEF hostile
<1> QED
  BY <1>3, <1>4

----------------------------------------------------------------------------
(* THREAT *)

LEMMA Threat ==
    ASSUME Inv, BroadcastThreats
    PROVE  Inv'
<1>1. /\ stage = "threat" /\ WorldTypeOK /\ answer = Nil
      /\ UNCHANGED <<world, me, answer>>
  BY DEF Inv, TypeOK, WorldOK, BroadcastThreats
<1>2. contacts' = contacts /\ track' = track /\ merged' = merged /\ stirred' = stirred /\ answer' = Nil
  BY <1>1 DEF world
<1>3. PICK order \in Orders :
         LET threats == Threats(Hostile, OnFrequency, order)
         IN  IF threats = {} THEN stage' = "ignored" /\ UNCHANGED <<found, volume>>
             ELSE \E t \in threats :
                    /\ found' = t.receivers
                    /\ volume' = [group |-> Range(t.group),
                                  origin |-> BRAAOrigin(t.group, t.receivers)]
                    /\ stage' = "gather"
  BY DEF BroadcastThreats
<1>4. CASE Threats(Hostile, OnFrequency, order) = {}
  BY <1>1, <1>3, <1>4, OnTheWay
<1>5. CASE Threats(Hostile, OnFrequency, order) # {}
  <2> DEFINE groups == enumerateGroups(Hostile, order)
  <2>1. PICK g \in Range(groups) :
           /\ Receivers(g, OnFrequency, order) # <<>>
           /\ found' = Receivers(g, OnFrequency, order)
           /\ volume' = [group |-> Range(g),
                         origin |-> BRAAOrigin(g, Receivers(g, OnFrequency, order))]
           /\ stage' = "gather"
    BY <1>3, <1>5 DEF Threats
  <2> DEFINE r == Receivers(g, OnFrequency, order)
             ids == {id \in contacts : track[id].coalition = Hostile /\ isValidTrack(id)}
  <2>2. order \in Seq(contacts)
    BY <1>1, OrderCovers
  <2>3. groups = GroupsOf(ids, order)
    BY DEF enumerateGroups
  <2> HIDE DEF ids, groups, r
  <2>4. groups \in Seq(Seq(contacts)) /\ GroupsStartedBy(groups, ids, order)
    BY <2>2, <2>3, GroupsCover
  <2>5. g \in Seq(contacts) /\ g # <<>> /\ track[g[1]].coalition = Hostile
    <3>1. PICK k \in 1 .. Len(groups) : g = groups[k]
      BY <2>4 DEF Range
    <3>2. /\ g \in Seq(contacts) /\ g # <<>>
          /\ \E x \in ids : \A id \in Range(g) : track[id].coalition = track[x].coalition
      BY <2>2, <2>4, <3>1, GroupsOfCoalition
    <3>3. g[1] \in Range(g)
      BY <3>2 DEF Range
    <3>4. \A x \in ids : track[x].coalition = Hostile
      BY DEF ids
    <3> QED
      BY <3>2, <3>3, <3>4
  <2>6. /\ r \in Seq(contacts) /\ r # <<>>
        /\ \A id \in Range(r) : track[id].coalition = Coalition
    BY <1>1, <2>1, <2>5, ReceiversFriendly, Sides DEF r
  <2>7. g \in Seq(DOMAIN track) /\ r \in Seq(DOMAIN track)
    <3>1. contacts \subseteq DOMAIN track
      BY <1>1 DEF WorldTypeOK
    <3> QED
      BY <2>5, <2>6, <3>1, SeqMonotonic
  <2>8. found' = r /\ stage' = "gather"
    BY <2>1 DEF r
  <2>10. ReceiversOK'
    <3>1. Range(r) \subseteq contacts /\ Range(r) \subseteq DOMAIN track
      BY <2>6, <2>7 DEF Range
    <3> QED
      BY <1>2, <2>6, <2>8, <3>1 DEF ReceiversOK
  <2>11. TypeOK' /\ SpeakerOK' /\ VolumeOK' /\ FoundOK' /\ CallsignsGathered'
    BY <1>1, <1>2, <2>8 DEF Inv, TypeOK, Stages, SpeakerOK, VolumeOK, FoundOK,
                            CallsignsGathered
  <2>12. Accounted' /\ NearestReported' /\ PictureInv' /\ ThreatTaken'
    BY <2>8 DEF Accounted, NearestReported, Reported, PictureInv, PictureFirst, ThreatTaken
  <2> QED
    BY <1>1, <2>10, <2>11, <2>12, QuietStep
<1> QED
  BY <1>4, <1>5

\* The names of finitely many contacts are finitely many.
LEMMA NamesFinite ==
    ASSUME NEW ids, IsFiniteSet(ids)
    PROVE  IsFiniteSet({track[id].name : id \in ids})
<1> DEFINE f == [id \in ids |-> track[id].name]
<1>1. f \in Surjection(ids, {track[id].name : id \in ids})
  BY DEF Surjection
<1> QED
  BY <1>1, FS_Surjection

LEMMA Gathering ==
    ASSUME Inv, GatherCallsigns
    PROVE  Inv'
<1> DEFINE there == {i \in Range(found) \cap contacts :
                       ~isGroupMergedWithFriendly(volume.group, i)}
<1>1. /\ stage = "gather" /\ UNCHANGED <<world, volume, found, answer>>
      /\ \/ stage' = "ignored"
         \/ stage' = "collate" /\ me' = {track[id].name : id \in there}
  BY DEF GatherCallsigns, Gather
<1>2. CASE stage' = "ignored"
  BY <1>1, <1>2, OnTheWay
<1>3. CASE stage' = "collate"
  <2>1. me' = {track[id].name : id \in there}
    BY <1>1, <1>3
  <2>2. /\ contacts' = contacts /\ track' = track /\ stirred' = stirred /\ found' = found
        /\ answer' = answer /\ merged' = merged /\ volume' = volume
    BY <1>1 DEF world
  <2>3. IsFiniteSet(me')
    <3>1. IsFiniteSet(contacts) /\ there \in SUBSET contacts
      BY DEF Inv, WorldOK, WorldTypeOK
    <3>2. IsFiniteSet(there)
      BY <3>1, FS_Subset
    <3> HIDE DEF there
    <3> QED
      BY <2>1, <3>2, NamesFinite
  <2>4. ReceiversOK' /\ Range(found) \ stirred \subseteq contacts
    BY <1>1, <2>2 DEF Inv, ReceiversOK
  <2>5. CallsignsGathered'
    <3>1. Endangered' = Endangered
      BY <2>2 DEF Endangered, isGroupMergedWithFriendly
    <3>2. there \subseteq Endangered /\ Endangered \ stirred \subseteq there
      BY <2>4 DEF Endangered
    <3> HIDE DEF there
    <3> QED
      BY <2>1, <2>2, <2>3, <3>1, <3>2 DEF CallsignsGathered
  <2>6. TypeOK' /\ SpeakerOK' /\ VolumeOK' /\ FoundOK'
    BY <1>1, <1>3, <2>2 DEF Inv, TypeOK, Stages, Done, SpeakerOK, VolumeOK, FoundOK
  <2>7. Accounted' /\ NearestReported' /\ PictureInv' /\ ThreatTaken'
    BY <1>3 DEF Accounted, NearestReported, Reported, PictureInv, PictureFirst, ThreatTaken
  <2> QED
    BY <1>1, <2>4, <2>5, <2>6, <2>7, QuietStep
<1> QED
  BY <1>1, <1>2, <1>3

LEMMA Calling ==
    ASSUME Inv, BroadcastThreat
    PROVE  Inv'
<1> DEFINE to == collateCallsigns(me, FriendlyCallsigns)
           call == [call |-> "threat", to |-> to, origin |-> volume.origin]
           endangered == {track[id].name : id \in Endangered \ stirred}
<1>1. stage = "collate" /\ Send(call) /\ found' = found
  BY DEF BroadcastThreat
<1>2. "call" \in DOMAIN call /\ call.call = "threat" /\ call.to = to
  OBVIOUS
<1> HIDE DEF call, to
<1>3. /\ contacts' = contacts /\ track' = track /\ stirred' = stirred
      /\ answer' = call /\ stage' = "answered" /\ merged' = merged /\ volume' = volume
  BY <1>1 DEF Send, world
<1>4. /\ IsFiniteSet(me)
      /\ me \subseteq {track[id].name : id \in Endangered}
      /\ endangered \subseteq me
      /\ \A id \in Range(found) : id \in DOMAIN track /\ track[id].coalition = Coalition
      /\ Range(found) \ stirred \subseteq contacts
      /\ Endangered \subseteq Range(found)
  BY <1>1 DEF Inv, CallsignsGathered, ReceiversOK, Endangered
<1>5. IsFiniteSet(FriendlyCallsigns)
  <2> DEFINE friends == {i \in contacts : track[i].coalition = Coalition}
  <2>1. IsFiniteSet(contacts) /\ friends \in SUBSET contacts
    BY DEF Inv, WorldOK, WorldTypeOK
  <2>2. IsFiniteSet(friends)
    BY <2>1, FS_Subset
  <2>3. FriendlyCallsigns = {track[id].name : id \in friends}
    BY DEF FriendlyCallsigns
  <2> HIDE DEF friends
  <2> QED
    BY <2>2, <2>3, NamesFinite
<1>6. CallsignsOK(me)
  BY <1>4 DEF Inv, WorldOK, CallsignsOK
<1>7. endangered \subseteq FriendlyCallsigns
  BY <1>4 DEF FriendlyCallsigns
<1> DEFINE taken == Takes(to, FriendlyCallsigns)
<1>8. taken \subseteq me /\ me \cap FriendlyCallsigns \subseteq taken
  BY <1>4, <1>5, <1>6, CollatedCallTaken DEF to
<1>9. ThreatTaken'
  <2>1. taken \subseteq {track[id].name : id \in Endangered} /\ endangered \subseteq taken
    BY <1>4, <1>7, <1>8
  <2>2. FriendlyCallsigns' = FriendlyCallsigns /\ answer'.to = to
    BY <1>2, <1>3 DEF FriendlyCallsigns
  <2>3. Takes(answer.to, FriendlyCallsigns)' = taken
    BY <2>2 DEF Takes, FlightOf
  <2>4. Endangered' = Endangered
    BY <1>1, <1>3 DEF Endangered, isGroupMergedWithFriendly
  <2> HIDE DEF taken
  <2> QED
    BY <1>3, <2>1, <2>3, <2>4 DEF ThreatTaken
<1>10. Accounted' /\ NearestReported' /\ PictureInv'
  BY <1>2, <1>3 DEF Accounted, NearestReported, Reported, PictureInv, PictureFirst
<1> QED
  BY <1>1, <1>2, <1>9, <1>10, Answer

----------------------------------------------------------------------------
(* The theorems *)

LEMMA InvStep == ASSUME Inv, [Next]_vars PROVE Inv'
<1>1. CASE UNCHANGED vars
  <2>1. /\ contacts' = contacts /\ track' = track /\ stage' = stage /\ me' = me
        /\ request' = request /\ volume' = volume /\ found' = found /\ answer' = answer
        /\ stirred' = stirred /\ merged' = merged
    BY <1>1 DEF vars
  <2>2. TypeOK' /\ SpeakerOK' /\ VolumeOK' /\ ReceiversOK' /\ CallsignsGathered'
    <3>1. Endangered' = Endangered
      BY <2>1 DEF Endangered, isGroupMergedWithFriendly
    <3> QED
      BY <2>1, <3>1 DEF Inv, TypeOK, SpeakerOK, VolumeOK, ReceiversOK, CallsignsGathered,
                        Point
  <2>3. FoundOK'
    BY <2>1 DEF Inv, FoundOK, Steady, InVolume, isValidTrack, Point, InBlock, Distance
  <2>4. Accounted'
    BY <2>1 DEF Inv, Accounted, Steady, InVolume, Declares, Hostile, Opposite,
                isValidTrack, Point, InBlock, Distance
  <2>5. NearestReported'
    BY <2>1 DEF Inv, NearestReported, Reported, NoneNearer, Steady, Hostile, Opposite,
                isMatch, Known, Data, isValidTrack, Point, InBlock, Distance, NM,
                lowestAltitude, highestAltitude
  <2>6. PictureInv'
    <3> SUFFICES ASSUME Center # Zero
                 PROVE  PictureFirst'
      BY DEF PictureInv
    <3> DEFINE anchor == PictureOrigin(Center, Bullseye[Hostile])
    <3>0. anchor = Center /\ anchor' = Center
      BY DEF PictureOrigin
    <3>1. \A grp : Rank(grp, Center)' = Rank(grp, Center)
      BY <2>1 DEF Rank, category, Known, Data, IsThreat, isFighter, HasTag, threatRadius,
                  ThreatRadius, SAR2AR1Threat, SAR1IRThreat, NM, Distance, point, Point
    <3>2. \A id : Lone(id)' <=> Lone(id)
      BY <2>1 DEF Lone, Distance, Point, NM
    <3>3. \A id : isMatch(id, Hostile, "FixedWing")' <=> isMatch(id, Hostile, "FixedWing")
      BY <2>1 DEF isMatch, Known, Data, isValidTrack, Point, Hostile, Opposite
    <3> QED
      BY <2>1, <3>0, <3>1, <3>2, <3>3
         DEF Inv, PictureInv, PictureFirst, InBlock, Point, Distance, lowestAltitude, highestAltitude,
             DefaultPictureRadius, NM
  <2>7. ThreatTaken'
    <3>1. FriendlyCallsigns' = FriendlyCallsigns
      BY <2>1 DEF FriendlyCallsigns
    <3>2. Takes(answer.to, FriendlyCallsigns)' = Takes(answer.to, FriendlyCallsigns)
      BY <2>1, <3>1 DEF Takes, FlightOf
    <3>3. Endangered' = Endangered
      BY <2>1 DEF Endangered, isGroupMergedWithFriendly
    <3> QED
      BY <2>1, <3>2, <3>3 DEF Inv, ThreatTaken
  <2> QED
    BY <2>1, <2>2, <2>3, <2>4, <2>5, <2>6, <2>7, QuietStep DEF world
<1>2. CASE ParseText
  <2>1. /\ UNCHANGED <<world, volume, answer>> /\ stage = "heard"
        /\ stage' \in {"handle", "ignored"}
    BY <1>2 DEF ParseText
  <2> QED
    BY <2>1, OnTheWay DEF Inv, VolumeOK
<1>3. CASE WorldNext
  BY <1>3, WorldStep DEF WorldNext
<1>4. CASE HandleUnableToUnderstand \/ HandleRadioCheck \/ HandleCheckIn \/ HandleTripwire
           \/ HandleShopping \/ HandleAlphaCheck
  BY <1>4, AtOnce
<1>5. CASE HandleSpiked \/ HandleStrobe \/ HandleVector \/ HandleTankerVector \/ HandleSour
  BY <1>5, PlainSearch
<1> QED
  BY <1>1, <1>2, <1>3, <1>4, <1>5, Speaker, Bogey, PictureAnswer, FirstSide, Declaring,
     Threat, Gathering, Calling
     DEF Next, HandleNext, Finished

LEMMA Invariance == Spec => []Inv
<1>1. Init => Inv
  BY InvInit
<1>2. Inv /\ [Next]_vars => Inv'
  BY InvStep
<1> QED
  BY <1>1, <1>2, PTL DEF Spec

\* An exchange is well-formed at each stage: whoever is asked for a range or a
\* bearing has a position, and there is an answer exactly if one was sent.
THEOREM ExchangeWellFormed == Spec => []TypeOK
<1>1. Inv => TypeOK
  BY DEF Inv
<1> QED
  BY <1>1, Invariance, PTL

\* DECLARE and SNAPLOCK never miss or misname a group that has stayed where they
\* look, however contacts move between the two questions.
THEOREM EverybodyAccounted == Spec => []Accounted
<1>1. Inv => Accounted
  BY DEF Inv
<1> QED
  BY <1>1, Invariance, PTL

\* BOGEY DOPE reports the nearest group.
THEOREM NearestIsReported == Spec => []NearestReported
<1>1. Inv => NearestReported
  BY DEF Inv
<1> QED
  BY <1>1, Invariance, PTL

\* Once the center point is set, PICTURE names the groups that rank highest.
\* Without it the property fails, for groups are found around the bullseye and
\* ranked from elsewhere.
THEOREM HighestFirst ==
    ASSUME Center # Zero
    PROVE  Spec => []PictureFirst
<1>1. Inv => PictureFirst
  BY DEF Inv, PictureInv
<1> QED
  BY <1>1, Invariance, PTL

\* A THREAT call reaches those who are endangered, not merged with the threat
\* and have stayed, and no other friendly, however their flights are shortened.
THEOREM CallsTaken == Spec => []ThreatTaken
<1>1. Inv => ThreatTaken
  BY DEF Inv
<1> QED
  BY <1>1, Invariance, PTL

=============================================================================
