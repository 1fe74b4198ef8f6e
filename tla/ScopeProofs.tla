---------------------------- MODULE ScopeProofs ----------------------------
(***************************************************************************)
(* What the radar's queries compute, for every set of contacts and every   *)
(* order in which they are looked at: loops and recursive calls included.  *)
(*                                                                         *)
(* Induction is by contradiction from the least counterexample, which      *)
(* exists because finite sets are well-founded under inclusion: a theorem  *)
(* about sets, without an operator for the formula that is proved.         *)
(***************************************************************************)
EXTENDS Scope, FiniteSetTheorems, SequenceTheorems, TLAPS

----------------------------------------------------------------------------
(* Induction and recursion *)

\* A set of finite sets has a smallest element.
LEMMA SmallestSubset ==
    ASSUME NEW S, IsFiniteSet(S), NEW T, T # {}, \A t \in T : t \subseteq S
    PROVE  \E t \in T : \A u \in T : u \subseteq t => u = t
<1>1. IsWellFoundedOn(StrictSubsetOrdering(S), FiniteSubsetsOf(S))
  BY FS_StrictSubsetOrderingWellFounded
<1>2. T \subseteq FiniteSubsetsOf(S)
  BY FS_FiniteSubsetsOfFinite
<1>3. \E x \in T : \A y \in T : <<y, x>> \notin StrictSubsetOrdering(S)
  BY <1>1, <1>2, WFMin
<1> QED
  BY <1>3 DEF StrictSubsetOrdering

\* A set of natural numbers has a least element.
LEMMA Least ==
    ASSUME NEW T \in SUBSET Nat, T # {}
    PROVE  \E m \in T : \A n \in T : m <= n
<1>1. PICK k \in T : TRUE
  OBVIOUS
<1>2. IsFiniteSet(1 .. k)
  BY <1>1, FS_Interval
<1> DEFINE U == {1 .. n : n \in {i \in T : i <= k}}
<1>3. U # {} /\ \A t \in U : t \subseteq 1 .. k
  BY <1>1
<1> HIDE DEF U
<1>4. PICK u \in U : \A v \in U : v \subseteq u => v = u
  BY <1>2, <1>3, SmallestSubset
<1>5. PICK m \in T : m <= k /\ u = 1 .. m
  BY <1>4 DEF U
<1>6. ASSUME NEW n \in T, n < m
      PROVE  FALSE
  <2>1. 1 .. n \in U /\ 1 .. n \subseteq u
    BY <1>5, <1>6 DEF U
  <2>2. m \in 1 .. n
    BY <2>1, <1>4, <1>5, <1>6
  <2> QED
    BY <2>2, <1>6
<1> QED
  BY <1>5, <1>6

\* Induction up to a bound.
LEMMA Induction ==
    ASSUME NEW N \in Nat, NEW T, 0 \in T, \A i \in 1 .. N : i - 1 \in T => i \in T
    PROVE  \A i \in 0 .. N : i \in T
<1> DEFINE C == (0 .. N) \ T
<1> SUFFICES ASSUME C # {}
             PROVE  FALSE
  OBVIOUS
<1>1. C \in SUBSET Nat
  OBVIOUS
<1>2. PICK m \in C : \A n \in C : m <= n
  <2> HIDE DEF C
  <2> QED
    BY <1>1, Least
<1>3. m \in 1 .. N /\ m - 1 \in 0 .. N
  BY <1>2
<1> QED
  BY <1>2, <1>3

\* G makes an element of A of an element of A and a number up to N.
StepsWithin(G, A, N) == \A a \in A : \A i \in 1 .. N : G[a][i] \in A

\* A function defined by recursion on 0 .. N exists.
LEMMA Recursion ==
    ASSUME NEW N \in Nat, NEW A, NEW base \in A, NEW G, StepsWithin(G, A, N)
    PROVE  \E f : /\ f[0] = base
                  /\ \A i \in 1 .. N : f[i] \in A /\ f[i] = G[f[i - 1]][i]
<1> DEFINE Good(n, g) == /\ g[0] = base
                         /\ \A i \in 1 .. n : g[i] \in A /\ g[i] = G[g[i - 1]][i]
           T == {n \in 0 .. N : \E g : Good(n, g)}
<1>1. 0 \in T
  <2> DEFINE g == [i \in 0 .. 0 |-> base]
  <2>1. Good(0, g)
    OBVIOUS
  <2> HIDE DEF Good
  <2> QED
    BY <2>1
<1>2. ASSUME NEW n \in 1 .. N, n - 1 \in T
      PROVE  n \in T
  <2>1. PICK g : Good(n - 1, g)
    BY <1>2
  <2> DEFINE h == [i \in 0 .. n |-> IF i = n THEN G[g[n - 1]][n] ELSE g[i]]
  <2>2. g[n - 1] \in A
    BY <2>1
  <2>3. h[0] = base /\ h[n] \in A /\ h[n] = G[h[n - 1]][n]
    BY <2>1, <2>2 DEF StepsWithin
  <2>4. \A i \in 1 .. n : i # n => h[i] \in A /\ h[i] = G[h[i - 1]][i]
    BY <2>1
  <2> HIDE DEF h
  <2>5. Good(n, h)
    BY <2>3, <2>4
  <2> HIDE DEF Good
  <2> QED
    BY <2>5
<1>3. N \in T
  <2> HIDE DEF T
  <2>1. \A i \in 0 .. N : i \in T
    BY <1>1, <1>2, Induction
  <2> QED
    BY <2>1
<1> QED
  BY <1>3

----------------------------------------------------------------------------
(* Loops *)

\* The body of a loop over elements of B keeps a value in A.
StaysWithin(step, A, B) == \A a \in A : \A e \in B : step[a][e] \in A

\* The values after each of the elements of a loop.
LEMMA LoopUnrolled ==
    ASSUME NEW A, NEW B, NEW step, StaysWithin(step, A, B),
           NEW base \in A, NEW seq \in Seq(B)
    PROVE  /\ Turns(step, base, seq)[0] = base
           /\ \A i \in 1 .. Len(seq) :
                Turns(step, base, seq)[i] = step[Turns(step, base, seq)[i - 1]][seq[i]]
<1> DEFINE N == Len(seq)
           G == [a \in A |-> [i \in 1 .. N |-> step[a][seq[i]]]]
           body(f) == [i \in 0 .. N |-> IF i = 0 THEN base ELSE step[f[i - 1]][seq[i]]]
           after == CHOOSE f : f = body(f)
<1>1. N \in Nat /\ \A i \in 1 .. N : seq[i] \in B
  OBVIOUS
<1>2. \A a \in A : \A i \in 1 .. N : G[a][i] = step[a][seq[i]] /\ G[a][i] \in A
  BY <1>1 DEF StaysWithin
<1>3. PICK f : /\ f[0] = base
               /\ \A i \in 1 .. N : f[i] \in A /\ f[i] = G[f[i - 1]][i]
  <2>1. StepsWithin(G, A, N)
    BY <1>2 DEF StepsWithin
  <2>2. N \in Nat
    BY <1>1
  <2> HIDE DEF G, N, body, after
  <2> QED
    BY <2>1, <2>2, Recursion
<1> DEFINE g == [i \in 0 .. N |-> f[i]]
<1>4. g = body(g)
  <2>1. \A i \in 1 .. N : f[i - 1] \in A
    <3> HIDE DEF G, N
    <3>1. \A i \in 1 .. N : i # 1 => i - 1 \in 1 .. N
      BY <1>1
    <3> QED
      BY <1>1, <1>3, <3>1
  <2>2. \A i \in 1 .. N : f[i] = step[f[i - 1]][seq[i]]
    <3> HIDE DEF G, N
    <3> QED
      BY <1>2, <1>3, <2>1
  <2> HIDE DEF N
  <2> QED
    BY <1>1, <1>3, <2>2
<1>5. after = body(after)
  <2> HIDE DEF body, g
  <2> QED
    BY <1>4
<1>6. after[0] = base /\ \A i \in 1 .. N : after[i] = step[after[i - 1]][seq[i]]
  <2> HIDE DEF after, N
  <2>1. \A i \in 0 .. N : after[i] = body(after)[i]
    BY <1>5
  <2> QED
    BY <2>1, <1>1
<1>7. Turns(step, base, seq) = after
  BY DEF Turns
<1> HIDE DEF after
<1> QED
  BY <1>6, <1>7

\* A loop keeps an invariant that may depend on how many elements it has seen:
\* inv[i] is what holds of the value after i of them.
LEMMA LoopInvariant ==
    ASSUME NEW A, NEW B, NEW step, \A a \in A : \A e \in B : step[a][e] \in A,
           NEW base \in A, NEW seq \in Seq(B), NEW inv, base \in inv[0],
           \A i \in 1 .. Len(seq) : \A a \in A :
              a \in inv[i - 1] => step[a][seq[i]] \in inv[i]
    PROVE  Loop(step, base, seq) \in A /\ Loop(step, base, seq) \in inv[Len(seq)]
<1>1. Len(seq) \in Nat /\ \A i \in 1 .. Len(seq) : seq[i] \in B
  OBVIOUS
<1>2. StaysWithin(step, A, B)
  BY DEF StaysWithin
<1> DEFINE f == Turns(step, base, seq)
<1>3. /\ f[0] = base
      /\ \A i \in 1 .. Len(seq) : f[i] = step[f[i - 1]][seq[i]]
      /\ Loop(step, base, seq) = f[Len(seq)]
  BY <1>2, LoopUnrolled DEF Loop
<1> HIDE DEF f
<1> DEFINE T == {i \in 0 .. Len(seq) : f[i] \in A /\ f[i] \in inv[i]}
<1>4. 0 \in T
  BY <1>1, <1>3
<1>5. ASSUME NEW i \in 1 .. Len(seq), i - 1 \in T
      PROVE  i \in T
  <2>1. f[i - 1] \in A /\ f[i - 1] \in inv[i - 1]
    BY <1>5
  <2>2. step[f[i - 1]][seq[i]] \in A
    BY <1>1, <2>1
  <2>3. step[f[i - 1]][seq[i]] \in inv[i]
    BY <2>1
  <2> QED
    BY <1>3, <2>2, <2>3
<1>6. Len(seq) \in T
  <2> HIDE DEF T
  <2>1. \A i \in 0 .. Len(seq) : i \in T
    BY <1>1, <1>4, <1>5, Induction
  <2> QED
    BY <1>1, <2>1
<1> QED
  BY <1>3, <1>6

\* Two loops over the same elements keep what relates their values.
LEMMA LoopsTogether ==
    ASSUME NEW A, NEW B, NEW step, StaysWithin(step, A, B),
           NEW C, NEW other, StaysWithin(other, C, B),
           NEW base \in A, NEW from \in C, NEW seq \in Seq(B),
           NEW R, base \in R[from],
           \A e \in B : \A a \in A : \A c \in C :
              a \in R[c] => step[a][e] \in R[other[c][e]]
    PROVE  /\ Loop(step, base, seq) \in A /\ Loop(other, from, seq) \in C
           /\ Loop(step, base, seq) \in R[Loop(other, from, seq)]
<1>1. Len(seq) \in Nat /\ \A i \in 1 .. Len(seq) : seq[i] \in B
  OBVIOUS
<1> DEFINE f == Turns(step, base, seq)
<1>2. /\ f[0] = base
      /\ \A i \in 1 .. Len(seq) : f[i] = step[f[i - 1]][seq[i]]
      /\ Loop(step, base, seq) = f[Len(seq)]
  BY LoopUnrolled DEF Loop
<1> HIDE DEF f
<1> DEFINE g == Turns(other, from, seq)
<1>3. /\ g[0] = from
      /\ \A i \in 1 .. Len(seq) : g[i] = other[g[i - 1]][seq[i]]
      /\ Loop(other, from, seq) = g[Len(seq)]
  BY LoopUnrolled DEF Loop
<1> HIDE DEF g
<1> DEFINE T == {i \in 0 .. Len(seq) : f[i] \in A /\ g[i] \in C /\ f[i] \in R[g[i]]}
<1>4. 0 \in T
  BY <1>1, <1>2, <1>3
<1>5. ASSUME NEW i \in 1 .. Len(seq), i - 1 \in T
      PROVE  i \in T
  <2>1. f[i - 1] \in A /\ g[i - 1] \in C /\ f[i - 1] \in R[g[i - 1]] /\ seq[i] \in B
    BY <1>1, <1>5
  <2>2. f[i] \in A /\ g[i] \in C /\ f[i] \in R[g[i]]
    BY <1>2, <1>3, <2>1 DEF StaysWithin
  <2> QED
    BY <1>1, <2>2
<1>6. Len(seq) \in T
  <2> HIDE DEF T
  <2>1. \A i \in 0 .. Len(seq) : i \in T
    BY <1>1, <1>4, <1>5, Induction
  <2> QED
    BY <1>1, <2>1
<1> QED
  BY <1>2, <1>3, <1>6

\* A loop over nothing.
LEMMA LoopEmpty ==
    ASSUME NEW A, NEW B, NEW step, StaysWithin(step, A, B), NEW base \in A
    PROVE  Loop(step, base, <<>>) = base
<1> DEFINE none == <<>>
<1>1. none \in Seq(B)
  OBVIOUS
<1>2. Len(none) = 0
  OBVIOUS
<1> HIDE DEF none
<1> DEFINE f == Turns(step, base, none)
<1>3. /\ f[0] = base
      /\ \A i \in 1 .. Len(none) : f[i] = step[f[i - 1]][none[i]]
      /\ Loop(step, base, none) = f[Len(none)]
  BY <1>1, LoopUnrolled DEF Loop
<1> QED
  BY <1>2, <1>3 DEF none

\* One more turn of a loop.
LEMMA LoopAppend ==
    ASSUME NEW A, NEW B, NEW step, StaysWithin(step, A, B),
           NEW base \in A, NEW seq \in Seq(B), NEW x \in B
    PROVE  Loop(step, base, Append(seq, x)) = step[Loop(step, base, seq)][x]
<1>1. /\ Append(seq, x) \in Seq(B) /\ Len(Append(seq, x)) = Len(seq) + 1
      /\ Append(seq, x)[Len(seq) + 1] = x
      /\ \A i \in 1 .. Len(seq) : Append(seq, x)[i] = seq[i]
  OBVIOUS
<1> DEFINE longer == Append(seq, x)
<1> HIDE DEF longer
<1>2. longer \in Seq(B)
  BY <1>1 DEF longer
<1> DEFINE f == Turns(step, base, seq)
<1>3. /\ f[0] = base
      /\ \A i \in 1 .. Len(seq) : f[i] = step[f[i - 1]][seq[i]]
      /\ Loop(step, base, seq) = f[Len(seq)]
  BY LoopUnrolled DEF Loop
<1> HIDE DEF f
<1> DEFINE g == Turns(step, base, longer)
<1>4. /\ g[0] = base
      /\ \A i \in 1 .. Len(longer) : g[i] = step[g[i - 1]][longer[i]]
      /\ Loop(step, base, longer) = g[Len(longer)]
  BY <1>2, LoopUnrolled DEF Loop
<1> HIDE DEF g
<1> DEFINE N == Len(seq)
           T == {i \in 0 .. N : f[i] = g[i]}
<1>5. N \in Nat
  OBVIOUS
<1>6. /\ \A i \in 1 .. N : f[i] = step[f[i - 1]][seq[i]] /\ g[i] = step[g[i - 1]][seq[i]]
      /\ Len(longer) = N + 1
      /\ g[N + 1] = step[g[N]][x]
  <2>1. Len(longer) = N + 1 /\ longer[N + 1] = x /\ \A i \in 1 .. N : longer[i] = seq[i]
    BY <1>1 DEF longer
  <2>2. \A i \in 1 .. N + 1 : g[i] = step[g[i - 1]][longer[i]]
    BY <1>4, <2>1
  <2> HIDE DEF N
  <2>3. g[N + 1] = step[g[N + 1 - 1]][longer[N + 1]] /\ N + 1 - 1 = N
    BY <1>5, <2>2
  <2>4. \A i \in 1 .. N : g[i] = step[g[i - 1]][longer[i]]
    BY <1>5, <2>2
  <2> QED
    BY <1>3, <2>1, <2>3, <2>4 DEF N
<1> HIDE DEF N
<1>7. 0 \in T
  BY <1>3, <1>4, <1>5
<1>8. ASSUME NEW i \in 1 .. N, i - 1 \in T
      PROVE  i \in T
  <2>1. f[i - 1] = g[i - 1]
    BY <1>8
  <2>2. f[i] = g[i]
    BY <1>6, <2>1
  <2> QED
    BY <1>5, <2>2
<1>9. N \in T
  <2> HIDE DEF T
  <2>1. \A i \in 0 .. N : i \in T
    BY <1>5, <1>7, <1>8, Induction
  <2> QED
    BY <1>5, <2>1
<1>10. f[N] = g[N]
  BY <1>9
<1> QED
  BY <1>3, <1>4, <1>6, <1>10 DEF longer, N

\* An invariant that is the same at every turn.
LEMMA LoopKeeps ==
    ASSUME NEW A, NEW B, NEW step, \A a \in A : \A e \in B : step[a][e] \in A,
           NEW base \in A, NEW seq \in Seq(B), NEW I, base \in I,
           \A i \in 1 .. Len(seq) : \A a \in A : a \in I => step[a][seq[i]] \in I
    PROVE  Loop(step, base, seq) \in A /\ Loop(step, base, seq) \in I
<1> DEFINE inv == [i \in 0 .. Len(seq) |-> I]
<1>1. Len(seq) \in Nat
  OBVIOUS
<1>2. base \in inv[0]
  BY <1>1
<1>3. \A i \in 1 .. Len(seq) : \A a \in A :
         a \in inv[i - 1] => step[a][seq[i]] \in inv[i]
  BY <1>1
<1>4. inv[Len(seq)] = I
  BY <1>1
<1> HIDE DEF inv
<1> QED
  BY <1>2, <1>3, <1>4, LoopInvariant

----------------------------------------------------------------------------
(* Sorting *)

\* A set of natural numbers with an upper bound has a maximum.
LEMMA MaxIsGreatest ==
    ASSUME NEW N \in Nat, NEW T \in SUBSET (0 .. N), T # {}
    PROVE  Max(T) \in T /\ \A n \in T : n <= Max(T)
<1> DEFINE U == {N - t : t \in T}
<1>0. \A t \in T : t \in 0 .. N
  OBVIOUS
<1>1. U \in SUBSET Nat /\ U # {}
  <2>1. \A u \in U : u \in Nat
    BY <1>0
  <2>2. PICK t \in T : TRUE
    OBVIOUS
  <2>3. N - t \in U
    BY <2>2
  <2> QED
    BY <2>1, <2>3
<1>2. PICK u \in U : \A v \in U : u <= v
  <2> HIDE DEF U
  <2> QED
    BY <1>1, Least
<1>3. PICK t \in T : u = N - t
  BY <1>2
<1>4. \A n \in T : N - n \in U
  OBVIOUS
<1> HIDE DEF U
<1>5. \A n \in T : t >= n
  BY <1>0, <1>2, <1>3, <1>4
<1> QED
  BY <1>0, <1>5 DEF Max

\* What InsertAt does to each index.
LEMMA InsertAtIndices ==
    ASSUME NEW S, NEW s \in Seq(S), NEW e \in S, NEW k \in 1 .. Len(s) + 1
    PROVE  /\ InsertAt(s, k, e) \in Seq(S)
           /\ Len(InsertAt(s, k, e)) = Len(s) + 1
           /\ \A i \in 1 .. Len(s) + 1 :
                InsertAt(s, k, e)[i] =
                  IF i < k THEN s[i] ELSE IF i = k THEN e ELSE s[i - 1]
<1> DEFINE before == SubSeq(s, 1, k - 1)
           after == SubSeq(s, k, Len(s))
<1>1. Len(s) \in Nat /\ k \in Int /\ <<e>> \in Seq(S) /\ Len(<<e>>) = 1 /\ <<e>>[1] = e
  OBVIOUS
<1>2. /\ before \in Seq(S) /\ Len(before) = k - 1
      /\ \A i \in 1 .. k - 1 : before[i] = s[i]
  BY <1>1, SubSeqProperties
<1>3. /\ after \in Seq(S) /\ Len(after) = Len(s) - k + 1
      /\ \A i \in 1 .. Len(s) - k + 1 : after[i] = s[k + i - 1]
  BY <1>1, SubSeqProperties
<1> HIDE DEF before, after
<1> DEFINE left == before \o <<e>>
<1>4. /\ left \in Seq(S) /\ Len(left) = k
      /\ \A i \in 1 .. k : left[i] = IF i < k THEN s[i] ELSE e
  BY <1>1, <1>2, ConcatProperties
<1> HIDE DEF left
<1>5. /\ left \o after \in Seq(S) /\ Len(left \o after) = Len(s) + 1
      /\ \A i \in 1 .. Len(s) + 1 :
           (left \o after)[i] = IF i <= k THEN left[i] ELSE after[i - k]
  BY <1>1, <1>3, <1>4, ConcatProperties
<1>6. InsertAt(s, k, e) = left \o after
  BY DEF InsertAt, left, before, after
<1> QED
  BY <1>1, <1>3, <1>4, <1>5, <1>6

\* Where an element is inserted: after the last one it does not come before.
Position(sorted, e, before) ==
    1 + Max({0} \cup {i \in DOMAIN sorted : <<e, sorted[i]>> \notin before})

LEMMA PositionOfInsert ==
    ASSUME NEW S, NEW s \in Seq(S), NEW e, NEW before
    PROVE  /\ Position(s, e, before) \in 1 .. Len(s) + 1
           /\ \A i \in 1 .. Len(s) : i >= Position(s, e, before) => <<e, s[i]>> \in before
           /\ Position(s, e, before) > 1 =>
                <<e, s[Position(s, e, before) - 1]>> \notin before
<1> DEFINE T == {0} \cup {i \in DOMAIN s : <<e, s[i]>> \notin before}
<1>1. Len(s) \in Nat /\ DOMAIN s = 1 .. Len(s)
  OBVIOUS
<1>2. T \in SUBSET (0 .. Len(s)) /\ T # {}
  BY <1>1
<1>3. Max(T) \in T /\ \A n \in T : n <= Max(T)
  <2> HIDE DEF T
  <2> QED
    BY <1>1, <1>2, MaxIsGreatest
<1>4. Position(s, e, before) = 1 + Max(T)
  BY DEF Position
<1>5. Max(T) \in 0 .. Len(s)
  BY <1>2, <1>3
<1> DEFINE m == Max(T)
<1>6. m # 0 => <<e, s[m]>> \notin before
  <2> HIDE DEF m
  <2> QED
    BY <1>3 DEF m
<1>7. \A i \in 1 .. Len(s) : i > m => <<e, s[i]>> \in before
  <2> SUFFICES ASSUME NEW i \in 1 .. Len(s), i > m, <<e, s[i]>> \notin before
               PROVE  FALSE
    OBVIOUS
  <2>1. i \in T
    BY <1>1
  <2> HIDE DEF T
  <2> QED
    BY <2>1, <1>1, <1>3, <1>5
<1> HIDE DEF T
<1> QED
  BY <1>1, <1>4, <1>5, <1>6, <1>7

\* Insertion adds the element, and nothing else.
LEMMA InsertAdds ==
    ASSUME NEW S, NEW s \in Seq(S), NEW e \in S, NEW before
    PROVE  /\ Insert(s, e, before) \in Seq(S)
           /\ Len(Insert(s, e, before)) = Len(s) + 1
           /\ Range(Insert(s, e, before)) = Range(s) \cup {e}
<1> DEFINE k == Position(s, e, before)
           r == Insert(s, e, before)
<1>0. Len(s) \in Nat /\ DOMAIN s = 1 .. Len(s)
  OBVIOUS
<1>1. k \in 1 .. Len(s) + 1
  BY PositionOfInsert
<1>2. r = InsertAt(s, k, e)
  BY DEF Insert, Position
<1> HIDE DEF k, r
<1>3. /\ r \in Seq(S) /\ Len(r) = Len(s) + 1
      /\ \A i \in 1 .. Len(s) + 1 :
           r[i] = IF i < k THEN s[i] ELSE IF i = k THEN e ELSE s[i - 1]
  BY <1>1, <1>2, InsertAtIndices, SMTT(30)
<1>4. DOMAIN r = 1 .. Len(s) + 1
  BY <1>0, <1>3
<1>5. \A x \in Range(r) : x \in Range(s) \cup {e}
  <2> TAKE x \in Range(r)
  <2>1. PICK i \in 1 .. Len(s) + 1 : x = r[i]
    BY <1>4 DEF Range
  <2>2. i < k => i \in DOMAIN s
    BY <1>0, <1>1
  <2>3. i > k => i - 1 \in DOMAIN s
    BY <1>0, <1>1
  <2> QED
    BY <1>0, <1>1, <1>3, <2>1, <2>2, <2>3 DEF Range
<1>6. \A x \in Range(s) \cup {e} : x \in Range(r)
  <2>1. k \in DOMAIN r /\ r[k] = e
    BY <1>0, <1>1, <1>3, <1>4
  <2>2. ASSUME NEW i \in DOMAIN s
        PROVE  s[i] \in Range(r)
    <3>1. CASE i < k
      <4>1. i \in DOMAIN r /\ r[i] = s[i]
        BY <1>0, <1>1, <1>3, <1>4, <3>1
      <4> QED
        BY <4>1 DEF Range
    <3>2. CASE i >= k
      <4>1. i + 1 \in DOMAIN r /\ r[i + 1] = s[i]
        BY <1>0, <1>1, <1>3, <1>4, <3>2
      <4> QED
        BY <4>1 DEF Range
    <3> QED
      BY <1>0, <1>1, <3>1, <3>2
  <2> QED
    BY <2>1, <2>2 DEF Range
<1> QED
  BY <1>3, <1>5, <1>6 DEF r

\* Sorting permutes: the elements and their number stay the same.
LEMMA SortFuncKeeps ==
    ASSUME NEW S, NEW seq \in Seq(S), NEW before
    PROVE  /\ SortFunc(seq, before) \in Seq(S)
           /\ Len(SortFunc(seq, before)) = Len(seq)
           /\ Range(SortFunc(seq, before)) = Range(seq)
<1> DEFINE B == Range(seq)
           A == Seq(B)
           step == [sorted \in A |-> [e \in B |-> Insert(sorted, e, before)]]
           inv == [i \in 0 .. Len(seq) |->
                     {s \in A : Len(s) = i /\ Range(s) = {seq[j] : j \in 1 .. i}}]
<1>1. Len(seq) \in Nat /\ DOMAIN seq = 1 .. Len(seq)
  OBVIOUS
<1>2. seq \in Seq(B) /\ B \subseteq S
  BY <1>1 DEF Range
<1>3. \A s \in A : \A e \in B : step[s][e] \in A
  BY InsertAdds
<1>4. <<>> \in A /\ <<>> \in inv[0]
  BY <1>1 DEF Range
<1>5. ASSUME NEW i \in 1 .. Len(seq), NEW s \in A, s \in inv[i - 1]
      PROVE  step[s][seq[i]] \in inv[i]
  <2>1. seq[i] \in B
    BY <1>1 DEF Range
  <2>2. step[s][seq[i]] = Insert(s, seq[i], before)
    BY <2>1
  <2>3. Len(s) = i - 1 /\ Range(s) = {seq[j] : j \in 1 .. i - 1}
    BY <1>1, <1>5
  <2>4. {seq[j] : j \in 1 .. i - 1} \cup {seq[i]} = {seq[j] : j \in 1 .. i}
    BY <1>1
  <2>5. /\ Insert(s, seq[i], before) \in A
        /\ Len(Insert(s, seq[i], before)) = i
        /\ Range(Insert(s, seq[i], before)) = {seq[j] : j \in 1 .. i}
    BY <1>1, <2>1, <2>3, <2>4, InsertAdds
  <2> QED
    BY <1>1, <2>2, <2>5
<1>6. SortFunc(seq, before) = Loop(step, <<>>, seq)
  BY DEF SortFunc
<1>7. Loop(step, <<>>, seq) \in A /\ Loop(step, <<>>, seq) \in inv[Len(seq)]
  <2> HIDE DEF A, B, step, inv
  <2> QED
    BY <1>2, <1>3, <1>4, <1>5, LoopInvariant
<1>8. {seq[j] : j \in 1 .. Len(seq)} = Range(seq)
  BY <1>1 DEF Range
<1> DEFINE r == SortFunc(seq, before)
<1>9. r \in Seq(B) /\ Len(r) = Len(seq) /\ Range(r) = {seq[j] : j \in 1 .. Len(seq)}
  <2> HIDE DEF step, B, r
  <2>1. r \in inv[Len(seq)]
    BY <1>6, <1>7 DEF r
  <2> QED
    BY <1>1, <2>1
<1> HIDE DEF step, inv, B, r
<1>10. r \in Seq(S)
  BY <1>2, <1>9, SeqMonotonic
<1> QED
  BY <1>8, <1>9, <1>10 DEF r

\* The elements s with ranks in ascending order.
Ascending(s, rank) ==
    \A i, j \in 1 .. Len(s) : i < j => rank[s[i]] <= rank[s[j]]

\* Those that come before others have no higher rank.
Refines(before, elements, rank) ==
    \A a, b \in elements : IF <<a, b>> \in before THEN rank[a] <= rank[b]
                           ELSE rank[a] >= rank[b]

LEMMA InsertAscending ==
    ASSUME NEW S, NEW s \in Seq(S), NEW e \in S, NEW before,
           NEW rank, \A x \in S : rank[x] \in Int,
           Refines(before, S, rank), Ascending(s, rank)
    PROVE  Ascending(Insert(s, e, before), rank)
<1> DEFINE k == Position(s, e, before)
           r == Insert(s, e, before)
<1>0. Len(s) \in Nat /\ \A i \in 1 .. Len(s) : s[i] \in S
  OBVIOUS
<1>1. /\ k \in 1 .. Len(s) + 1
      /\ \A i \in 1 .. Len(s) : i >= k => <<e, s[i]>> \in before
      /\ k > 1 => <<e, s[k - 1]>> \notin before
  BY PositionOfInsert
<1>2. r = InsertAt(s, k, e)
  BY DEF Insert, Position
<1> HIDE DEF k, r
<1>3. /\ Len(r) = Len(s) + 1
      /\ \A i \in 1 .. Len(s) + 1 :
           r[i] = IF i < k THEN s[i] ELSE IF i = k THEN e ELSE s[i - 1]
  BY <1>1, <1>2, InsertAtIndices, SMTT(30)
<1>4. \A i \in 1 .. Len(s) : i >= k => rank[e] <= rank[s[i]]
  BY <1>0, <1>1 DEF Refines
<1>5. \A i \in 1 .. Len(s) : i < k => rank[s[i]] <= rank[e]
  <2> SUFFICES ASSUME NEW i \in 1 .. Len(s), i < k
               PROVE  rank[s[i]] <= rank[e]
    OBVIOUS
  <2>1. k - 1 \in 1 .. Len(s)
    BY <1>0, <1>1
  <2>2. rank[s[k - 1]] <= rank[e]
    BY <1>0, <1>1, <2>1 DEF Refines
  <2>3. rank[s[i]] <= rank[s[k - 1]]
    <3>1. i < k - 1 \/ i = k - 1
      BY <1>0, <1>1
    <3>2. rank[s[i]] \in Int
      BY <1>0
    <3> QED
      BY <2>1, <3>1, <3>2 DEF Ascending
  <2>4. rank[s[i]] \in Int /\ rank[s[k - 1]] \in Int /\ rank[e] \in Int
    BY <1>0, <2>1
  <2> QED
    BY <2>2, <2>3, <2>4
<1> SUFFICES ASSUME NEW i \in 1 .. Len(s) + 1, NEW j \in 1 .. Len(s) + 1, i < j
             PROVE  rank[r[i]] <= rank[r[j]]
  BY <1>3 DEF Ascending, r
<1>6. CASE j < k
  <2>1. i \in 1 .. Len(s) /\ j \in 1 .. Len(s) /\ i < k
    BY <1>0, <1>1, <1>6
  <2> QED
    BY <1>3, <1>6, <2>1 DEF Ascending
<1>7. CASE j = k
  <2>1. i \in 1 .. Len(s) /\ i < k
    BY <1>0, <1>1, <1>7
  <2> QED
    BY <1>3, <1>5, <1>7, <2>1
<1>8. CASE j > k /\ i < k
  <2>1. i \in 1 .. Len(s) /\ j - 1 \in 1 .. Len(s) /\ j - 1 >= k
    BY <1>0, <1>1, <1>8
  <2>2. rank[s[i]] <= rank[e] /\ rank[e] <= rank[s[j - 1]]
    BY <1>4, <1>5, <1>8, <2>1
  <2>3. rank[s[i]] \in Int /\ rank[s[j - 1]] \in Int /\ rank[e] \in Int
    BY <1>0, <2>1
  <2>4. r[i] = s[i] /\ r[j] = s[j - 1]
    BY <1>1, <1>3, <1>8
  <2> QED
    BY <2>2, <2>3, <2>4
<1>9. CASE j > k /\ i = k
  <2>1. j - 1 \in 1 .. Len(s) /\ j - 1 >= k
    BY <1>0, <1>1, <1>9
  <2>2. r[i] = e /\ r[j] = s[j - 1]
    BY <1>1, <1>3, <1>9
  <2> QED
    BY <1>4, <2>1, <2>2
<1>10. CASE j > k /\ i > k
  <2>1. i - 1 \in 1 .. Len(s) /\ j - 1 \in 1 .. Len(s) /\ i - 1 < j - 1
    BY <1>0, <1>1, <1>10
  <2>2. r[i] = s[i - 1] /\ r[j] = s[j - 1]
    BY <1>1, <1>3, <1>10
  <2> QED
    BY <2>1, <2>2 DEF Ascending
<1> QED
  BY <1>1, <1>6, <1>7, <1>8, <1>9, <1>10

\* What SortFunc sorts is in ascending order, even if cmp orders no more than
\* the ranks consistently.
LEMMA SortFuncAscending ==
    ASSUME NEW S, NEW seq \in Seq(S), NEW before,
           NEW rank, \A x \in S : rank[x] \in Int,
           Refines(before, Range(seq), rank)
    PROVE  Ascending(SortFunc(seq, before), rank)
<1> DEFINE B == Range(seq)
           A == Seq(B)
           step == [sorted \in A |-> [e \in B |-> Insert(sorted, e, before)]]
           I == {s \in A : Ascending(s, rank)}
<1>1. Len(seq) \in Nat /\ DOMAIN seq = 1 .. Len(seq)
  OBVIOUS
<1>2. seq \in Seq(B) /\ \A i \in 1 .. Len(seq) : seq[i] \in B
  BY <1>1 DEF Range
<1>3. \A x \in B : rank[x] \in Int
  BY <1>1 DEF Range
<1>4. ASSUME NEW s \in A, NEW e \in B
      PROVE  step[s][e] \in A /\ (s \in I => step[s][e] \in I)
  <2>1. step[s][e] = Insert(s, e, before) /\ step[s][e] \in A
    BY InsertAdds
  <2>2. Ascending(s, rank) => Ascending(Insert(s, e, before), rank)
    <3> HIDE DEF B
    <3> QED
      BY <1>3, InsertAscending DEF B
  <2> HIDE DEF step, A
  <2> QED
    BY <2>1, <2>2
<1>5. <<>> \in I
  BY DEF Ascending
<1>6. SortFunc(seq, before) = Loop(step, <<>>, seq)
  BY DEF SortFunc
<1>7. Loop(step, <<>>, seq) \in I
  <2>1. <<>> \in A
    OBVIOUS
  <2> HIDE DEF A, B, I, step
  <2>2. \A s \in A : \A e \in B : step[s][e] \in A
    BY <1>4
  <2>3. \A i \in 1 .. Len(seq) : \A s \in A : s \in I => step[s][seq[i]] \in I
    BY <1>2, <1>4
  <2> QED
    BY <1>2, <1>5, <2>1, <2>2, <2>3, LoopKeeps
<1> QED
  BY <1>6, <1>7

\* No element comes up twice.
Distinct(s) == \A i, k \in 1 .. Len(s) : i # k => s[i] # s[k]

LEMMA DistinctRange ==
    ASSUME NEW S, NEW s \in Seq(S)
    PROVE  /\ IsFiniteSet(Range(s))
           /\ Distinct(s) <=> Cardinality(Range(s)) = Len(s)
<1> DEFINE D == 1 .. Len(s)
<1>1. DOMAIN s = D /\ Len(s) \in Nat
  OBVIOUS
<1>2. IsFiniteSet(D) /\ Cardinality(D) = Len(s)
  BY <1>1, FS_Interval
<1>3. s \in Surjection(D, Range(s))
  BY <1>1 DEF Surjection, Range
<1>4. Distinct(s) <=> s \in Injection(D, Range(s))
  BY <1>1, <1>3 DEF Distinct, Injection, IsInjective, Surjection
<1> HIDE DEF D
<1>5. IsFiniteSet(Range(s)) /\ (Cardinality(Range(s)) = Cardinality(D) <=> s \in Injection(D, Range(s)))
  BY <1>2, <1>3, FS_Surjection
<1> QED
  BY <1>2, <1>4, <1>5

LEMMA SortFuncDistinct ==
    ASSUME NEW S, NEW seq \in Seq(S), Distinct(seq), NEW before
    PROVE  Distinct(SortFunc(seq, before))
<1> DEFINE r == SortFunc(seq, before)
<1>1. r \in Seq(S) /\ Len(r) = Len(seq) /\ Range(r) = Range(seq)
  BY SortFuncKeeps
<1>2. Cardinality(Range(seq)) = Len(seq)
  BY DistinctRange
<1> HIDE DEF r
<1>3. Distinct(r)
  BY <1>1, <1>2, DistinctRange
<1> QED
  BY <1>3 DEF r

----------------------------------------------------------------------------
(* Orders *)

\* The types of what the queries range over.
WorldTypeOK ==
    /\ IsFiniteSet(contacts)
    /\ contacts \subseteq DOMAIN track
    /\ Nil \notin DOMAIN track
    /\ \A id \in DOMAIN track : Point(id) \in Int

\* An order of the contact database is a sequence with all its IDs.
LEMMA OrderCovers ==
    ASSUME WorldTypeOK, NEW order \in Orders
    PROVE  order \in Seq(contacts) /\ Range(order) = contacts
<1> DEFINE D == 1 .. Cardinality(contacts)
<1>1. IsFiniteSet(contacts) /\ Cardinality(contacts) \in Nat
  BY FS_CardinalityType DEF WorldTypeOK
<1>2. /\ order \in [D -> contacts]
      /\ \A i, j \in D : i # j => order[i] # order[j]
  BY DEF Orders, SetToSeqs
<1>3. order \in Seq(contacts)
  BY <1>1, <1>2
<1>4. order \in Injection(D, contacts)
  BY <1>2 DEF Injection, IsInjective
<1>5. Cardinality(D) = Cardinality(contacts)
  BY <1>1, FS_Interval
<1>6. order \in Surjection(D, contacts)
  <2> HIDE DEF D
  <2> QED
    BY <1>1, <1>4, <1>5, FS_Injection
<1>7. \A id \in contacts : \E n \in D : order[n] = id
  BY <1>6 DEF Surjection
<1> QED
  BY <1>2, <1>3, <1>7 DEF Range

\* The elements of a set as a sequence.
LEMMA SetToSeqCovers ==
    ASSUME NEW S, IsFiniteSet(S)
    PROVE  SetToSeq(S) \in Seq(S) /\ Range(SetToSeq(S)) = S
<1> DEFINE n == Cardinality(S)
           D == 1 .. n
<1>1. n \in Nat /\ ExistsBijection(D, S)
  BY FS_CardinalityType
<1>2. IsFiniteSet(D) /\ Cardinality(D) = n
  BY <1>1, FS_Interval
<1>3. \E f \in [D -> S] : IsInjective(f)
  BY <1>1 DEF ExistsBijection, Bijection, Injection
<1>4. SetToSeq(S) \in [D -> S] /\ IsInjective(SetToSeq(S))
  BY <1>3 DEF SetToSeq
<1>5. SetToSeq(S) \in Seq(S)
  BY <1>1, <1>4
<1> HIDE DEF D, n
<1>6. SetToSeq(S) \in Injection(D, S)
  BY <1>4 DEF Injection
<1>7. SetToSeq(S) \in Surjection(D, S)
  BY <1>2, <1>6, FS_Injection DEF n
<1>8. Range(SetToSeq(S)) = S
  BY <1>4, <1>7 DEF Surjection, Range
<1> QED
  BY <1>5, <1>8

----------------------------------------------------------------------------
(* Groups *)

\* other may follow this in a group.
Follows(other, this) ==
    /\ track[other].coalition = track[this].coalition
    /\ isValidTrack(other)
    /\ Distance(Point(other), Point(this)) < 5 * NM

\* The i-th contact of a group is new, and follows an earlier one.
Linked(r, i) ==
    /\ \A j \in 1 .. i - 1 : r[j] # r[i]
    /\ \E j \in 1 .. i - 1 : Follows(r[i], r[j])

\* The group r is grp and then contacts of the coalition of this, each of which
\* is linked if this is in grp.
Grown(this, grp, r) ==
    /\ r \in Seq(contacts)
    /\ Len(grp) <= Len(r)
    /\ \A i \in 1 .. Len(grp) : r[i] = grp[i]
    /\ \A i \in 1 .. Len(r) : i > Len(grp) => track[r[i]].coalition = track[this].coalition
    /\ this \in Range(grp) => \A i \in 1 .. Len(r) : i > Len(grp) => Linked(r, i)

LEMMA GrownStep ==
    ASSUME NEW this \in contacts, NEW grp \in Seq(contacts), NEW g, Grown(this, grp, g),
           NEW other \in contacts, Joins(this, other, g),
           NEW r, Grown(other, Append(g, other), r)
    PROVE  Grown(this, grp, r)
<1>1. /\ g \in Seq(contacts) /\ Len(g) \in Nat /\ Len(grp) \in Nat /\ Len(grp) <= Len(g)
      /\ Len(Append(g, other)) = Len(g) + 1
      /\ Append(g, other)[Len(g) + 1] = other
      /\ \A i \in 1 .. Len(g) : Append(g, other)[i] = g[i]
  BY DEF Grown
<1>2. track[other].coalition = track[this].coalition
  BY DEF Joins, isMatch
<1>3. r \in Seq(contacts) /\ Len(r) \in Nat /\ Len(g) + 1 <= Len(r)
  BY <1>1 DEF Grown
<1>4. \A i \in 1 .. Len(g) : r[i] = g[i]
  BY <1>1 DEF Grown
<1>5. r[Len(g) + 1] = other
  BY <1>1 DEF Grown
<1>6. \A i \in 1 .. Len(grp) : r[i] = grp[i]
  BY <1>1, <1>4 DEF Grown
<1>7. ASSUME NEW i \in 1 .. Len(r), i > Len(grp)
      PROVE  track[r[i]].coalition = track[this].coalition
  <2>1. CASE i <= Len(g)
    BY <1>1, <1>3, <1>4, <1>7, <2>1 DEF Grown
  <2>2. CASE i = Len(g) + 1
    BY <1>2, <1>5, <2>2
  <2>3. CASE i > Len(g) + 1
    BY <1>1, <1>2, <2>3 DEF Grown
  <2> QED
    BY <1>1, <1>3, <2>1, <2>2, <2>3
<1>8. ASSUME this \in Range(grp), NEW i \in 1 .. Len(r), i > Len(grp)
      PROVE  Linked(r, i)
  <2>1. CASE i <= Len(g)
    <3>1. i \in 1 .. Len(g) /\ Linked(g, i)
      BY <1>1, <1>3, <1>8, <2>1 DEF Grown
    <3>2. \A j \in 1 .. i : r[j] = g[j]
      BY <1>1, <1>4, <3>1
    <3>3. r[i] = g[i] /\ \A j \in 1 .. i - 1 : r[j] = g[j]
      BY <3>1, <3>2
    <3> QED
      BY <3>1, <3>3 DEF Linked
  <2>2. CASE i = Len(g) + 1
    <3>1. PICK j \in 1 .. Len(grp) : this = grp[j]
      BY <1>8 DEF Range
    <3>2. j \in 1 .. i - 1 /\ r[j] = this
      BY <1>1, <1>6, <2>2, <3>1
    <3>3. Follows(other, this)
      BY DEF Follows, Joins, isMatch
    <3>4. \A k \in 1 .. Len(g) : g[k] # other
      BY <1>1 DEF Joins, Range
    <3>5. \A k \in 1 .. i - 1 : r[k] # r[i]
      BY <1>1, <1>4, <1>5, <2>2, <3>4
    <3> QED
      BY <1>5, <2>2, <3>2, <3>3, <3>5 DEF Linked
  <2>3. CASE i > Len(g) + 1
    <3>1. other \in Range(Append(g, other))
      <4>1. Len(g) + 1 \in DOMAIN Append(g, other)
        BY <1>1
      <4> QED
        BY <1>1, <4>1 DEF Range
    <3> QED
      BY <1>1, <2>3, <3>1 DEF Grown
  <2> QED
    BY <1>1, <1>3, <2>1, <2>2, <2>3
<1> QED
  BY <1>1, <1>3, <1>6, <1>7, <1>8 DEF Grown

\* The functions that only add such contacts.
Adders ==
    {a \in [contacts -> [Seq(contacts) -> Seq(contacts)]] :
       \A this \in contacts : \A grp \in Seq(contacts) : Grown(this, grp, a[this][grp])}

\* One level of calls of addNearbyAircraftToGroup, above those that do a.
AddingOne(a, this, order) ==
    [g \in Seq(contacts) |-> [other \in contacts |->
       IF Joins(this, other, g) THEN a[other][Append(g, other)] ELSE g]]
Adding(a, order) ==
    [this \in contacts |-> [grp \in Seq(contacts) |->
       Loop(AddingOne(a, this, order), grp, order)]]

LEMMA AddingOneKeeps ==
    ASSUME NEW order \in Seq(contacts), NEW a \in Adders,
           NEW this \in contacts, NEW grp \in Seq(contacts)
    PROVE  /\ Loop(AddingOne(a, this, order), grp, order) \in Seq(contacts)
           /\ Grown(this, grp, Loop(AddingOne(a, this, order), grp, order))
<1> DEFINE A == Seq(contacts)
           step == AddingOne(a, this, order)
           I == {g \in A : Grown(this, grp, g)}
<1>1. ASSUME NEW g \in A, NEW other \in contacts
      PROVE  /\ step[g][other] \in A
             /\ g \in I => step[g][other] \in I
  <2>1. CASE Joins(this, other, g)
    <3>1. step[g][other] = a[other][Append(g, other)]
      BY <2>1 DEF AddingOne
    <3>2. Append(g, other) \in Seq(contacts)
      OBVIOUS
    <3>3. Grown(other, Append(g, other), step[g][other])
      BY <3>1, <3>2 DEF Adders
    <3>4. step[g][other] \in A
      BY <3>3 DEF Grown
    <3>5. Grown(this, grp, g) => Grown(this, grp, step[g][other])
      BY <2>1, <3>3, GrownStep
    <3> QED
      BY <3>4, <3>5
  <2>2. CASE ~Joins(this, other, g)
    BY <2>2 DEF AddingOne
  <2> QED
    BY <2>1, <2>2
<1>2. grp \in I
  BY DEF Grown
<1>3. \A i \in 1 .. Len(order) : order[i] \in contacts
  OBVIOUS
<1>4. Loop(step, grp, order) \in A /\ Loop(step, grp, order) \in I
  <2> HIDE DEF A, I, step
  <2>1. \A g \in A : \A other \in contacts : step[g][other] \in A
    BY <1>1
  <2>2. \A i \in 1 .. Len(order) : \A g \in A : g \in I => step[g][order[i]] \in I
    BY <1>1, <1>3
  <2>3. grp \in A
    BY DEF A
  <2> QED
    BY <1>2, <2>1, <2>2, <2>3, LoopKeeps
<1> QED
  BY <1>4

LEMMA AddingIsAdder ==
    ASSUME NEW order \in Seq(contacts), NEW a \in Adders
    PROVE  Adding(a, order) \in Adders
<1>1. ASSUME NEW this \in contacts, NEW grp \in Seq(contacts)
      PROVE  /\ Adding(a, order)[this][grp] \in Seq(contacts)
             /\ Grown(this, grp, Adding(a, order)[this][grp])
  <2>1. Adding(a, order)[this][grp] = Loop(AddingOne(a, this, order), grp, order)
    BY DEF Adding
  <2> QED
    BY <2>1, AddingOneKeeps
<1>2. Adding(a, order) \in [contacts -> [Seq(contacts) -> Seq(contacts)]]
  <2>1. \A this \in contacts : Adding(a, order)[this] \in [Seq(contacts) -> Seq(contacts)]
    BY <1>1 DEF Adding
  <2> QED
    BY <2>1 DEF Adding
<1> QED
  BY <1>1, <1>2 DEF Adders

\* The recursion, whatever the order.
LEMMA AddersOnly ==
    ASSUME NEW order \in Seq(contacts)
    PROVE  addNearbyAircraftToGroup(order) \in Adders
<1> DEFINE N == Len(order)
           base == [this \in contacts |-> [grp \in Seq(contacts) |-> grp]]
           G == [a \in Adders |-> [i \in 1 .. N |-> Adding(a, order)]]
           body(f) == [i \in 0 .. N |-> IF i = 0 THEN base ELSE Adding(f[i - 1], order)]
           add == CHOOSE f : f = body(f)
<1>1. N \in Nat
  OBVIOUS
<1>2. base \in Adders
  BY DEF Adders, Grown
<1>3. \A a \in Adders : \A i \in 1 .. N : G[a][i] = Adding(a, order) /\ G[a][i] \in Adders
  BY AddingIsAdder
<1> HIDE DEF base, N
<1>4. PICK f : /\ f[0] = base
               /\ \A i \in 1 .. N : f[i] \in Adders /\ f[i] = G[f[i - 1]][i]
  <2>1. StepsWithin(G, Adders, N)
    BY <1>3 DEF StepsWithin
  <2> HIDE DEF G
  <2> QED
    BY <1>1, <1>2, <2>1, Recursion
<1> DEFINE g == [i \in 0 .. N |-> f[i]]
<1>5. g = body(g)
  <2> HIDE DEF G
  <2>1. \A i \in 1 .. N : f[i - 1] \in Adders
    <3>1. \A i \in 1 .. N : i # 1 => i - 1 \in 1 .. N
      BY <1>1
    <3> QED
      BY <1>1, <1>2, <1>4, <3>1
  <2>2. \A i \in 1 .. N : f[i] = Adding(f[i - 1], order)
    BY <1>3, <1>4, <2>1
  <2>3. \A i \in 1 .. N : g[i - 1] = f[i - 1]
    BY <1>1
  <2> QED
    BY <1>1, <1>4, <2>2, <2>3
<1>6. add = body(add)
  <2> HIDE DEF body, g
  <2> QED
    BY <1>5
<1>7. add[0] = base /\ \A i \in 1 .. N : add[i] = Adding(add[i - 1], order)
  <2> HIDE DEF add
  <2>1. \A i \in 0 .. N : add[i] = body(add)[i]
    BY <1>6
  <2> QED
    BY <1>1, <2>1
<1>8. addNearbyAircraftToGroup(order) = add[N]
  BY DEF addNearbyAircraftToGroup, Adding, AddingOne, base, N
<1> HIDE DEF add
<1> DEFINE T == {i \in 0 .. N : add[i] \in Adders}
<1>9. 0 \in T
  BY <1>1, <1>2, <1>7
<1>10. \A i \in 1 .. N : i - 1 \in T => i \in T
  BY <1>7, AddingIsAdder, <1>1 DEF N
<1>11. N \in T
  <2> HIDE DEF T
  <2>1. \A i \in 0 .. N : i \in T
    BY <1>1, <1>9, <1>10, Induction
  <2> QED
    BY <1>1, <2>1
<1> QED
  BY <1>8, <1>11

\* A group is one: it begins with the contact asked for, no contact is in it
\* twice, and each of the others is of its coalition and within 5 NM of one
\* before it - however deep the calls are nested, and in whatever order the
\* contacts are visited.
THEOREM GroupIsConnected ==
    ASSUME NEW order \in Seq(contacts), NEW id \in contacts
    PROVE  LET r == findGroupForAircraft(id, order)
           IN  /\ r \in Seq(contacts)
               /\ Len(r) >= 1
               /\ r[1] = id
               /\ \A i \in 1 .. Len(r) : track[r[i]].coalition = track[id].coalition
               /\ \A i \in 2 .. Len(r) : Linked(r, i)
<1> DEFINE r == addNearbyAircraftToGroup(order)[id][<<id>>]
<1>1. <<id>> \in Seq(contacts) /\ Len(<<id>>) = 1 /\ <<id>>[1] = id /\ id \in Range(<<id>>)
  BY DEF Range
<1>2. Grown(id, <<id>>, r)
  BY <1>1, AddersOnly DEF Adders
<1>3. /\ r \in Seq(contacts) /\ Len(r) >= 1 /\ r[1] = id
      /\ \A i \in 1 .. Len(r) : track[r[i]].coalition = track[id].coalition
      /\ \A i \in 2 .. Len(r) : Linked(r, i)
  <2> HIDE DEF r
  <2>1. r \in Seq(contacts) /\ Len(r) \in Nat /\ Len(r) >= 1 /\ r[1] = id
    BY <1>1, <1>2 DEF Grown
  <2>2. \A i \in 1 .. Len(r) : i > 1 => track[r[i]].coalition = track[id].coalition
    BY <1>1, <1>2 DEF Grown
  <2>3. \A i \in 1 .. Len(r) : i > 1 => Linked(r, i)
    BY <1>1, <1>2 DEF Grown
  <2> QED
    BY <2>1, <2>2, <2>3
<1>4. CASE Point(id) = Zero
  BY <1>1, <1>4 DEF findGroupForAircraft
<1>5. CASE Point(id) # Zero
  <2>1. findGroupForAircraft(id, order) = r
    BY <1>5 DEF findGroupForAircraft
  <2> HIDE DEF r
  <2> QED
    BY <1>3, <2>1
<1> QED
  BY <1>4, <1>5

LEMMA GroupForAircraft ==
    ASSUME NEW order \in Seq(contacts), NEW id \in contacts
    PROVE  /\ findGroupForAircraft(id, order) \in Seq(contacts)
           /\ findGroupForAircraft(id, order) # <<>>
           /\ findGroupForAircraft(id, order)[1] = id
           /\ \A i \in 1 .. Len(findGroupForAircraft(id, order)) :
                track[findGroupForAircraft(id, order)[i]].coalition = track[id].coalition
<1> DEFINE r == findGroupForAircraft(id, order)
<1>1. /\ r \in Seq(contacts) /\ Len(r) >= 1 /\ r[1] = id
      /\ \A i \in 1 .. Len(r) : track[r[i]].coalition = track[id].coalition
  BY GroupIsConnected
<1> HIDE DEF r
<1>2. r # <<>>
  BY <1>1
<1> QED
  BY <1>1, <1>2 DEF r

\* A contact far from all others is a group by itself.
LEMMA LoneGroup ==
    ASSUME WorldTypeOK, NEW order \in Seq(contacts), NEW x \in contacts, NEW id \in contacts,
           Lone(id), id \in Range(findGroupForAircraft(x, order))
    PROVE  findGroupForAircraft(x, order) = <<id>>
<1> DEFINE r == findGroupForAircraft(x, order)
<1>0. /\ r \in Seq(contacts) /\ Len(r) >= 1 /\ r[1] = x
      /\ \A i \in 2 .. Len(r) : Linked(r, i)
  BY GroupIsConnected
<1> HIDE DEF r
<1>1. /\ r \in Seq(contacts) /\ Len(r) >= 1 /\ Len(r) \in Nat /\ r[1] = x
      /\ \A i \in 2 .. Len(r) : Linked(r, i)
  BY <1>0
<1>2. \A i \in 1 .. Len(r) : r[i] \in contacts /\ Point(r[i]) \in Int
  BY <1>1 DEF WorldTypeOK
<1>3. Point(id) \in Int
  BY DEF WorldTypeOK
<1>4. ASSUME NEW i \in 2 .. Len(r), NEW j \in 1 .. i - 1, Follows(r[i], r[j]), r[j] # r[i]
      PROVE  r[i] # id /\ r[j] # id
  <2>1. j \in 1 .. Len(r) /\ i \in 1 .. Len(r)
    BY <1>1
  <2>2. Distance(Point(r[i]), Point(r[j])) < 5 * NM
    BY <1>4 DEF Follows
  <2>3. Distance(Point(r[j]), Point(r[i])) < 5 * NM
    BY <1>2, <2>1, <2>2 DEF Distance
  <2>4. Distance(Point(r[i]), Point(r[j])) \in Int /\ 5 * NM \in Int
    BY <1>2, <2>1 DEF Distance, NM
  <2>5. Distance(Point(r[j]), Point(r[i])) \in Int
    BY <1>2, <2>1 DEF Distance
  <2> QED
    BY <1>2, <1>4, <2>1, <2>2, <2>3, <2>4, <2>5 DEF Lone
<1>5. ASSUME NEW i \in 2 .. Len(r)
      PROVE  r[i] # id
  <2>1. PICK j \in 1 .. i - 1 : Follows(r[i], r[j]) /\ r[j] # r[i]
    BY <1>1 DEF Linked
  <2> QED
    BY <1>4, <2>1
<1>6. r[1] = id
  <2>1. PICK i \in 1 .. Len(r) : r[i] = id
    BY <1>1 DEF Range, r
  <2> QED
    BY <1>1, <1>5, <2>1
<1>7. Len(r) = 1
  <2> SUFFICES ASSUME Len(r) > 1
               PROVE  FALSE
    BY <1>1
  <2>1. 2 \in 2 .. Len(r) /\ Linked(r, 2)
    BY <1>1
  <2>2. Follows(r[2], r[1]) /\ r[1] # r[2]
    <3>1. 1 .. 2 - 1 = {1}
      OBVIOUS
    <3> QED
      BY <2>1, <3>1 DEF Linked
  <2>3. 1 \in 1 .. 2 - 1
    OBVIOUS
  <2> QED
    BY <1>4, <1>6, <2>1, <2>2, <2>3
<1>8. r = <<id>>
  BY <1>1, <1>6, <1>7
<1> QED
  BY <1>8 DEF r

\* id is in one of the groups.
InSome(id, groups) == \E k \in 1 .. Len(groups) : id \in Range(groups[k])

\* The groups are those of contacts ids.
GroupsStartedBy(groups, ids, order) ==
    \A k \in 1 .. Len(groups) :
       \E id \in ids \cap contacts : groups[k] = findGroupForAircraft(id, order)

LEMMA AppendGroup ==
    ASSUME NEW order \in Seq(contacts), NEW ids, NEW id \in contacts, id \in ids,
           NEW groups \in Seq(Seq(contacts)), GroupsStartedBy(groups, ids, order),
           Distinct(groups), ~InSome(id, groups)
    PROVE  LET r == Append(groups, findGroupForAircraft(id, order))
           IN  /\ r \in Seq(Seq(contacts))
               /\ GroupsStartedBy(r, ids, order)
               /\ Distinct(r)
               /\ InSome(id, r)
               /\ \A x : InSome(x, groups) => InSome(x, r)
<1> DEFINE new == findGroupForAircraft(id, order)
           r == Append(groups, new)
           N == Len(groups)
<1>1. new \in Seq(contacts) /\ Len(new) >= 1 /\ new[1] = id
  <2>1. new \in Seq(contacts) /\ new # <<>> /\ new[1] = id
    BY GroupForAircraft
  <2> HIDE DEF new
  <2> QED
    BY <2>1
<1>2. id \in Range(new)
  <2> HIDE DEF new
  <2>1. 1 \in DOMAIN new
    BY <1>1
  <2> QED
    BY <1>1, <2>1 DEF Range
<1>3. id \in ids \cap contacts /\ new = findGroupForAircraft(id, order)
  OBVIOUS
<1> HIDE DEF new
<1>4. /\ r \in Seq(Seq(contacts)) /\ N \in Nat /\ Len(r) = N + 1 /\ r[N + 1] = new
      /\ \A k \in 1 .. N : r[k] = groups[k]
  BY <1>1
<1> HIDE DEF r, N
<1>5. GroupsStartedBy(r, ids, order)
  <2> SUFFICES ASSUME NEW k \in 1 .. Len(r)
               PROVE  \E x \in ids \cap contacts : r[k] = findGroupForAircraft(x, order)
    BY DEF GroupsStartedBy
  <2>1. CASE k = N + 1
    BY <1>3, <1>4, <2>1
  <2>2. CASE k # N + 1
    <3>1. k \in 1 .. N
      BY <1>4, <2>2
    <3> QED
      BY <3>1, <1>4 DEF GroupsStartedBy, N
  <2> QED
    BY <2>1, <2>2
<1>6. \A k \in 1 .. N : groups[k] # new
  BY <1>2 DEF InSome, N
<1>7. Distinct(r)
  <2>0. \A i, k \in 1 .. N + 1 : i # k => i < k \/ k < i
    BY <1>4
  <2> SUFFICES ASSUME NEW i \in 1 .. N + 1, NEW k \in 1 .. N + 1, i < k, r[i] = r[k]
               PROVE  FALSE
    BY <1>4, <2>0, Zenon DEF Distinct
  <2>1. i \in 1 .. N
    BY <1>4
  <2>2. CASE k = N + 1
    BY <1>4, <1>6, <2>1, <2>2
  <2>3. CASE k # N + 1
    <3>1. k \in 1 .. N /\ i # k
      BY <1>4, <2>3
    <3> QED
      BY <3>1, <2>1, <1>4 DEF Distinct, N
  <2> QED
    BY <2>2, <2>3
<1>8. InSome(id, r)
  <2>1. N + 1 \in 1 .. Len(r)
    BY <1>4
  <2> QED
    BY <2>1, <1>2, <1>4 DEF InSome
<1>9. ASSUME NEW x, InSome(x, groups)
      PROVE  InSome(x, r)
  <2>1. PICK k \in 1 .. N : x \in Range(groups[k])
    BY <1>9 DEF InSome, N
  <2>2. k \in 1 .. Len(r) /\ r[k] = groups[k]
    BY <1>4
  <2> QED
    BY <2>1, <2>2 DEF InSome
<1> QED
  BY <1>4, <1>5, <1>7, <1>8, <1>9 DEF r, new

\* Every one of the contacts is in a group, the groups are theirs, and no group
\* comes up twice.
LEMMA GroupsCover ==
    ASSUME NEW order \in Seq(contacts), NEW ids
    PROVE  /\ GroupsOf(ids, order) \in Seq(Seq(contacts))
           /\ GroupsStartedBy(GroupsOf(ids, order), ids, order)
           /\ Distinct(GroupsOf(ids, order))
           /\ \A id \in ids \cap Range(order) : InSome(id, GroupsOf(ids, order))
<1> DEFINE A == Seq(Seq(contacts))
           step == [groups \in A |-> [id \in contacts |->
                      IF id \in ids /\ \A i \in DOMAIN groups : id \notin Range(groups[i])
                      THEN Append(groups, findGroupForAircraft(id, order))
                      ELSE groups]]
           Covers(i, groups) == \A j \in 1 .. i : order[j] \in ids => InSome(order[j], groups)
           inv == [i \in 0 .. Len(order) |->
                     {groups \in A : /\ GroupsStartedBy(groups, ids, order)
                                     /\ Distinct(groups)
                                     /\ Covers(i, groups)}]
<1>1. /\ Len(order) \in Nat /\ DOMAIN order = 1 .. Len(order)
      /\ \A i \in 1 .. Len(order) : order[i] \in contacts
  OBVIOUS
<1>2. ASSUME NEW groups \in A, NEW id \in contacts
      PROVE  /\ step[groups][id] \in A
             /\ GroupsStartedBy(groups, ids, order) /\ Distinct(groups) =>
                  /\ GroupsStartedBy(step[groups][id], ids, order)
                  /\ Distinct(step[groups][id])
                  /\ id \in ids => InSome(id, step[groups][id])
                  /\ \A x : InSome(x, groups) => InSome(x, step[groups][id])
  <2>1. CASE id \in ids /\ ~InSome(id, groups)
    <3>1. step[groups][id] = Append(groups, findGroupForAircraft(id, order))
      BY <2>1 DEF InSome
    <3>2. findGroupForAircraft(id, order) \in Seq(contacts)
      BY GroupForAircraft
    <3> HIDE DEF step
    <3>3. step[groups][id] \in A
      BY <3>1, <3>2
    <3> QED
      BY <2>1, <3>1, <3>3, AppendGroup
  <2>2. CASE ~(id \in ids /\ ~InSome(id, groups))
    <3>1. step[groups][id] = groups
      BY <2>2 DEF InSome
    <3> QED
      BY <2>2, <3>1
  <2> QED
    BY <2>1, <2>2
<1>3. <<>> \in A /\ <<>> \in inv[0]
  BY <1>1 DEF GroupsStartedBy, Distinct
<1>4. ASSUME NEW i \in 1 .. Len(order), NEW groups \in A, groups \in inv[i - 1]
      PROVE  step[groups][order[i]] \in inv[i]
  <2> DEFINE r == step[groups][order[i]]
  <2>1. GroupsStartedBy(groups, ids, order) /\ Distinct(groups) /\ Covers(i - 1, groups)
    BY <1>1, <1>4
  <2>2. /\ r \in A /\ GroupsStartedBy(r, ids, order) /\ Distinct(r)
        /\ order[i] \in ids => InSome(order[i], r)
        /\ \A x : InSome(x, groups) => InSome(x, r)
    <3> HIDE DEF step
    <3> QED
      BY <1>1, <1>2, <2>1
  <2> HIDE DEF r
  <2>3. Covers(i, r)
    <3> SUFFICES ASSUME NEW j \in 1 .. i, order[j] \in ids
                 PROVE  InSome(order[j], r)
      OBVIOUS
    <3>1. CASE j = i
      BY <2>2, <3>1
    <3>2. CASE j # i
      <4>1. j \in 1 .. i - 1
        BY <1>1, <3>2
      <4> QED
        BY <2>1, <2>2, <4>1
    <3> QED
      BY <3>1, <3>2
  <2>4. inv[i] = {g \in A : /\ GroupsStartedBy(g, ids, order)
                           /\ Distinct(g)
                           /\ Covers(i, g)}
    BY <1>1
  <2>5. r \in inv[i]
    <3> HIDE DEF inv, Covers
    <3> QED
      BY <2>2, <2>3, <2>4
  <2> QED
    BY <2>5 DEF r
<1>5. GroupsOf(ids, order) = Loop(step, <<>>, order)
  BY DEF GroupsOf
<1>6. Loop(step, <<>>, order) \in A /\ Loop(step, <<>>, order) \in inv[Len(order)]
  <2> HIDE DEF A, step, inv
  <2>1. \A groups \in A : \A id \in contacts : step[groups][id] \in A
    BY <1>2
  <2> QED
    BY <1>3, <1>4, <2>1, LoopInvariant
<1> DEFINE r == GroupsOf(ids, order)
<1>7. /\ r \in A /\ GroupsStartedBy(r, ids, order) /\ Distinct(r)
      /\ Covers(Len(order), r)
  <2> HIDE DEF step, r, Covers
  <2>1. r \in inv[Len(order)]
    BY <1>5, <1>6 DEF r
  <2> QED
    BY <1>1, <2>1
<1>8. ASSUME NEW id \in ids \cap Range(order)
      PROVE  InSome(id, r)
  <2>1. PICK j \in 1 .. Len(order) : id = order[j]
    BY <1>1 DEF Range
  <2> HIDE DEF r
  <2> QED
    BY <1>7, <2>1
<1> QED
  BY <1>7, <1>8

\* What a query for groups returns, sorted as it may be.
LEMMA NearbyGroups ==
    ASSUME WorldTypeOK, NEW order \in Orders,
           NEW interest, NEW low, NEW high, NEW radius, NEW coalition, NEW filter,
           NEW excluded
    PROVE  LET ids == Nearby(interest, low, high, radius, coalition, filter, excluded)
               r == findNearbyGroups(interest, low, high, radius, coalition, filter,
                                     excluded, order)
           IN  /\ r \in Seq(Seq(contacts))
               /\ GroupsStartedBy(r, ids, order)
               /\ Distinct(r)
               /\ \A id \in ids : InSome(id, r)
<1> DEFINE ids == Nearby(interest, low, high, radius, coalition, filter, excluded)
           groups == GroupsOf(ids, order)
           r == findNearbyGroups(interest, low, high, radius, coalition, filter,
                                 excluded, order)
<1>1. order \in Seq(contacts) /\ Range(order) = contacts
  BY OrderCovers
<1>2. ids \subseteq contacts
  BY DEF Nearby
<1>3. r = SortFunc(groups, Nearer(Range(groups), interest))
  BY DEF findNearbyGroups
<1> HIDE DEF ids, r
<1>4. /\ groups \in Seq(Seq(contacts))
      /\ GroupsStartedBy(groups, ids, order)
      /\ Distinct(groups)
      /\ \A id \in ids : InSome(id, groups)
  BY <1>1, <1>2, GroupsCover
<1> HIDE DEF groups
<1>5. r \in Seq(Seq(contacts)) /\ Len(r) = Len(groups) /\ Range(r) = Range(groups)
  BY <1>3, <1>4, SortFuncKeeps
<1>6. Distinct(r)
  BY <1>3, <1>4, SortFuncDistinct
<1>7. DOMAIN r = 1 .. Len(r) /\ DOMAIN groups = 1 .. Len(groups)
  BY <1>4, <1>5
<1>8. GroupsStartedBy(r, ids, order)
  <2> SUFFICES ASSUME NEW k \in 1 .. Len(r)
               PROVE  \E x \in ids \cap contacts : r[k] = findGroupForAircraft(x, order)
    BY DEF GroupsStartedBy
  <2>1. PICK j \in 1 .. Len(groups) : r[k] = groups[j]
    BY <1>5, <1>7 DEF Range
  <2> QED
    BY <2>1, <1>4 DEF GroupsStartedBy
<1>9. ASSUME NEW id \in ids
      PROVE  InSome(id, r)
  <2>1. PICK j \in 1 .. Len(groups) : id \in Range(groups[j])
    BY <1>4 DEF InSome
  <2>2. PICK k \in 1 .. Len(r) : r[k] = groups[j]
    BY <1>5, <1>7 DEF Range
  <2> QED
    BY <2>1, <2>2 DEF InSome
<1> QED
  BY <1>5, <1>6, <1>8, <1>9 DEF r, ids

\* A group is of the coalition of the contact that started it.
LEMMA GroupsOfCoalition ==
    ASSUME NEW order \in Seq(contacts), NEW ids,
           NEW groups, GroupsStartedBy(groups, ids, order), NEW k \in 1 .. Len(groups)
    PROVE  /\ groups[k] \in Seq(contacts)
           /\ groups[k] # <<>>
           /\ \E x \in ids : \A id \in Range(groups[k]) : track[id].coalition = track[x].coalition
<1>1. PICK x \in ids \cap contacts : groups[k] = findGroupForAircraft(x, order)
  BY DEF GroupsStartedBy
<1> DEFINE g == findGroupForAircraft(x, order)
<1>2. /\ g \in Seq(contacts) /\ g # <<>>
      /\ \A i \in 1 .. Len(g) : track[g[i]].coalition = track[x].coalition
  BY GroupForAircraft
<1> HIDE DEF g
<1>3. \A id \in Range(g) : track[id].coalition = track[x].coalition
  <2>1. DOMAIN g = 1 .. Len(g)
    BY <1>2
  <2> QED
    BY <1>2, <2>1 DEF Range
<1> QED
  BY <1>1, <1>2, <1>3 DEF g

----------------------------------------------------------------------------
(* The nearest contact *)

LEMMA DistanceType ==
    ASSUME NEW a \in Int, NEW b \in Int
    PROVE  Distance(a, b) \in Nat
BY DEF Distance

\* Nearest finds the nearest of the contacts ids within the radius, if there is
\* one, in whatever order it looks at them.
LEMMA NearestIsNearest ==
    ASSUME WorldTypeOK, NEW order \in Orders,
           NEW origin \in Int, NEW radius \in Int, NEW ids
    PROVE  LET n == Nearest(origin, radius, ids, order)
           IN  /\ n \in contacts \cup {Nil}
               /\ n # Nil => n \in ids
               /\ \A id \in ids \cap contacts :
                    Distance(origin, Point(id)) < radius =>
                      /\ n # Nil
                      /\ Distance(origin, Point(n)) <= Distance(origin, Point(id))
<1> DEFINE A == contacts \cup {Nil}
           d(id) == Distance(origin, Point(id))
           step == [nearest \in A |-> [id \in contacts |->
                      IF id \in ids /\ d(id) < IF nearest = Nil THEN radius ELSE d(nearest)
                      THEN id ELSE nearest]]
           Beats(n, id) == id \in ids /\ d(id) < radius => n # Nil /\ d(n) <= d(id)
           Good(i, n) == /\ n # Nil => n \in ids /\ d(n) < radius
                         /\ \A j \in 1 .. i : Beats(n, order[j])
           inv == [i \in 0 .. Len(order) |-> {n \in A : Good(i, n)}]
<1>1. /\ order \in Seq(contacts) /\ Range(order) = contacts
      /\ Len(order) \in Nat /\ DOMAIN order = 1 .. Len(order)
      /\ \A i \in 1 .. Len(order) : order[i] \in contacts
  BY OrderCovers
<1>2. Nil \notin contacts /\ \A id \in contacts : d(id) \in Nat
  BY DistanceType DEF WorldTypeOK
<1> HIDE DEF d
<1>3. ASSUME NEW n \in A, NEW id \in contacts, n # Nil => n \in ids /\ d(n) < radius
      PROVE  /\ step[n][id] \in A
             /\ step[n][id] # Nil => step[n][id] \in ids /\ d(step[n][id]) < radius
             /\ Beats(step[n][id], id)
             /\ n # Nil => step[n][id] # Nil /\ d(step[n][id]) <= d(n)
  BY <1>2, <1>3
<1>4. \A n \in A : \A id \in contacts : step[n][id] \in A
  OBVIOUS
<1> HIDE DEF step, A
<1>5. Nil \in A /\ Nil \in inv[0]
  BY <1>1 DEF A
<1>6. ASSUME NEW i \in 1 .. Len(order), NEW n \in A, n \in inv[i - 1]
      PROVE  step[n][order[i]] \in inv[i]
  <2> DEFINE r == step[n][order[i]]
  <2>1. Good(i - 1, n)
    BY <1>1, <1>6
  <2>2. /\ r \in A
        /\ r # Nil => r \in ids /\ d(r) < radius
        /\ Beats(r, order[i])
        /\ n # Nil => r # Nil /\ d(r) <= d(n)
    <3> HIDE DEF Beats
    <3> QED
      BY <1>1, <1>3, <2>1
  <2> HIDE DEF r
  <2>3. ASSUME NEW j \in 1 .. i
        PROVE  Beats(r, order[j])
    <3>1. CASE j = i
      BY <2>2, <3>1
    <3>2. CASE j # i
      <4>1. j \in 1 .. i - 1 /\ order[j] \in contacts
        BY <1>1, <3>2
      <4>2. Beats(n, order[j])
        BY <2>1, <4>1
      <4>3. n # Nil => n \in contacts /\ r \in contacts
        BY <2>2 DEF A
      <4> QED
        BY <1>2, <2>2, <4>1, <4>2, <4>3
    <3> QED
      BY <3>1, <3>2
  <2>4. Good(i, r)
    BY <2>2, <2>3
  <2> HIDE DEF Good
  <2> QED
    BY <1>1, <2>2, <2>4 DEF r
<1>7. Nearest(origin, radius, ids, order) = Loop(step, Nil, order)
  BY DEF Nearest, step, d, A
<1>8. /\ Loop(step, Nil, order) \in A
      /\ Loop(step, Nil, order) \in inv[Len(order)]
  <2> HIDE DEF inv
  <2> QED
    BY <1>1, <1>4, <1>5, <1>6, LoopInvariant
<1> DEFINE n == Nearest(origin, radius, ids, order)
<1>9. n \in A /\ Good(Len(order), n)
  <2> HIDE DEF Good, n
  <2>1. n \in inv[Len(order)] /\ n \in A
    BY <1>7, <1>8 DEF n
  <2> QED
    BY <1>1, <2>1
<1> HIDE DEF n
<1>10. ASSUME NEW id \in ids \cap contacts, d(id) < radius
       PROVE  n # Nil /\ d(n) <= d(id)
  <2>1. PICK j \in 1 .. Len(order) : id = order[j]
    BY <1>1 DEF Range
  <2>2. Beats(n, id)
    BY <1>9, <2>1
  <2> QED
    BY <1>10, <2>2
<1> QED
  BY <1>9, <1>10 DEF n, A, d

\* The group that BOGEY DOPE reports has a contact as near as every match.
THEOREM NearestGroup ==
    ASSUME WorldTypeOK, NEW order \in Orders, NEW origin \in Int, NEW radius \in Int,
           NEW low, NEW high, NEW coalition, NEW filter,
           NEW id \in MatchesInBlock(coalition, filter, low, high),
           Distance(origin, Point(id)) < radius
    PROVE  \E g \in Range(FindNearestGroupWithBRAA(origin, low, high, radius, coalition,
                                                   filter, order)) :
              Distance(origin, Point(g)) <= Distance(origin, Point(id))
<1> DEFINE ids == MatchesInBlock(coalition, filter, low, high)
           n == Nearest(origin, radius, ids, order)
           r == findGroupForAircraft(n, order)
<1>1. id \in ids \cap contacts
  BY DEF MatchesInBlock
<1> HIDE DEF ids
<1>2. /\ n \in contacts \cup {Nil} /\ n # Nil
      /\ Distance(origin, Point(n)) <= Distance(origin, Point(id))
  BY <1>1, NearestIsNearest
<1>3. FindNearestGroupWithBRAA(origin, low, high, radius, coalition, filter, order) = r
  BY <1>2 DEF FindNearestGroupWithBRAA, FindNearestTrackfile, GroupOf, n, ids
<1> HIDE DEF n
<1>4. order \in Seq(contacts)
  BY OrderCovers
<1>5. r \in Seq(contacts) /\ r # <<>> /\ r[1] = n
  BY <1>2, <1>4, GroupForAircraft
<1> HIDE DEF r
<1>6. n \in Range(r)
  <2>1. 1 \in DOMAIN r
    BY <1>5
  <2> QED
    BY <1>5, <2>1 DEF Range
<1> QED
  BY <1>2, <1>3, <1>6

----------------------------------------------------------------------------
(* PICTURE *)

LEMMA MinOfTwo ==
    ASSUME NEW a \in Int, NEW b \in Int
    PROVE  Min({a, b}) = IF a <= b THEN a ELSE b
<1> DEFINE m == IF a <= b THEN a ELSE b
<1>1. m \in {a, b} /\ \A y \in {a, b} : m <= y
  OBVIOUS
<1>2. \A x \in {a, b} : (\A y \in {a, b} : x <= y) => x = m
  OBVIOUS
<1> HIDE DEF m
<1>3. Min({a, b}) = m
  BY <1>1, <1>2 DEF Min
<1> QED
  BY <1>3 DEF m

LEMMA RankType ==
    ASSUME NEW grp, NEW center
    PROVE  Rank(grp, center) \in 1 .. 6
BY DEF Rank

\* PICTURE names three groups, or all if there are fewer, none twice; and each
\* contact it finds around the center, or around the bullseye while there is no
\* center, is in one of them or in a group that ranks no higher than any of
\* them as seen from the center, although compareThreat is no ordering of the
\* groups: its distances and altitudes may go round in circles.
THEOREM PictureRanked ==
    ASSUME WorldTypeOK, NEW order \in Orders,
           NEW center, NEW bullseye, NEW radius, NEW coalition, NEW filter
    PROVE  LET ids == Nearby(PictureOrigin(center, bullseye), 0, highestAltitude, radius,
                             coalition, filter, {})
               p == Picture(center, bullseye, radius, coalition, filter, order)
           IN  /\ p.groups \in Seq(Seq(contacts))
               /\ p.count \in Nat
               /\ Len(p.groups) = Min({3, p.count})
               /\ Distinct(p.groups)
               /\ GroupsStartedBy(p.groups, ids, order)
               /\ \A id \in ids :
                    \/ InSome(id, p.groups)
                    \/ \E x \in ids \cap contacts :
                         LET left == findGroupForAircraft(x, order)
                         IN  /\ id \in Range(left)
                             /\ \A k \in 1 .. Len(p.groups) :
                                  Rank(p.groups[k], center) <= Rank(left, center)
<1> DEFINE ids == Nearby(PictureOrigin(center, bullseye), 0, highestAltitude, radius,
                         coalition, filter, {})
           groups == findNearbyGroups(PictureOrigin(center, bullseye), 0, highestAltitude,
                                      radius, coalition, filter, {}, order)
           before == HigherThreats(Range(groups), center)
           sorted == SortFunc(groups, before)
           n == Min({3, Len(sorted)})
           named == SubSeq(sorted, 1, n)
           rank == [g \in Seq(contacts) |-> Rank(g, center)]
<1>1. /\ groups \in Seq(Seq(contacts))
      /\ GroupsStartedBy(groups, ids, order)
      /\ Distinct(groups)
      /\ \A id \in ids : InSome(id, groups)
  BY NearbyGroups
<1>2. /\ Picture(center, bullseye, radius, coalition, filter, order).count = Len(groups)
      /\ Picture(center, bullseye, radius, coalition, filter, order).groups = named
  BY DEF Picture
<1> HIDE DEF ids, groups
<1>3. \A g \in Seq(contacts) : rank[g] = Rank(g, center) /\ rank[g] \in Int
  BY RankType
<1>4. Refines(before, Range(groups), rank)
  <2> SUFFICES ASSUME NEW a \in Range(groups), NEW b \in Range(groups)
               PROVE  IF <<a, b>> \in before THEN rank[a] <= rank[b]
                      ELSE rank[a] >= rank[b]
    BY DEF Refines
  <2>1. a \in Seq(contacts) /\ b \in Seq(contacts)
    BY <1>1 DEF Range
  <2>2. /\ rank[a] = Rank(a, center) /\ rank[b] = Rank(b, center)
        /\ rank[a] \in Int /\ rank[b] \in Int
    BY <1>3, <2>1
  <2>3. <<a, b>> \in before <=> HigherThreat(a, b, center)
    BY DEF HigherThreats
  <2> HIDE DEF rank, before
  <2>4. CASE HigherThreat(a, b, center)
    BY <2>2, <2>3, <2>4 DEF HigherThreat
  <2>5. CASE ~HigherThreat(a, b, center)
    BY <2>2, <2>3, <2>5 DEF HigherThreat
  <2> QED
    BY <2>4, <2>5
<1> HIDE DEF before, rank
<1>5. /\ sorted \in Seq(Seq(contacts)) /\ Len(sorted) = Len(groups)
      /\ Range(sorted) = Range(groups)
  BY <1>1, SortFuncKeeps
<1>6. Distinct(sorted) /\ Ascending(sorted, rank)
  BY <1>1, <1>3, <1>4, SortFuncDistinct, SortFuncAscending
<1>7. /\ Len(sorted) \in Nat /\ DOMAIN sorted = 1 .. Len(sorted)
      /\ DOMAIN groups = 1 .. Len(groups)
  BY <1>1, <1>5
<1> HIDE DEF sorted
<1>8. n \in 0 .. Len(sorted) /\ n \in Int
  BY <1>7, MinOfTwo
<1> HIDE DEF n
<1>9. /\ named \in Seq(Seq(contacts)) /\ Len(named) = n
      /\ \A k \in 1 .. n : named[k] = sorted[k]
  <2>1. \A k \in 1 .. n : sorted[k] \in Seq(contacts)
    BY <1>5, <1>7, <1>8
  <2> QED
    BY <1>5, <1>7, <1>8, <2>1, SubSeqProperties
<1> HIDE DEF named
<1>10. Distinct(named)
  BY <1>6, <1>7, <1>8, <1>9 DEF Distinct
<1>11. ASSUME NEW k \in 1 .. Len(sorted)
       PROVE  \E x \in ids \cap contacts : sorted[k] = findGroupForAircraft(x, order)
  <2>1. PICK j \in 1 .. Len(groups) : sorted[k] = groups[j]
    BY <1>5, <1>7 DEF Range
  <2> QED
    BY <2>1, <1>1 DEF GroupsStartedBy
<1>12. GroupsStartedBy(named, ids, order)
  <2> SUFFICES ASSUME NEW k \in 1 .. n
               PROVE  \E x \in ids \cap contacts : named[k] = findGroupForAircraft(x, order)
    BY <1>9 DEF GroupsStartedBy
  <2>1. k \in 1 .. Len(sorted) /\ named[k] = sorted[k]
    BY <1>7, <1>8, <1>9
  <2> QED
    BY <1>11, <2>1
<1>13. ASSUME NEW id \in ids, ~InSome(id, named)
       PROVE  \E x \in ids \cap contacts :
                LET left == findGroupForAircraft(x, order)
                IN  /\ id \in Range(left)
                    /\ \A k \in 1 .. Len(named) : Rank(named[k], center) <= Rank(left, center)
  <2>1. PICK j \in 1 .. Len(groups) : id \in Range(groups[j])
    BY <1>1 DEF InSome
  <2>2. PICK i \in 1 .. Len(sorted) : sorted[i] = groups[j]
    BY <1>5, <1>7 DEF Range
  <2>3. i > n
    <3>1. CASE i <= n
      <4>1. i \in 1 .. n
        BY <1>7, <1>8, <3>1
      <4> QED
        BY <1>9, <1>13, <2>1, <2>2, <4>1 DEF InSome
    <3> QED
      BY <1>7, <1>8, <3>1
  <2>4. PICK x \in ids \cap contacts : sorted[i] = findGroupForAircraft(x, order)
    BY <1>11
  <2>5. ASSUME NEW k \in 1 .. n
        PROVE  Rank(named[k], center) <= Rank(sorted[i], center)
    <3>1. k \in 1 .. Len(sorted) /\ k < i /\ named[k] = sorted[k]
      BY <1>7, <1>8, <1>9, <2>3
    <3>2. rank[sorted[k]] <= rank[sorted[i]]
      BY <1>6, <3>1 DEF Ascending
    <3>3. sorted[k] \in Seq(contacts) /\ sorted[i] \in Seq(contacts)
      BY <1>5, <3>1
    <3> QED
      BY <1>3, <3>1, <3>2, <3>3
  <2> QED
    BY <1>9, <2>1, <2>2, <2>4, <2>5
<1>14. n = Min({3, Len(groups)}) /\ Len(groups) \in Nat
  BY <1>5, <1>7 DEF n
<1> QED
  BY <1>2, <1>9, <1>10, <1>12, <1>13, <1>14 DEF ids

----------------------------------------------------------------------------
(* THREAT *)

\* The receivers of a THREAT call are contacts on frequency, and of the other
\* side.
THEOREM ReceiversFriendly ==
    ASSUME WorldTypeOK, NEW order \in Orders, NEW grp, NEW onFrequency
    PROVE  /\ Receivers(grp, onFrequency, order) \in Seq(contacts)
           /\ \A id \in Range(Receivers(grp, onFrequency, order)) :
                /\ id \in onFrequency
                /\ track[id].coalition = Opposite(track[grp[1]].coalition)
<1> DEFINE friendly == Opposite(track[grp[1]].coalition)
           radius == Max({100 * NM, MandatoryThreatRadius})
           groups == findNearbyGroups(point(grp), 0, highestAltitude, radius, friendly,
                                      "Aircraft", {}, order)
           ids == Nearby(point(grp), 0, highestAltitude, radius, friendly, "Aircraft", {})
           endangered(fg) ==
               /\ isGroupWithinThreatRadius(grp, Distance(point(grp), point(fg)))
               /\ ~(category(grp) = "RotaryWing" /\ category(fg) = "FixedWing")
           lower == {p \in contacts \X contacts : p[1] < p[2]}
           ObjectIDs(fg) == SortFunc(fg, lower)
           A == Seq(contacts)
           inner == [found \in A |-> [id \in contacts |->
                       IF id \in onFrequency THEN Append(found, id) ELSE found]]
           outer == [receivers \in A |-> [fg \in A |->
                       IF endangered(fg) THEN Loop(inner, receivers, ObjectIDs(fg))
                       ELSE receivers]]
           Right(id) == id \in onFrequency /\ track[id].coalition = friendly
           I == {s \in A : \A i \in 1 .. Len(s) : Right(s[i])}
<1>1. /\ groups \in Seq(A)
      /\ GroupsStartedBy(groups, ids, order)
  BY NearbyGroups
<1>2. \A id \in ids : track[id].coalition = friendly
  BY DEF Nearby, isMatch
<1>3. order \in Seq(contacts)
  BY OrderCovers
<1>4. Receivers(grp, onFrequency, order) = Loop(outer, <<>>, groups)
  BY DEF Receivers
<1> HIDE DEF groups, ids, friendly, endangered, lower, radius
<1>5. \A k \in 1 .. Len(groups) :
         groups[k] \in A /\ \A id \in Range(groups[k]) : track[id].coalition = friendly
  <2> SUFFICES ASSUME NEW k \in 1 .. Len(groups)
               PROVE  /\ groups[k] \in Seq(contacts)
                      /\ \A id \in Range(groups[k]) : track[id].coalition = friendly
    OBVIOUS
  <2> HIDE DEF A
  <2> QED
    BY <1>1, <1>2, <1>3, GroupsOfCoalition
<1>6. \A found \in A : \A id \in contacts : inner[found][id] \in A
  OBVIOUS
<1>7. ASSUME NEW found \in I, NEW id \in contacts, track[id].coalition = friendly
      PROVE  inner[found][id] \in I
  <2>1. found \in A /\ \A i \in 1 .. Len(found) : Right(found[i])
    OBVIOUS
  <2>2. CASE id \in onFrequency
    <3>1. inner[found][id] = Append(found, id)
      BY <2>1, <2>2
    <3>2. /\ Append(found, id) \in A
          /\ Len(Append(found, id)) = Len(found) + 1
          /\ Append(found, id)[Len(found) + 1] = id
          /\ \A i \in 1 .. Len(found) : Append(found, id)[i] = found[i]
          /\ Len(found) \in Nat
      BY <2>1
    <3>3. Right(id)
      BY <1>7, <2>2
    <3> HIDE DEF Right, inner
    <3>4. \A i \in 1 .. Len(found) + 1 : Right(Append(found, id)[i])
      <4> SUFFICES ASSUME NEW i \in 1 .. Len(found) + 1
                   PROVE  Right(Append(found, id)[i])
        OBVIOUS
      <4>1. CASE i = Len(found) + 1
        BY <3>2, <3>3, <4>1
      <4>2. CASE i # Len(found) + 1
        <5>1. i \in 1 .. Len(found)
          BY <3>2, <4>2
        <5> QED
          BY <2>1, <3>2, <5>1
      <4> QED
        BY <4>1, <4>2
    <3> QED
      BY <3>1, <3>2, <3>4
  <2>3. CASE id \notin onFrequency
    <3>1. inner[found][id] = found
      BY <2>1, <2>3
    <3> QED
      BY <3>1
  <2> QED
    BY <2>2, <2>3
<1> HIDE DEF inner, Right
<1>8. \A fg \in A : ObjectIDs(fg) \in A /\ Range(ObjectIDs(fg)) = Range(fg)
  BY SortFuncKeeps
<1> HIDE DEF ObjectIDs
<1>9. ASSUME NEW receivers \in A, NEW fg \in A
      PROVE  Loop(inner, receivers, ObjectIDs(fg)) \in A
  <2>1. ObjectIDs(fg) \in A
    BY <1>8
  <2>2. \A i \in 1 .. Len(ObjectIDs(fg)) : \A a \in A :
           a \in A => inner[a][ObjectIDs(fg)[i]] \in A
    BY <1>6, <2>1
  <2> HIDE DEF A
  <2>3. ObjectIDs(fg) \in Seq(contacts)
    BY <2>1 DEF A
  <2> QED
    BY <1>6, <2>2, <2>3, LoopKeeps
<1>10. ASSUME NEW receivers \in I, NEW fg \in A,
              \A id \in Range(fg) : track[id].coalition = friendly
       PROVE  Loop(inner, receivers, ObjectIDs(fg)) \in I
  <2>1. ObjectIDs(fg) \in A /\ Range(ObjectIDs(fg)) = Range(fg)
    BY <1>8
  <2>2. \A i \in 1 .. Len(ObjectIDs(fg)) :
           /\ ObjectIDs(fg)[i] \in contacts
           /\ track[ObjectIDs(fg)[i]].coalition = friendly
    <3> SUFFICES ASSUME NEW i \in 1 .. Len(ObjectIDs(fg))
                 PROVE  /\ ObjectIDs(fg)[i] \in contacts
                        /\ track[ObjectIDs(fg)[i]].coalition = friendly
      OBVIOUS
    <3>1. i \in DOMAIN ObjectIDs(fg) /\ ObjectIDs(fg)[i] \in contacts
      BY <2>1
    <3>2. ObjectIDs(fg)[i] \in Range(fg)
      BY <2>1, <3>1 DEF Range
    <3> QED
      BY <1>10, <3>1, <3>2
  <2>3. \A i \in 1 .. Len(ObjectIDs(fg)) : \A a \in A :
           a \in I => inner[a][ObjectIDs(fg)[i]] \in I
    <3> HIDE DEF I
    <3> QED
      BY <1>7, <2>2
  <2>4. receivers \in A
    OBVIOUS
  <2>5. ObjectIDs(fg) \in Seq(contacts)
    BY <2>1
  <2> HIDE DEF A, I
  <2> QED
    BY <1>6, <1>10, <2>3, <2>4, <2>5, LoopKeeps
<1>11. \A receivers \in A : \A fg \in A : outer[receivers][fg] \in A
  BY <1>9
<1>12. ASSUME NEW k \in 1 .. Len(groups), NEW receivers \in A, receivers \in I
       PROVE  outer[receivers][groups[k]] \in I
  <2>1. groups[k] \in A /\ \A id \in Range(groups[k]) : track[id].coalition = friendly
    BY <1>5
  <2>2. Loop(inner, receivers, ObjectIDs(groups[k])) \in I
    BY <1>10, <1>12, <2>1
  <2>3. outer[receivers][groups[k]] =
          IF endangered(groups[k]) THEN Loop(inner, receivers, ObjectIDs(groups[k]))
          ELSE receivers
    BY <2>1
  <2> HIDE DEF outer, I
  <2> QED
    BY <1>12, <2>2, <2>3
<1>13. <<>> \in A /\ <<>> \in I
  OBVIOUS
<1>14. Loop(outer, <<>>, groups) \in A /\ Loop(outer, <<>>, groups) \in I
  <2> HIDE DEF A, I, outer
  <2> QED
    BY <1>1, <1>11, <1>12, <1>13, LoopKeeps
<1> DEFINE r == Receivers(grp, onFrequency, order)
<1>15. r \in A /\ r \in I
  <2> HIDE DEF A, I, outer
  <2> QED
    BY <1>4, <1>14
<1> HIDE DEF r, outer
<1>16. \A id \in Range(r) : Right(id)
  <2>1. DOMAIN r = 1 .. Len(r)
    BY <1>15
  <2> QED
    BY <1>15, <2>1 DEF Range
<1> QED
  BY <1>15, <1>16 DEF r, Right, friendly

=============================================================================
