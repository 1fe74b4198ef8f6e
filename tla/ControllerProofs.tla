-------------------------- MODULE ControllerProofs --------------------------
(***************************************************************************)
(* The controller's trackers for every set of hostiles and friendlies,     *)
(* whatever groups the scope reports, overlapping ones included, and the   *)
(* history of its THREAT calls.                                            *)
(***************************************************************************)
EXTENDS CallHistory, TLAPS

\* The type of mergeTracker.merged.
MergedTypeOK == IsMap(merged, Hostile, (SUBSET Friendly) \ {{}})

\* A step that only takes merges away.
Shrinks ==
    /\ DOMAIN merged' \subseteq DOMAIN merged
    /\ \A h \in DOMAIN merged' : merged'[h] \subseteq merged[h]

----------------------------------------------------------------------------
(* The merge tracker's methods *)

\* Dropping the hostiles without friendlies gives a map without empty sets.
LEMMA NonEmptyIsMap ==
    ASSUME NEW m, IsMap(m, Hostile, SUBSET Friendly)
    PROVE  /\ IsMap(NonEmpty(m), Hostile, (SUBSET Friendly) \ {{}})
           /\ DOMAIN NonEmpty(m) \subseteq DOMAIN m
           /\ \A h \in DOMAIN NonEmpty(m) : NonEmpty(m)[h] = m[h]
BY DEF IsMap, NonEmpty, Restrict

\* separate takes merges away and keeps the type.
LEMMA SeparateShrinks ==
    ASSUME MergedTypeOK, NEW h, NEW fs, separate(h, fs)
    PROVE  /\ MergedTypeOK' /\ Shrinks
           /\ h \in DOMAIN merged' => merged'[h] = merged[h] \ fs
<1> DEFINE m == [x \in DOMAIN merged |->
                   IF x = h THEN merged[x] \ fs ELSE merged[x]]
<1>1. IsMap(m, Hostile, SUBSET Friendly)
  BY DEF IsMap, MergedTypeOK
<1>2. merged' = NonEmpty(m)
  BY DEF separate
<1>3. /\ IsMap(merged', Hostile, (SUBSET Friendly) \ {{}})
      /\ DOMAIN merged' \subseteq DOMAIN m
      /\ \A x \in DOMAIN merged' : merged'[x] = m[x]
  BY <1>1, <1>2, NonEmptyIsMap
<1> QED BY <1>3 DEF MergedTypeOK, Shrinks

\* remove takes merges away and keeps the type.
LEMMA RemoveShrinks ==
    ASSUME MergedTypeOK, NEW ids, remove(ids)
    PROVE  MergedTypeOK' /\ Shrinks /\ DOMAIN merged' \cap ids = {}
<1> DEFINE m == [h \in DOMAIN merged \ ids |-> merged[h] \ ids]
<1>1. IsMap(m, Hostile, SUBSET Friendly)
  BY DEF IsMap, MergedTypeOK
<1>2. merged' = NonEmpty(m)
  BY DEF remove
<1>3. /\ IsMap(merged', Hostile, (SUBSET Friendly) \ {{}})
      /\ DOMAIN merged' \subseteq DOMAIN m
      /\ \A x \in DOMAIN merged' : merged'[x] = m[x]
  BY <1>1, <1>2, NonEmptyIsMap
<1> QED BY <1>3 DEF MergedTypeOK, Shrinks

\* keep leaves the entries of the given hostiles as they are.
LEMMA KeepShrinks ==
    ASSUME MergedTypeOK, NEW ids, keep(ids)
    PROVE  MergedTypeOK' /\ Shrinks /\ DOMAIN merged' \subseteq ids
BY DEF MergedTypeOK, IsMap, keep, Restrict, Shrinks

\* merge adds one friendly to one hostile.
LEMMA MergeAdds ==
    ASSUME MergedTypeOK, NEW h \in Hostile, NEW f \in Friendly, merge(h, f)
    PROVE  /\ MergedTypeOK'
           /\ DOMAIN merged' = DOMAIN merged \cup {h}
           /\ merged'[h] = friendliesMergedWith(h) \cup {f}
           /\ \A x \in DOMAIN merged' \ {h} : merged'[x] = merged[x]
BY DEF MergedTypeOK, IsMap, merge, Put, friendliesMergedWith

----------------------------------------------------------------------------
(* Type correctness *)

\* The types of everything but the merges.
RestTypeOK ==
    /\ present \in SUBSET Contact
    /\ threatCooldowns \in [Contact -> Nat]
    /\ mergeCooldowns \in [Contact -> Nat]
    /\ loopPc \in LoopPc
    /\ listed \in SUBSET Group
    /\ todo \in SUBSET Group
    /\ group \in Group
    /\ hostiles \in SUBSET Hostile
    /\ hostile \in Hostile \cup {Nil}
    /\ loopPc = "contacts" => hostile \in Hostile
    /\ friends \in SUBSET Friendly
    /\ newMerged \in SUBSET Friendly
    /\ notify \in SUBSET Friendly
    /\ waiting \in [Thread -> SUBSET Contact]
    /\ ops \in [Thread -> Seq(Op)]

\* TypeOK is the two together.
LEMMA TypeParts == TypeOK <=> MergedTypeOK /\ RestTypeOK
BY DEF TypeOK, MergedTypeOK, RestTypeOK

\* Initially every variable has its type.
LEMMA TypeInit == Init => TypeOK
<1> SUFFICES ASSUME Init PROVE MergedTypeOK /\ RestTypeOK
  BY TypeParts
<1>1. MergedTypeOK
  BY DEF Init, MergedTypeOK, IsMap, EmptyMap
<1>2. ops \in [Thread -> Seq(Op)] /\ waiting \in [Thread -> SUBSET Contact]
  BY DEF Init, Thread
<1>3. group \in Group
  BY DEF Init, Group, NoGroup
<1>4. /\ threatCooldowns \in [Contact -> Nat]
      /\ mergeCooldowns \in [Contact -> Nat]
  BY DEF Init
<1> QED BY <1>1, <1>2, <1>3, <1>4 DEF Init, RestTypeOK, LoopPc

\* A report of the scope is a set of groups.
LEMMA ReportsType == ASSUME NEW r \in Reports PROVE r \subseteq Group
BY DEF Reports, Group

\* The operations of a callback are operations.
LEMMA OpType ==
    ASSUME NEW tracker \in Tracker, NEW ids \in SUBSET Contact
    PROVE  [tracker |-> tracker, ids |-> ids] \in Op
BY DEF Op

\* broadcastMerges keeps the types.
LEMMA MergesTypeStep == ASSUME TypeOK, MergesNext PROVE TypeOK'
<1> SUFFICES MergedTypeOK' /\ RestTypeOK'
  BY TypeParts DEF TypeOK, MergedTypeOK, RestTypeOK
<1>0. MergedTypeOK /\ RestTypeOK
  BY TypeParts
<1> USE DEF trackers, callbacks, LoopPc
<1>1. CASE StartRound
  BY <1>0, <1>1, ReportsType DEF StartRound, MergedTypeOK, RestTypeOK
<1>2. CASE KeepListed
  <2>1. MergedTypeOK'
    BY <1>0, <1>2, KeepShrinks DEF KeepListed
  <2> QED BY <1>0, <1>2, <2>1 DEF KeepListed, RestTypeOK
<1>3. ASSUME NEW g \in Group, TakeGroup(g) PROVE MergedTypeOK' /\ RestTypeOK'
  BY <1>0, <1>3 DEF TakeGroup, MergedTypeOK, RestTypeOK, Group
<1>4. ASSUME NEW h \in Hostile, VisitHostile(h)
      PROVE  MergedTypeOK' /\ RestTypeOK'
  <2>1. MergedTypeOK'
    BY <1>0, <1>4, SeparateShrinks, RemoveShrinks DEF VisitHostile
  <2> QED BY <1>0, <1>4, <2>1 DEF VisitHostile, RestTypeOK, Group
<1>5. ASSUME NEW f \in Friendly, NEW distance, CompareContact(f, distance)
      PROVE  MergedTypeOK' /\ RestTypeOK'
  <2>1. hostile \in Hostile
    BY <1>0, <1>5 DEF CompareContact, RestTypeOK
  <2>2. MergedTypeOK' /\ newMerged' \in SUBSET Friendly
    <3>1. CASE merge(hostile, f) /\ newMerged' = newMerged \cup {f}
      BY <1>0, <2>1, <3>1, MergeAdds DEF RestTypeOK
    <3>2. CASE separate(hostile, {f}) /\ UNCHANGED newMerged
      BY <1>0, <3>2, SeparateShrinks DEF RestTypeOK
    <3>3. CASE UNCHANGED <<merged, newMerged>>
      BY <1>0, <3>3 DEF MergedTypeOK, RestTypeOK
    <3> QED BY <1>5, <3>1, <3>2, <3>3 DEF CompareContact
  <2> QED BY <1>0, <1>5, <2>2 DEF CompareContact, RestTypeOK
<1>6. CASE EndContacts \/ EndHostiles
  BY <1>0, <1>6 DEF EndContacts, EndHostiles, MergedTypeOK, RestTypeOK, Group,
                    NoGroup
<1>7. ASSUME NEW f \in Friendly, CheckCooldown(f)
      PROVE  MergedTypeOK' /\ RestTypeOK'
  BY <1>0, <1>7, ControllerAssumption
     DEF CheckCooldown, MergedTypeOK, RestTypeOK
<1>8. ASSUME NEW named \in SUBSET Friendly, CreateMergedCall(named)
      PROVE  MergedTypeOK' /\ RestTypeOK'
  BY <1>0, <1>8 DEF CreateMergedCall, MergedTypeOK, RestTypeOK
<1>9. CASE SendMerged
  BY <1>0, <1>9 DEF SendMerged, MergedTypeOK, RestTypeOK
<1> QED
  BY <1>1, <1>2, <1>3, <1>4, <1>5, <1>6, <1>7, <1>8, <1>9 DEF MergesNext

\* broadcastThreats keeps the types.
LEMMA ThreatsTypeStep == ASSUME TypeOK, ThreatsNext PROVE TypeOK'
<1> SUFFICES MergedTypeOK' /\ RestTypeOK'
  BY TypeParts DEF TypeOK, MergedTypeOK, RestTypeOK
<1>0. MergedTypeOK /\ RestTypeOK
  BY TypeParts
<1> USE DEF trackers, callbacks, LoopPc
<1>1. CASE EndMerges
  BY <1>0, <1>1, ReportsType DEF EndMerges, MergedTypeOK, RestTypeOK
<1>2. ASSUME NEW g \in Group, NEW named \in SUBSET Friendly,
             TakeThreat(g, named)
      PROVE  MergedTypeOK' /\ RestTypeOK'
  BY <1>0, <1>2 DEF TakeThreat, MergedTypeOK, RestTypeOK, Group
<1>3. CASE SendThreat
  BY <1>0, <1>3 DEF SendThreat, MergedTypeOK, RestTypeOK
<1>4. ASSUME NEW h \in Hostile, ExtendThreat(h)
      PROVE  MergedTypeOK' /\ RestTypeOK'
  BY <1>0, <1>4, ControllerAssumption
     DEF ExtendThreat, MergedTypeOK, RestTypeOK
<1>5. CASE EndExtend \/ EndThreats
  BY <1>0, <1>5 DEF EndExtend, EndThreats, MergedTypeOK, RestTypeOK
<1> QED BY <1>1, <1>2, <1>3, <1>4, <1>5 DEF ThreatsNext

\* The callbacks keep the types.
LEMMA RemovalTypeStep ==
    ASSUME TypeOK, NEW t \in Thread, RemovalNext(t) PROVE TypeOK'
<1> SUFFICES MergedTypeOK' /\ RestTypeOK'
  BY TypeParts DEF TypeOK, MergedTypeOK, RestTypeOK
<1>0. MergedTypeOK /\ RestTypeOK
  BY TypeParts
<1> USE DEF trackers, loop
<1>1. ASSUME NEW id \in Contact, StartRemove(t, id)
      PROVE  MergedTypeOK' /\ RestTypeOK'
  <2>1. <<[tracker |-> "threatCooldowns", ids |-> {id}],
          [tracker |-> "mergeCooldowns", ids |-> {id}],
          [tracker |-> "merges", ids |-> {id}]>> \in Seq(Op)
    BY OpType DEF Tracker
  <2>2. ops' \in [Thread -> Seq(Op)]
    BY <1>0, <1>1, <2>1 DEF StartRemove, RestTypeOK
  <2>3. waiting' \in [Thread -> SUBSET Contact]
    BY <1>0, <1>1 DEF StartRemove, RestTypeOK
  <2> QED BY <1>0, <1>1, <2>2, <2>3 DEF StartRemove, MergedTypeOK, RestTypeOK
<1>2. CASE RemoveNext(t)
  <2>1. ops[t] \in Seq(Op) /\ ops[t] # <<>>
    BY <1>0, <1>2 DEF RemoveNext, RestTypeOK
  <2>2. Head(ops[t]) \in Op /\ Tail(ops[t]) \in Seq(Op)
    BY <2>1
  <2>3. ops' \in [Thread -> Seq(Op)]
    BY <1>0, <1>2, <2>2 DEF RemoveNext, RestTypeOK
  <2> DEFINE op == Head(ops[t])
  <2>4. op.tracker \in Tracker /\ op.ids \in SUBSET Contact
    BY <2>2 DEF Op
  <2>5. MergedTypeOK' /\ threatCooldowns' \in [Contact -> Nat]
        /\ mergeCooldowns' \in [Contact -> Nat]
    <3>1. CASE /\ remove(op.ids)
               /\ UNCHANGED <<threatCooldowns, mergeCooldowns>>
      BY <1>0, <3>1, RemoveShrinks DEF RestTypeOK
    <3>2. CASE /\ threatCooldowns' = removed(threatCooldowns, op.ids)
               /\ UNCHANGED <<merged, mergeCooldowns>>
      BY <1>0, <3>2 DEF RestTypeOK, MergedTypeOK, removed
    <3>3. CASE /\ mergeCooldowns' = removed(mergeCooldowns, op.ids)
               /\ UNCHANGED <<merged, threatCooldowns>>
      BY <1>0, <3>3 DEF RestTypeOK, MergedTypeOK, removed
    <3> QED BY <1>2, <3>1, <3>2, <3>3 DEF RemoveNext
  <2> QED BY <1>0, <1>2, <2>3, <2>5 DEF RemoveNext, RestTypeOK
<1> QED BY <1>1, <1>2 DEF RemovalNext

\* What happens on the scope, and the passage of time, keep the types.
LEMMA ScopeTypeStep == ASSUME TypeOK, ScopeNext \/ Tick PROVE TypeOK'
<1> SUFFICES MergedTypeOK' /\ RestTypeOK'
  BY TypeParts DEF TypeOK, MergedTypeOK, RestTypeOK
<1>0. MergedTypeOK /\ RestTypeOK
  BY TypeParts
<1> USE DEF trackers, loop, callbacks
<1>1. ASSUME NEW id \in Contact, Appear(id) \/ Expired(id)
      PROVE  MergedTypeOK' /\ RestTypeOK'
  BY <1>0, <1>1 DEF Appear, Expired, MergedTypeOK, RestTypeOK, Thread
<1>2. ASSUME NEW ids \in SUBSET Contact, NEW gone \in SUBSET Contact,
             Faded(ids, gone)
      PROVE  MergedTypeOK' /\ RestTypeOK'
  BY <1>0, <1>2 DEF Faded, MergedTypeOK, RestTypeOK, Thread
<1>3. CASE Started
  <2>1. <<[tracker |-> "merges", ids |-> Contact],
          [tracker |-> "threatCooldowns", ids |-> Contact],
          [tracker |-> "mergeCooldowns", ids |-> Contact]>> \in Seq(Op)
    BY OpType DEF Tracker
  <2>2. ops' \in [Thread -> Seq(Op)]
    BY <1>0, <1>3, <2>1 DEF Started, RestTypeOK
  <2> QED BY <1>0, <1>3, <2>2 DEF Started, MergedTypeOK, RestTypeOK
<1>4. CASE Tick
  BY <1>0, <1>4 DEF Tick, elapsed, MergedTypeOK, RestTypeOK
<1> QED BY <1>1, <1>2, <1>3, <1>4 DEF ScopeNext

\* Every step keeps the types.
LEMMA TypeStep == TypeOK /\ [Next]_vars => TypeOK'
<1> SUFFICES ASSUME TypeOK, [Next]_vars PROVE TypeOK'
  OBVIOUS
<1>1. CASE LoopNext
  BY <1>1, MergesTypeStep, ThreatsTypeStep DEF LoopNext
<1>2. CASE \E t \in Thread : RemovalNext(t)
  BY <1>2, RemovalTypeStep
<1>3. CASE ScopeNext \/ Tick
  BY <1>3, ScopeTypeStep
<1>4. CASE UNCHANGED vars
  BY <1>4 DEF vars, TypeOK
<1> QED BY <1>1, <1>2, <1>3, <1>4 DEF Next

\* The controller's trackers and its loop are well typed, whatever the
\* callbacks do between two steps of a round; in particular mergeTracker never
\* keeps a hostile that has merged with nobody.
THEOREM TypeCorrect == Spec => []TypeOK
BY TypeInit, TypeStep, PTL DEF Spec

----------------------------------------------------------------------------
(* The merges on record are merges the scope listed *)

\* The friendlies of a listed group are listed with each of its hostiles.
LEMMA ListedWith ==
    ASSUME NEW g \in listed, NEW h \in g.hostiles
    PROVE  g.friends \subseteq FriendsListedWith(h)
BY DEF FriendsListedWith

\* The inductive invariant.
RoundInv == TypeOK /\ RoundSound /\ MergesFollowScope

\* Initially nothing is merged.
LEMMA RoundInit == Init => RoundSound /\ MergesFollowScope
BY DEF Init, RoundSound, MergesFollowScope, EmptyMap

\* The callbacks may take merges away at any point of a round.
LEMMA ShrinkingIsSound ==
    ASSUME RoundInv, Shrinks, UNCHANGED loop
    PROVE  RoundSound' /\ MergesFollowScope'
<1>1. \A h : FriendsListedWith(h)' = FriendsListedWith(h)
  BY DEF FriendsListedWith, loop
<1>2. MergesFollowScope'
  BY <1>1 DEF RoundInv, MergesFollowScope, Shrinks, loop
<1>3. RoundSound'
  BY <1>1 DEF RoundInv, RoundSound, Shrinks, loop
<1> QED BY <1>2, <1>3

\* A step of broadcastMerges keeps the unlisted merges to the hostiles whose
\* turn is still to come.
LEMMA MergesRoundStep ==
    ASSUME RoundInv, MergesNext PROVE RoundSound' /\ MergesFollowScope'
<1> USE DEF trackers, callbacks
<1>0. MergedTypeOK /\ RestTypeOK
  BY TypeParts DEF RoundInv
<1>1. CASE StartRound
  BY <1>1 DEF StartRound, RoundInv, RoundSound, MergesFollowScope
<1> SUFFICES ASSUME ~StartRound PROVE RoundSound' /\ MergesFollowScope'
  BY <1>1
<1>2. CASE KeepListed
  <2>1. Shrinks /\ DOMAIN merged' \subseteq UNION {g.hostiles : g \in listed}
    BY <1>0, <1>2, KeepShrinks DEF KeepListed
  <2>2. todo = listed /\ hostiles = {}
    BY <1>2 DEF KeepListed, RoundInv, RoundSound
  <2>3. \A h \in DOMAIN merged' : \E g \in todo : h \in g.hostiles
    BY <2>1, <2>2
  <2> QED
    BY <1>2, <2>2, <2>3 DEF KeepListed, RoundSound, MergesFollowScope
<1>u. (\A h : FriendsListedWith(h)' = FriendsListedWith(h)) \/ KeepListed
  BY DEF MergesNext, TakeGroup, VisitHostile, CompareContact, EndContacts,
         EndHostiles, CheckCooldown, CreateMergedCall, SendMerged,
         FriendsListedWith
<1>3. ASSUME NEW g \in Group, TakeGroup(g), ~KeepListed
      PROVE  RoundSound' /\ MergesFollowScope'
  BY <1>3, <1>u DEF TakeGroup, RoundInv, RoundSound, MergesFollowScope
<1>4. ASSUME NEW h \in Hostile, VisitHostile(h), ~KeepListed
      PROVE  RoundSound' /\ MergesFollowScope'
  <2>1. /\ group \in listed /\ hostiles \subseteq group.hostiles
        /\ todo \subseteq listed
    BY <1>4 DEF VisitHostile, RoundInv, RoundSound
  <2>2. Shrinks
    BY <1>0, <1>4, SeparateShrinks, RemoveShrinks DEF VisitHostile
  <2>3. h \in DOMAIN merged' => merged'[h] \subseteq FriendsListedWith(h)
    <3>1. CASE h \in present
      <4>1. separate(h, friendliesMergedWith(h) \ group.friends)
        BY <1>4, <3>1 DEF VisitHostile
      <4>2. h \in DOMAIN merged'
              => /\ h \in DOMAIN merged
                 /\ merged'[h] = merged[h]
                                   \ (friendliesMergedWith(h) \ group.friends)
        BY <1>0, <4>1, SeparateShrinks DEF Shrinks
      <4>3. h \in DOMAIN merged' => merged'[h] \subseteq group.friends
        BY <4>2 DEF friendliesMergedWith
      <4>4. group.friends \subseteq FriendsListedWith(h)
        BY <1>4, <2>1, ListedWith DEF VisitHostile
      <4> QED BY <4>3, <4>4
    <3>2. CASE h \notin present
      BY <1>0, <1>4, <3>2, RemoveShrinks DEF VisitHostile
    <3> QED BY <3>1, <3>2
  <2>4. \A x \in DOMAIN merged' :
          \/ x \in hostiles'
          \/ \E g \in todo' : x \in g.hostiles
          \/ merged'[x] \subseteq FriendsListedWith(x)
    BY <1>4, <2>2, <2>3 DEF VisitHostile, RoundInv, RoundSound, Shrinks
  <2>5. loopPc' \in {"hostiles", "contacts"} /\ group' = group
        /\ listed' = listed /\ todo' = todo /\ hostiles' \subseteq hostiles
        /\ (loopPc' = "contacts" => hostile' = h /\ friends' = group.friends)
        /\ h \in group.hostiles
    BY <1>4, <2>1 DEF VisitHostile
  <2> QED
    BY <1>4, <1>u, <2>1, <2>4, <2>5 DEF RoundSound, MergesFollowScope
<1>5. ASSUME NEW f \in Friendly, NEW distance, CompareContact(f, distance),
             ~KeepListed
      PROVE  RoundSound' /\ MergesFollowScope'
  <2>1. /\ hostile \in Hostile /\ hostile \in group.hostiles
        /\ friends \subseteq group.friends /\ group \in listed
        /\ loopPc = "contacts" /\ f \in friends
    BY <1>0, <1>5 DEF CompareContact, RoundInv, RoundSound, RestTypeOK
  <2>2. f \in FriendsListedWith(hostile)
    BY <2>1, ListedWith
  <2>3. \A x \in DOMAIN merged' :
          \/ x \in DOMAIN merged /\ merged'[x] \subseteq merged[x]
          \/ /\ x = hostile
             /\ merged'[x] \subseteq friendliesMergedWith(x) \cup {f}
    <3>1. CASE merge(hostile, f)
      <4>1. /\ DOMAIN merged' = DOMAIN merged \cup {hostile}
            /\ merged'[hostile] = friendliesMergedWith(hostile) \cup {f}
            /\ \A x \in DOMAIN merged' \ {hostile} : merged'[x] = merged[x]
        BY <1>0, <2>1, <3>1, MergeAdds
      <4> QED BY <4>1
    <3>2. CASE separate(hostile, {f})
      BY <1>0, <3>2, SeparateShrinks DEF Shrinks
    <3>3. CASE UNCHANGED merged
      BY <3>3
    <3> QED BY <1>5, <3>1, <3>2, <3>3 DEF CompareContact
  <2>4. \A x \in DOMAIN merged :
          \/ x \in hostiles
          \/ \E g \in todo : x \in g.hostiles
          \/ merged[x] \subseteq FriendsListedWith(x)
    BY <2>1 DEF RoundInv, RoundSound
  <2>5. \A x \in DOMAIN merged' :
          \/ x \in hostiles
          \/ \E g \in todo : x \in g.hostiles
          \/ merged'[x] \subseteq FriendsListedWith(x)
    BY <2>2, <2>3, <2>4 DEF friendliesMergedWith
  <2>6. UNCHANGED <<loopPc, listed, todo, group, hostiles, hostile>>
        /\ friends' \subseteq friends
    BY <1>5 DEF CompareContact
  <2>7. todo \subseteq listed /\ hostiles \subseteq group.hostiles
    BY <2>1 DEF RoundInv, RoundSound
  <2>8. \A h : FriendsListedWith(h)' = FriendsListedWith(h)
    BY <1>5, <1>u
  <2>9. MergesFollowScope'
    BY <2>1, <2>6 DEF MergesFollowScope
  <2>10. RoundSound'
    BY <2>1, <2>5, <2>6, <2>7, <2>8 DEF RoundSound
  <2> QED BY <2>9, <2>10
<1>6. CASE (EndContacts \/ EndHostiles) /\ ~KeepListed
  BY <1>6, <1>u
  DEF EndContacts, EndHostiles, RoundInv, RoundSound, MergesFollowScope
<1>7. ASSUME NEW f \in Friendly, CheckCooldown(f), ~KeepListed
      PROVE  RoundSound' /\ MergesFollowScope'
  BY <1>7, <1>u DEF CheckCooldown, RoundInv, RoundSound, MergesFollowScope
<1>8. ASSUME NEW named \in SUBSET Friendly, CreateMergedCall(named),
             ~KeepListed
      PROVE  RoundSound' /\ MergesFollowScope'
  BY <1>8, <1>u DEF CreateMergedCall, RoundInv, RoundSound, MergesFollowScope
<1>9. CASE SendMerged /\ ~KeepListed
  BY <1>9, <1>u DEF SendMerged, RoundInv, RoundSound, MergesFollowScope
<1> QED
  BY <1>2, <1>3, <1>4, <1>5, <1>6, <1>7, <1>8, <1>9 DEF MergesNext

\* broadcastThreats leaves the merges alone; when it starts, no hostile's turn
\* is still to come.
LEMMA ThreatsRoundStep ==
    ASSUME RoundInv, ThreatsNext PROVE RoundSound' /\ MergesFollowScope'
<1> USE DEF trackers, callbacks
<1>1. \A h : FriendsListedWith(h)' = FriendsListedWith(h)
  BY DEF ThreatsNext, EndMerges, TakeThreat, SendThreat, ExtendThreat,
         EndExtend, EndThreats, FriendsListedWith
<1>2. CASE EndMerges
  BY <1>1, <1>2 DEF EndMerges, RoundInv, RoundSound, MergesFollowScope
<1>3. ASSUME NEW g \in Group, NEW named \in SUBSET Friendly,
             TakeThreat(g, named)
      PROVE  RoundSound' /\ MergesFollowScope'
  BY <1>1, <1>3 DEF TakeThreat, RoundInv, RoundSound, MergesFollowScope
<1>4. CASE SendThreat
  BY <1>1, <1>4 DEF SendThreat, RoundInv, RoundSound, MergesFollowScope
<1>5. ASSUME NEW h \in Hostile, ExtendThreat(h)
      PROVE  RoundSound' /\ MergesFollowScope'
  BY <1>1, <1>5 DEF ExtendThreat, RoundInv, RoundSound, MergesFollowScope
<1>6. CASE EndExtend \/ EndThreats
  BY <1>1, <1>6 DEF EndExtend, EndThreats, RoundInv, RoundSound,
                    MergesFollowScope
<1> QED BY <1>2, <1>3, <1>4, <1>5, <1>6 DEF ThreatsNext

\* Every step keeps the inductive invariant.
LEMMA RoundStep == RoundInv /\ [Next]_vars => RoundInv'
<1> SUFFICES ASSUME RoundInv, [Next]_vars
             PROVE  RoundSound' /\ MergesFollowScope'
  BY TypeStep DEF RoundInv
<1>1. CASE LoopNext
  BY <1>1, MergesRoundStep, ThreatsRoundStep DEF LoopNext
<1>2. ASSUME NEW t \in Thread, RemovalNext(t)
      PROVE  RoundSound' /\ MergesFollowScope'
  <2>1. MergedTypeOK
    BY TypeParts DEF RoundInv
  <2>2. Shrinks
    BY <1>2, <2>1, RemoveShrinks
    DEF RemovalNext, StartRemove, RemoveNext, trackers, Shrinks
  <2>3. UNCHANGED loop
    BY <1>2 DEF RemovalNext, StartRemove, RemoveNext
  <2> QED BY <2>2, <2>3, ShrinkingIsSound
<1>3. CASE ScopeNext \/ Tick \/ UNCHANGED vars
  <2>1. UNCHANGED <<merged, loop>>
    BY <1>3 DEF ScopeNext, Appear, Expired, Faded, Started, Tick, vars, loop,
                trackers
  <2> QED BY <2>1, ShrinkingIsSound DEF Shrinks
<1> QED BY <1>1, <1>2, <1>3 DEF Next

\* Between two runs of broadcastMerges every merge on record was listed by the
\* scope in the last one, for any number of contacts, groups and callbacks.
THEOREM MergesCorrect == Spec => []MergesFollowScope
<1>1. Init => RoundInv
  BY TypeInit, RoundInit DEF RoundInv
<1> QED BY <1>1, RoundStep, PTL DEF Spec, RoundInv

-----------------------------------------------------------------------------
(* The controller does not repeat itself: the spacing of THREAT calls for  *)
(* every number of contacts, groups and callbacks and every cooldown.      *)

AgesTypeOK ==
    /\ threatAge \in [Hostile -> 0..ThreatCooldown]
    /\ forgotten \subseteq Contact

\* A cooldown and the time since the call make up the full cooldown, unless the
\* cooldown was removed or is only about to be set.
CooldownsCover ==
    \A h \in Hostile :
        \/ threatAge[h] + threatCooldowns[h] >= ThreatCooldown
        \/ h \in forgotten
        \/ loopPc = "extend" /\ h \in hostiles

\* What broadcastThreat found before it made the call still holds when the call
\* is received.
Due == \E h \in hostiles : threatAge[h] >= ThreatCooldown \/ h \in forgotten
CallIsDue == loopPc = "threatSend" => Due

SpacingInv == TypeOK /\ AgesTypeOK /\ CooldownsCover /\ CallIsDue

----------------------------------------------------------------------------
(* What a step does to the history *)

\* A step that sends no call: the ages do not fall and nothing is remembered.
Quiet ==
    /\ \A h \in Hostile : threatAge'[h] >= threatAge[h]
    /\ forgotten \subseteq forgotten'

\* The history keeps its types.
LEMMA AgesType ==
    ASSUME SpacingInv, HistoryNext, forgotten' \subseteq Contact
    PROVE  AgesTypeOK'
  <1>1. ThreatCooldown \in Nat
    BY ControllerAssumption
  <1>. QED
    BY <1>1 DEF SpacingInv, AgesTypeOK, HistoryNext

LEMMA QuietStep ==
    ASSUME SpacingInv, HistoryNext, ~ThreatSent
    PROVE  Quiet
  <1>1. ThreatCooldown \in Nat /\ Called = {}
    BY ControllerAssumption DEF Called
  <1>. QED
    BY <1>1 DEF SpacingInv, AgesTypeOK, HistoryNext, Quiet

\* Callbacks remove contacts.
LEMMA RemovedType ==
    ASSUME TypeOK
    PROVE  Removed \subseteq Contact
  <1>1. ASSUME NEW t \in Thread, ops[t] # <<>>
        PROVE  Head(ops[t]).ids \subseteq Contact
    <2>1. ops[t] \in Seq(Op)
      BY DEF TypeOK
    <2>2. Head(ops[t]) \in Op
      BY <1>1, <2>1
    <2>. QED
      BY <2>2 DEF Op
  <1>. QED
    BY <1>1 DEF Removed

\* A step that takes no cooldown away, before its time or otherwise, keeps the
\* invariant.
LEMMA QuietKeeps ==
    ASSUME SpacingInv, Quiet, AgesTypeOK', TypeOK',
           \A h \in Hostile : threatCooldowns'[h] >= threatCooldowns[h],
           loopPc' = "threatSend" => loopPc = "threatSend" /\ hostiles' = hostiles,
           \A h \in Hostile : loopPc = "extend" /\ h \in hostiles
                                => loopPc' = "extend" /\ h \in hostiles'
    PROVE  CooldownsCover' /\ CallIsDue'
  <1>0. /\ ThreatCooldown \in Nat
        /\ \A h \in Hostile : /\ threatAge[h] \in Nat /\ threatAge'[h] \in Nat
                              /\ threatCooldowns[h] \in Nat /\ threatCooldowns'[h] \in Nat
    BY ControllerAssumption DEF SpacingInv, TypeOK, AgesTypeOK, Contact
  <1>1. CooldownsCover'
    <2>1. ASSUME NEW h \in Hostile,
                 threatAge[h] + threatCooldowns[h] >= ThreatCooldown
          PROVE  threatAge'[h] + threatCooldowns'[h] >= ThreatCooldown
      BY <1>0, <2>1 DEF Quiet
    <2>. QED
      BY <2>1 DEF SpacingInv, CooldownsCover, Quiet
  <1>2. CallIsDue'
    <2>. SUFFICES ASSUME loopPc' = "threatSend"
                  PROVE  Due'
      BY DEF CallIsDue
    <2>1. PICK h \in hostiles : threatAge[h] >= ThreatCooldown \/ h \in forgotten
      BY DEF SpacingInv, CallIsDue, Due
    <2>2. h \in Hostile
      BY DEF SpacingInv, TypeOK
    <2>3. threatAge'[h] >= ThreatCooldown \/ h \in forgotten'
      BY <1>0, <2>1, <2>2 DEF Quiet
    <2>. QED
      BY <2>3 DEF Due
  <1>. QED
    BY <1>1, <1>2

----------------------------------------------------------------------------
(* The steps *)

\* Only broadcastThreats enters and leaves the phases around a call.
LEMMA MergesKeepSpacing ==
    ASSUME SpacingInv, TypeOK', AgesTypeOK', Quiet, MergesNext
    PROVE  CooldownsCover' /\ CallIsDue'
  <1>1. /\ threatCooldowns' = threatCooldowns
        /\ loopPc # "extend" /\ loopPc' # "threatSend"
    BY DEF MergesNext, StartRound, KeepListed, TakeGroup, VisitHostile, CompareContact,
           EndContacts, EndHostiles, CheckCooldown, CreateMergedCall, SendMerged, trackers
  <1>2. \A h \in Hostile : threatCooldowns'[h] >= threatCooldowns[h]
    BY <1>1 DEF SpacingInv, TypeOK, Contact
  <1>. QED
    BY <1>1, <1>2, QuietKeeps

\* A call is only made about a group with a hostile whose cooldown is over.
LEMMA TakeThreatSpacing ==
    ASSUME SpacingInv, TypeOK', AgesTypeOK', Quiet,
           NEW g \in Group, NEW named \in SUBSET Friendly, TakeThreat(g, named)
    PROVE  CooldownsCover' /\ CallIsDue'
  <1>1. loopPc = "threats" /\ threatCooldowns' = threatCooldowns
    BY DEF TakeThreat, trackers
  <1>2. \A h \in Hostile : threatCooldowns'[h] >= threatCooldowns[h]
    BY <1>1 DEF SpacingInv, TypeOK, Contact
  <1>3. CASE loopPc' # "threatSend"
    BY <1>1, <1>2, <1>3, QuietKeeps
  <1>4. CASE loopPc' = "threatSend"
    <2>1. hostiles' = g.hostiles /\ ~ \A h \in g.hostiles : isOnCooldown(threatCooldowns, h)
      BY <1>1, <1>4 DEF TakeThreat
    <2>2. PICK h \in g.hostiles : ~(threatCooldowns[h] > 0)
      BY <2>1 DEF isOnCooldown
    <2>3. h \in Hostile
      BY DEF Group
    <2>4. /\ threatCooldowns[h] = 0 /\ threatAge[h] \in Nat /\ threatAge'[h] \in Nat
          /\ ThreatCooldown \in Nat
      BY <2>2, <2>3, ControllerAssumption DEF SpacingInv, TypeOK, AgesTypeOK, Contact
    <2>5. threatAge[h] >= ThreatCooldown \/ h \in forgotten
      BY <1>1, <2>3, <2>4 DEF SpacingInv, CooldownsCover
    <2>6. threatAge'[h] >= ThreatCooldown \/ h \in forgotten'
      BY <2>3, <2>4, <2>5 DEF Quiet
    <2>7. CallIsDue'
      BY <2>1, <2>6 DEF CallIsDue, Due
    <2>8. CooldownsCover'
      <3>0. \A x \in Hostile : /\ threatAge[x] \in Nat /\ threatAge'[x] \in Nat
                               /\ threatCooldowns[x] \in Nat
        BY DEF SpacingInv, TypeOK, AgesTypeOK, Contact
      <3>1. ASSUME NEW x \in Hostile, threatAge[x] + threatCooldowns[x] >= ThreatCooldown
            PROVE  threatAge'[x] + threatCooldowns'[x] >= ThreatCooldown
        BY <1>1, <2>4, <3>0, <3>1 DEF Quiet
      <3>. QED
        BY <1>1, <3>1 DEF SpacingInv, CooldownsCover, Quiet
    <2>. QED
      BY <2>7, <2>8
  <1>. QED
    BY <1>3, <1>4

\* The call: from now on its hostiles' cooldowns are about to be set.
LEMMA SendThreatSpacing ==
    ASSUME SpacingInv, HistoryNext, ThreatSent
    PROVE  CooldownsCover' /\ CallIsDue'
  <1>1. SendThreat
    BY DEF HistoryNext, ThreatSent, Next, LoopNext, MergesNext, ThreatsNext, RemovalNext,
           ScopeNext, StartRound, KeepListed, TakeGroup, VisitHostile, CompareContact,
           EndContacts, EndHostiles, CheckCooldown, CreateMergedCall, SendMerged,
           EndMerges, TakeThreat, ExtendThreat, EndExtend, EndThreats, StartRemove,
           RemoveNext, Appear, Expired, Faded, Started, Tick, loop
  <1>2. /\ threatCooldowns' = threatCooldowns /\ hostiles' = hostiles /\ loopPc' = "extend"
        /\ loopPc = "threatSend" /\ Called = hostiles
    BY <1>1 DEF SendThreat, trackers, Called, ThreatSent
  <1>3. ASSUME NEW h \in Hostile, h \notin hostiles
        PROVE  threatAge'[h] + threatCooldowns'[h] >= ThreatCooldown \/ h \in forgotten'
    <2>1. threatAge[h] + threatCooldowns[h] >= ThreatCooldown \/ h \in forgotten
      BY <1>2, <1>3 DEF SpacingInv, CooldownsCover
    <2>2. h \in forgotten => h \in forgotten'
      BY <1>2, <1>3 DEF HistoryNext
    <2>3. threatAge'[h] = threatAge[h] \/ threatAge'[h] = threatAge[h] + 1
      BY <1>2, <1>3 DEF HistoryNext
    <2>4. /\ threatAge[h] \in Nat /\ threatCooldowns[h] \in Nat /\ ThreatCooldown \in Nat
      BY ControllerAssumption DEF SpacingInv, TypeOK, AgesTypeOK, Contact
    <2>. QED
      BY <1>2, <2>1, <2>2, <2>3, <2>4
  <1>. QED
    BY <1>2, <1>3 DEF CooldownsCover, CallIsDue

\* A cooldown that is set covers the time since the call.
LEMMA ExtendSpacing ==
    ASSUME SpacingInv, TypeOK', AgesTypeOK', Quiet, NEW x \in Hostile, ExtendThreat(x)
    PROVE  CooldownsCover' /\ CallIsDue'
  <1>1. /\ loopPc = "extend" /\ loopPc' = "extend" /\ hostiles' = hostiles \ {x}
        /\ threatCooldowns' = [threatCooldowns EXCEPT ![x] = ThreatCooldown]
    BY DEF ExtendThreat
  <1>2. /\ ThreatCooldown \in Nat /\ threatCooldowns'[x] = ThreatCooldown
        /\ \A h \in Hostile : /\ threatAge[h] \in Nat /\ threatAge'[h] \in Nat
                              /\ threatCooldowns[h] \in Nat
                              /\ h # x => threatCooldowns'[h] = threatCooldowns[h]
    BY <1>1, ControllerAssumption DEF SpacingInv, TypeOK, AgesTypeOK, Contact
  <1>3. ASSUME NEW h \in Hostile
        PROVE  \/ threatAge'[h] + threatCooldowns'[h] >= ThreatCooldown
               \/ h \in forgotten'
               \/ h \in hostiles'
    <2>1. CASE h = x
      BY <1>2, <2>1
    <2>2. CASE h # x
      <3>1. \/ threatAge[h] + threatCooldowns[h] >= ThreatCooldown
            \/ h \in forgotten \/ h \in hostiles
        BY DEF SpacingInv, CooldownsCover
      <3>2. threatAge[h] + threatCooldowns[h] >= ThreatCooldown
              => threatAge'[h] + threatCooldowns'[h] >= ThreatCooldown
        BY <1>2, <2>2 DEF Quiet
      <3>. QED
        BY <1>1, <2>2, <3>1, <3>2 DEF Quiet
    <2>. QED
      BY <2>1, <2>2
  <1>. QED
    BY <1>1, <1>3 DEF CooldownsCover, CallIsDue

\* A cooldown that a callback takes away is remembered.
LEMMA RemoveSpacing ==
    ASSUME SpacingInv, TypeOK', AgesTypeOK', Quiet, NEW t \in Thread, RemoveNext(t),
           Removed \subseteq forgotten'
    PROVE  CooldownsCover' /\ CallIsDue'
  <1>. DEFINE op == Head(ops[t])
  <1>1. loopPc' = loopPc /\ hostiles' = hostiles
    BY DEF RemoveNext, loop
  <1>2. \/ threatCooldowns' = threatCooldowns
        \/ op.tracker = "threatCooldowns"
             /\ threatCooldowns' = removed(threatCooldowns, op.ids)
    BY DEF RemoveNext
  <1>3. op.tracker = "threatCooldowns" => op.ids \subseteq Removed
    <2>1. ops[t] # <<>> /\ ops'[t] = Tail(ops[t])
      BY DEF RemoveNext, SpacingInv, TypeOK
    <2>. QED
      BY <2>1 DEF Removed
  <1>4. ASSUME NEW h \in Hostile
        PROVE  threatCooldowns'[h] = threatCooldowns[h] \/ h \in forgotten'
    BY <1>2, <1>3 DEF removed, Contact
  <1>5. CooldownsCover'
    <2>0. /\ ThreatCooldown \in Nat
          /\ \A h \in Hostile : /\ threatAge[h] \in Nat /\ threatAge'[h] \in Nat
                                /\ threatCooldowns[h] \in Nat
      BY ControllerAssumption DEF SpacingInv, TypeOK, AgesTypeOK, Contact
    <2>1. ASSUME NEW h \in Hostile,
                 threatAge[h] + threatCooldowns[h] >= ThreatCooldown
          PROVE  threatAge'[h] + threatCooldowns'[h] >= ThreatCooldown \/ h \in forgotten'
      BY <1>4, <2>0, <2>1 DEF Quiet
    <2>. QED
      BY <1>1, <2>1 DEF SpacingInv, CooldownsCover, Quiet
  <1>6. CallIsDue'
    <2>0. /\ ThreatCooldown \in Nat
          /\ \A h \in Hostile : threatAge[h] \in Nat /\ threatAge'[h] \in Nat
      BY ControllerAssumption DEF SpacingInv, AgesTypeOK
    <2>1. hostiles \subseteq Hostile
      BY DEF SpacingInv, TypeOK
    <2>. QED
      BY <1>1, <2>0, <2>1 DEF SpacingInv, CallIsDue, Due, Quiet
  <1>. QED
    BY <1>5, <1>6

\* What the passing of time takes from a cooldown it adds to the age.
LEMMA TickSpacing ==
    ASSUME SpacingInv, TypeOK', AgesTypeOK', Quiet, HistoryNext, Tick
    PROVE  CooldownsCover' /\ CallIsDue'
  <1>1. loopPc' = loopPc /\ hostiles' = hostiles /\ threatCooldowns' = elapsed(threatCooldowns)
    BY DEF Tick, loop
  <1>2. Ticked /\ Called = {}
    BY DEF Tick, Ticked, Called, ThreatSent, loop
  <1>3. ASSUME NEW h \in Hostile, threatAge[h] + threatCooldowns[h] >= ThreatCooldown
        PROVE  threatAge'[h] + threatCooldowns'[h] >= ThreatCooldown
    <2>1. threatAge'[h] = IF threatAge[h] < ThreatCooldown THEN threatAge[h] + 1
                          ELSE threatAge[h]
      BY <1>2 DEF HistoryNext
    <2>2. threatCooldowns'[h] = IF threatCooldowns[h] > 0 THEN threatCooldowns[h] - 1 ELSE 0
      BY <1>1 DEF elapsed, Contact
    <2>3. threatAge[h] \in Nat /\ threatCooldowns[h] \in Nat /\ ThreatCooldown \in Nat
      BY ControllerAssumption DEF SpacingInv, TypeOK, AgesTypeOK, Contact
    <2>. QED
      BY <1>3, <2>1, <2>2, <2>3
  <1>4. CooldownsCover'
    BY <1>1, <1>3 DEF SpacingInv, CooldownsCover, Quiet
  <1>5. CallIsDue'
    <2>0. /\ ThreatCooldown \in Nat
          /\ \A h \in Hostile : threatAge[h] \in Nat /\ threatAge'[h] \in Nat
      BY ControllerAssumption DEF SpacingInv, AgesTypeOK
    <2>1. hostiles \subseteq Hostile
      BY DEF SpacingInv, TypeOK
    <2>. QED
      BY <1>1, <2>0, <2>1 DEF SpacingInv, CallIsDue, Due, Quiet
  <1>. QED
    BY <1>4, <1>5

----------------------------------------------------------------------------
\* Every step keeps the invariant.
LEMMA SpacingStep ==
    ASSUME SpacingInv, [HistoryNext]_hvars
    PROVE  SpacingInv'
  <1>1. CASE UNCHANGED hvars
    <2>1. TypeOK'
      BY <1>1, TypeStep DEF SpacingInv, hvars
    <2>2. /\ UNCHANGED <<threatCooldowns, loopPc, hostiles, threatAge, forgotten>>
      BY <1>1 DEF hvars, vars
    <2>. QED
      BY <2>1, <2>2 DEF SpacingInv, AgesTypeOK, CooldownsCover, CallIsDue, Due
  <1>2. CASE HistoryNext
    <2>1. TypeOK'
      BY <1>2, TypeStep DEF SpacingInv, HistoryNext
    <2>2. Removed \subseteq Contact /\ Removed \subseteq forgotten'
      BY <1>2, RemovedType DEF SpacingInv, HistoryNext
    <2>3. AgesTypeOK'
      BY <1>2, <2>2, AgesType DEF SpacingInv, AgesTypeOK, HistoryNext
    <2>4. CASE ThreatSent
      BY <1>2, <2>1, <2>3, <2>4, SendThreatSpacing DEF SpacingInv
    <2>5. CASE ~ThreatSent
      <3>1. Quiet
        BY <1>2, <2>5, QuietStep
      <3>. USE <2>1, <2>3, <3>1
      <3>2. CASE MergesNext
        BY <3>2, MergesKeepSpacing DEF SpacingInv
      <3>3. ASSUME NEW g \in Group, NEW named \in SUBSET Friendly, TakeThreat(g, named)
            PROVE  SpacingInv'
        BY <3>3, TakeThreatSpacing DEF SpacingInv
      <3>4. ASSUME NEW h \in Hostile, ExtendThreat(h)
            PROVE  SpacingInv'
        BY <3>4, ExtendSpacing DEF SpacingInv
      <3>5. ASSUME NEW t \in Thread, RemoveNext(t)
            PROVE  SpacingInv'
        BY <2>2, <3>5, RemoveSpacing DEF SpacingInv
      <3>6. CASE Tick
        BY <1>2, <3>6, TickSpacing DEF SpacingInv
      <3>7. CASE EndMerges \/ EndExtend \/ EndThreats
        <4>1. /\ threatCooldowns' = threatCooldowns /\ loopPc' # "threatSend"
              /\ loopPc = "extend" => hostiles = {}
          BY <3>7 DEF EndMerges, EndExtend, EndThreats, trackers
        <4>2. \A h \in Hostile : threatCooldowns'[h] >= threatCooldowns[h]
          BY <4>1 DEF SpacingInv, TypeOK, Contact
        <4>. QED
          BY <4>1, <4>2, QuietKeeps DEF SpacingInv
      <3>8. CASE ScopeNext \/ \E t \in Thread, id \in Contact : StartRemove(t, id)
        <4>1. threatCooldowns' = threatCooldowns /\ loopPc' = loopPc /\ hostiles' = hostiles
          BY <3>8 DEF ScopeNext, StartRemove, Appear, Expired, Faded, Started, trackers, loop
        <4>2. \A h \in Hostile : threatCooldowns'[h] >= threatCooldowns[h]
          BY <4>1 DEF SpacingInv, TypeOK, Contact
        <4>. QED
          BY <4>1, <4>2, QuietKeeps DEF SpacingInv
      <3>9. CASE SendThreat
        BY <2>5, <3>9 DEF SendThreat, ThreatSent
      <3>. QED
        BY <1>2, <3>2, <3>3, <3>4, <3>5, <3>6, <3>7, <3>8, <3>9
        DEF HistoryNext, Next, LoopNext, ThreatsNext, RemovalNext
    <2>. QED
      BY <2>4, <2>5
  <1>. QED
    BY <1>1, <1>2

\* No THREAT call is repeated within the cooldown about a group none of whose
\* hostiles a callback has taken out of the tracker since, wherever the callbacks
\* come between the check, the call and the cooldowns that follow it.
THEOREM ThreatCallsSpaced == HistorySpec => ThreatsSpaced
  <1>1. HistoryInit => SpacingInv
    <2>. SUFFICES ASSUME HistoryInit
                  PROVE  SpacingInv
      OBVIOUS
    <2>1. TypeOK /\ ThreatCooldown \in Nat
      BY TypeInit, ControllerAssumption DEF HistoryInit
    <2>2. AgesTypeOK
      BY <2>1 DEF HistoryInit, AgesTypeOK
    <2>3. CooldownsCover
      BY <2>1 DEF HistoryInit, CooldownsCover, TypeOK, Contact
    <2>4. CallIsDue
      BY DEF HistoryInit, Init, CallIsDue
    <2>. QED
      BY <2>1, <2>2, <2>3, <2>4 DEF SpacingInv
  <1>2. SpacingInv /\ [HistoryNext]_hvars
          => [ThreatSent => \E h \in hostiles :
                threatAge[h] >= ThreatCooldown \/ h \in forgotten]_hvars
    BY DEF SpacingInv, CallIsDue, Due, ThreatSent
  <1>. QED
    BY <1>1, <1>2, SpacingStep, PTL DEF HistorySpec, ThreatsSpaced
=============================================================================
