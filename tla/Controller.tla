----------------------------- MODULE Controller -----------------------------
(***************************************************************************)
(* The controller of pkg/controller watching the scope: every 15 seconds   *)
(* its loop looks for merges and threats and broadcasts calls about them   *)
(* (broadcastMerges, broadcastThreats).  What it remembers between rounds  *)
(* is in three trackers: which friendlies each hostile has merged with,    *)
(* and two cooldowns that keep it from repeating itself.  The radar's      *)
(* goroutines reach into the trackers at any time, through the callbacks   *)
(* that take faded and expired contacts out of them (handleFaded,          *)
(* handleRemoved) and empty them on a mission restart (handleStarted).     *)
(*                                                                         *)
(* Every tracker method holds the tracker's lock and is atomic.  Positions *)
(* are abstracted: the scope may report any grouping of the contacts it    *)
(* has, and a hostile and a friendly may be at any distance.  A cooldown   *)
(* is kept as the time it has left, which is 0 for a contact without one.  *)
(***************************************************************************)
EXTENDS Integers, Sequences, FiniteSets, GoMap

CONSTANTS
    Hostile,                \* contacts of the opposing coalition
    Friendly,               \* contacts of other coalitions
    MergeCooldown,          \* 30 s
    ThreatCooldown,         \* threatMonitoringCooldown
    EnableThreatMonitoring, \* enableThreatMonitoring
    Nil,                    \* no hostile at hand
    MaxGroups,              \* bound on the groups the scope reports at once
    MaxRemovals             \* bound on the removal goroutines that wait

Contact == Hostile \cup Friendly

ASSUME ControllerAssumption ==
    /\ Hostile \cap Friendly = {}
    /\ Nil \notin Hostile
    /\ MergeCooldown \in Nat
    /\ ThreatCooldown \in Nat
    /\ EnableThreatMonitoring \in BOOLEAN
    /\ MaxGroups \in Nat
    /\ MaxRemovals \in Nat

VARIABLES
    present,        \* the contacts in the radar's database
    merged,         \* mergeTracker.merged
    threatCooldowns,\* cooldownTracker of threat calls, per hostile
    mergeCooldowns, \* cooldownTracker of merged calls, per friendly
    loopPc,         \* where the controller's loop is
    listed,         \* the merges it got from the scope in this round
    todo,           \* the groups it has yet to handle
    group,          \* the group at hand ...
    hostiles,       \* ... its hostiles yet to be handled
    hostile,        \* the hostile at hand ...
    friends,        \* ... and the friendlies yet to be compared with it
    newMerged,      \* friendlies newly merged with the group
    notify,         \* those a call will name
    waiting,        \* per thread of callbacks: contacts yet to be removed
    ops             \* ... and the tracker operations of the one at hand

loop == <<loopPc, listed, todo, group, hostiles, hostile, friends, newMerged,
          notify>>
trackers == <<merged, threatCooldowns, mergeCooldowns>>
callbacks == <<waiting, ops>>
vars == <<present, merged, threatCooldowns, mergeCooldowns, loopPc, listed,
          todo, group, hostiles, hostile, friends, newMerged, notify,
          waiting, ops>>

\* Fades and restarts exclude each other (pendingFadesLock); the goroutines
\* that remove expired contacts work on different contacts, and one thread
\* stands for them all.
Thread == {"fades", "expiry"}

Group == [hostiles : SUBSET Hostile, friends : SUBSET Friendly]
NoGroup == [hostiles |-> {}, friends |-> {}]
Tracker == {"merges", "threatCooldowns", "mergeCooldowns"}
Op == [tracker : Tracker, ids : SUBSET Contact]

LoopPc == {"idle", "keep", "groups", "hostiles", "contacts", "notify", "send",
           "threats", "threatSend", "extend"}

----------------------------------------------------------------------------
(* mergeTracker *)

friendliesMergedWith(h) == IF h \in DOMAIN merged THEN merged[h] ELSE {}

isMerged(h, f) == f \in friendliesMergedWith(h)

\* Mutant: a hostile stays on record when its last friendly has left.
EmptySetsStay(m) == m

\* m without the hostiles that have no friendly left.
NonEmpty(m) == Restrict(m, {h \in DOMAIN m : m[h] # {}})

merge(h, f) == merged' = Put(merged, h, friendliesMergedWith(h) \cup {f})

\* separate, for each of fs.
separate(h, fs) ==
    merged' = NonEmpty([x \in DOMAIN merged |->
                          IF x = h THEN merged[x] \ fs ELSE merged[x]])

\* remove, for each of ids: a hostile goes with all it has merged with, a
\* friendly goes out of every hostile's set.  reset is the removal of all.
remove(ids) ==
    merged' = NonEmpty([h \in DOMAIN merged \ ids |-> merged[h] \ ids])

\* Mutant: hostiles the scope no longer lists are kept.
keepAll(ids) == UNCHANGED merged

keep(ids) == merged' = Restrict(merged, DOMAIN merged \cap ids)

(* cooldownTracker *)

isOnCooldown(cooldowns, id) == cooldowns[id] > 0

\* remove, for each of ids.  reset is the removal of all.
removed(cooldowns, ids) ==
    [id \in Contact |-> IF id \in ids THEN 0 ELSE cooldowns[id]]

elapsed(cooldowns) ==
    [id \in Contact |-> IF cooldowns[id] > 0 THEN cooldowns[id] - 1 ELSE 0]

----------------------------------------------------------------------------
(* The scope *)

\* What Merges and Threats may report: groups of present hostiles, each with
\* some present friendlies.
Reports ==
    {r \in SUBSET [hostiles : (SUBSET (Hostile \cap present)) \ {{}},
                   friends : (SUBSET (Friendly \cap present)) \ {{}}] :
        Cardinality(r) <= MaxGroups}

Appear(id) ==
    /\ id \notin present
    /\ present' = present \cup {id}
    /\ UNCHANGED <<trackers, loop, callbacks>>

----------------------------------------------------------------------------
(* broadcastMerges *)

StartRound ==
    /\ loopPc = "idle"
    /\ listed' \in Reports
    /\ todo' = listed'
    /\ loopPc' = "keep"
    /\ UNCHANGED <<present, trackers, group, hostiles, hostile, friends,
                   newMerged, notify, callbacks>>

KeepListed ==
    /\ loopPc = "keep"
    /\ keep(UNION {g.hostiles : g \in listed})
    /\ loopPc' = "groups"
    /\ UNCHANGED <<present, threatCooldowns, mergeCooldowns, listed, todo,
                   group, hostiles, hostile, friends, newMerged, notify,
                   callbacks>>

TakeGroup(g) ==
    /\ loopPc = "groups"
    /\ g \in todo
    /\ todo' = todo \ {g}
    /\ group' = g
    /\ hostiles' = g.hostiles
    /\ loopPc' = "hostiles"
    /\ UNCHANGED <<present, trackers, listed, hostile, friends, newMerged,
                   notify, callbacks>>

\* Mutant: friendlies no longer listed with the hostile stay merged with it.
VisitWithoutSeparating(h) ==
    /\ loopPc = "hostiles"
    /\ h \in hostiles
    /\ hostiles' = hostiles \ {h}
    /\ hostile' = h
    /\ friends' = group.friends
    /\ loopPc' = "contacts"
    /\ UNCHANGED <<present, trackers, listed, todo, group, newMerged, notify,
                   callbacks>>

\* updateMergesForGroup, one hostile: it is separated from the friendlies no
\* longer listed with it, and forgotten if FindUnit does not find it.
VisitHostile(h) ==
    /\ loopPc = "hostiles"
    /\ h \in hostiles
    /\ hostiles' = hostiles \ {h}
    /\ IF h \in present
       THEN /\ separate(h, friendliesMergedWith(h) \ group.friends)
            /\ hostile' = h
            /\ friends' = group.friends
            /\ loopPc' = "contacts"
       ELSE /\ remove({h})
            /\ UNCHANGED <<hostile, friends, loopPc>>
    /\ UNCHANGED <<present, threatCooldowns, mergeCooldowns, listed, todo,
                   group, newMerged, notify, callbacks>>

\* updateMergesForContact.  The trackfiles it compares were looked up before:
\* the contacts may be gone by now.  Between the entry and the exit distance
\* nothing changes; without a position the two are separated.
CompareContact(f, distance) ==
    /\ loopPc = "contacts"
    /\ f \in friends
    /\ friends' = friends \ {f}
    /\ \/ /\ distance = "entered" /\ ~isMerged(hostile, f)
          /\ merge(hostile, f)
          /\ newMerged' = newMerged \cup {f}
       \/ /\ distance \in {"exited", "unknown"}
          /\ separate(hostile, {f})
          /\ UNCHANGED newMerged
       \/ /\ \/ distance = "between"
             \/ distance = "entered" /\ isMerged(hostile, f)
          /\ UNCHANGED <<merged, newMerged>>
    /\ UNCHANGED <<present, threatCooldowns, mergeCooldowns, loopPc, listed,
                   todo, group, hostiles, hostile, notify, callbacks>>

EndContacts ==
    /\ loopPc = "contacts"
    /\ friends = {}
    /\ hostile' = Nil
    /\ loopPc' = "hostiles"
    /\ UNCHANGED <<present, trackers, listed, todo, group, hostiles, friends,
                   newMerged, notify, callbacks>>

EndHostiles ==
    /\ loopPc = "hostiles"
    /\ hostiles = {}
    /\ group' = NoGroup
    /\ loopPc' = "notify"
    /\ UNCHANGED <<present, trackers, listed, todo, hostiles, hostile,
                   friends, newMerged, notify, callbacks>>

\* A friendly on cooldown is left out; the others' cooldowns start now.
CheckCooldown(f) ==
    /\ loopPc = "notify"
    /\ f \in newMerged
    /\ newMerged' = newMerged \ {f}
    /\ IF isOnCooldown(mergeCooldowns, f)
       THEN UNCHANGED <<notify, mergeCooldowns>>
       ELSE /\ notify' = notify \cup {f}
            /\ mergeCooldowns' = [mergeCooldowns EXCEPT ![f] = MergeCooldown]
    /\ UNCHANGED <<present, merged, threatCooldowns, loopPc, listed, todo,
                   group, hostiles, hostile, friends, callbacks>>

\* createMergedCall names those who are on frequency and have a callsign.
CreateMergedCall(named) ==
    /\ loopPc = "notify"
    /\ newMerged = {}
    /\ named \subseteq notify
    /\ notify' = named
    /\ loopPc' = IF named # {} THEN "send" ELSE "groups"
    /\ UNCHANGED <<present, trackers, listed, todo, group, hostiles, hostile,
                   friends, newMerged, callbacks>>

\* c.calls <- NewCall(ctx, mergedCall) has been received.
SendMerged ==
    /\ loopPc = "send"
    /\ notify' = {}
    /\ loopPc' = "groups"
    /\ UNCHANGED <<present, trackers, listed, todo, group, hostiles, hostile,
                   friends, newMerged, callbacks>>

----------------------------------------------------------------------------
(* broadcastThreats *)

EndMerges ==
    /\ loopPc = "groups"
    /\ todo = {}
    /\ IF EnableThreatMonitoring
       THEN loopPc' = "threats" /\ todo' \in Reports
       ELSE loopPc' = "idle" /\ UNCHANGED todo
    /\ UNCHANGED <<present, trackers, listed, group, hostiles, hostile,
                   friends, newMerged, notify, callbacks>>

\* isGroupMergedWithFriendly
MergedWithGroup(g, f) == \E h \in g.hostiles : isMerged(h, f)

\* broadcastThreat up to the call: a group with all its hostiles on cooldown
\* is passed over, and so is one that threatens nobody who can be named.
TakeThreat(g, named) ==
    /\ loopPc = "threats"
    /\ g \in todo
    /\ todo' = todo \ {g}
    /\ named \subseteq {f \in g.friends \cap present : ~MergedWithGroup(g, f)}
    /\ IF (\A h \in g.hostiles : isOnCooldown(threatCooldowns, h))
           \/ named = {}
       THEN UNCHANGED <<hostiles, notify, loopPc>>
       ELSE /\ hostiles' = g.hostiles
            /\ notify' = named
            /\ loopPc' = "threatSend"
    /\ UNCHANGED <<present, trackers, listed, group, hostile, friends,
                   newMerged, callbacks>>

\* c.calls <- NewCall(ctx, threatCall) has been received.
SendThreat ==
    /\ loopPc = "threatSend"
    /\ notify' = {}
    /\ loopPc' = "extend"
    /\ UNCHANGED <<present, trackers, listed, todo, group, hostiles, hostile,
                   friends, newMerged, callbacks>>

\* Mutant: the cooldown is one tick short.
ExtendTooShort(h) ==
    /\ loopPc = "extend"
    /\ h \in hostiles
    /\ hostiles' = hostiles \ {h}
    /\ threatCooldowns' = [threatCooldowns EXCEPT ![h] = ThreatCooldown - 1]
    /\ UNCHANGED <<present, merged, mergeCooldowns, loopPc, listed, todo,
                   group, hostile, friends, newMerged, notify, callbacks>>

\* The cooldowns start after the call was sent, whatever became of the
\* hostiles meanwhile.
ExtendThreat(h) ==
    /\ loopPc = "extend"
    /\ h \in hostiles
    /\ hostiles' = hostiles \ {h}
    /\ threatCooldowns' = [threatCooldowns EXCEPT ![h] = ThreatCooldown]
    /\ UNCHANGED <<present, merged, mergeCooldowns, loopPc, listed, todo,
                   group, hostile, friends, newMerged, notify, callbacks>>

EndExtend ==
    /\ loopPc = "extend"
    /\ hostiles = {}
    /\ loopPc' = "threats"
    /\ UNCHANGED <<present, trackers, listed, todo, group, hostiles, hostile,
                   friends, newMerged, notify, callbacks>>

EndThreats ==
    /\ loopPc = "threats"
    /\ todo = {}
    /\ loopPc' = "idle"
    /\ UNCHANGED <<present, trackers, listed, todo, group, hostiles, hostile,
                   friends, newMerged, notify, callbacks>>

----------------------------------------------------------------------------
(* The callbacks *)

Free(t) == waiting[t] = {} /\ ops[t] = <<>>

\* handleFaded: the contacts in gone have faded and are out of the database;
\* the group announced for one of them also holds its neighbours.  All of the
\* group is removed from the trackers.  A contact whose fade was handled within
\* five minutes before is taken out of the database and not announced: any may
\* be one.  (The FADED call that may follow waits for its receiver and changes
\* nothing here.)
Faded(ids, gone) ==
    /\ Free("fades")
    /\ gone # {}
    /\ ids = {} \/ ids \cap gone # {}
    /\ ids \cup gone \subseteq present
    /\ present' = present \ gone
    /\ waiting' = [waiting EXCEPT !["fades"] = ids]
    /\ UNCHANGED <<ops, trackers, loop>>

\* The radar's reset, and handleStarted.
Started ==
    /\ Free("fades")
    /\ present' = {}
    /\ ops' = [ops EXCEPT !["fades"] =
                 <<[tracker |-> "merges", ids |-> Contact],
                   [tracker |-> "threatCooldowns", ids |-> Contact],
                   [tracker |-> "mergeCooldowns", ids |-> Contact]>>]
    /\ UNCHANGED <<waiting, trackers, loop>>

\* An expired contact is deleted; its removal goroutine calls handleRemoved.
Expired(id) ==
    /\ id \in present
    /\ Cardinality(waiting["expiry"]) < MaxRemovals
    /\ present' = present \ {id}
    /\ waiting' = [waiting EXCEPT !["expiry"] = @ \cup {id}]
    /\ UNCHANGED <<ops, trackers, loop>>

\* remove(id) is called ...
StartRemove(t, id) ==
    /\ ops[t] = <<>>
    /\ id \in waiting[t]
    /\ waiting' = [waiting EXCEPT ![t] = @ \ {id}]
    /\ ops' = [ops EXCEPT ![t] =
                 <<[tracker |-> "threatCooldowns", ids |-> {id}],
                   [tracker |-> "mergeCooldowns", ids |-> {id}],
                   [tracker |-> "merges", ids |-> {id}]>>]
    /\ UNCHANGED <<present, trackers, loop>>

\* ... and visits one tracker after the other.
RemoveNext(t) ==
    /\ ops[t] # <<>>
    /\ ops' = [ops EXCEPT ![t] = Tail(@)]
    /\ LET op == Head(ops[t])
       IN  \/ /\ op.tracker = "merges"
              /\ remove(op.ids)
              /\ UNCHANGED <<threatCooldowns, mergeCooldowns>>
           \/ /\ op.tracker = "threatCooldowns"
              /\ threatCooldowns' = removed(threatCooldowns, op.ids)
              /\ UNCHANGED <<merged, mergeCooldowns>>
           \/ /\ op.tracker = "mergeCooldowns"
              /\ mergeCooldowns' = removed(mergeCooldowns, op.ids)
              /\ UNCHANGED <<merged, threatCooldowns>>
    /\ UNCHANGED <<present, waiting, loop>>

Tick ==
    /\ threatCooldowns' = elapsed(threatCooldowns)
    /\ mergeCooldowns' = elapsed(mergeCooldowns)
    /\ UNCHANGED <<present, merged, loop, callbacks>>

----------------------------------------------------------------------------
Init ==
    /\ present = {}
    /\ merged = EmptyMap
    /\ threatCooldowns = [id \in Contact |-> 0]
    /\ mergeCooldowns = [id \in Contact |-> 0]
    /\ loopPc = "idle"
    /\ listed = {}
    /\ todo = {}
    /\ group = NoGroup
    /\ hostiles = {}
    /\ hostile = Nil
    /\ friends = {}
    /\ newMerged = {}
    /\ notify = {}
    /\ waiting = [t \in Thread |-> {}]
    /\ ops = [t \in Thread |-> <<>>]

MergesNext ==
    \/ StartRound \/ KeepListed
    \/ \E g \in Group : TakeGroup(g)
    \/ \E h \in Hostile : VisitHostile(h)
    \/ \E f \in Friendly,
          distance \in {"entered", "between", "exited", "unknown"} :
            CompareContact(f, distance)
    \/ EndContacts \/ EndHostiles
    \/ \E f \in Friendly : CheckCooldown(f)
    \/ \E named \in SUBSET Friendly : CreateMergedCall(named)
    \/ SendMerged

ThreatsNext ==
    \/ EndMerges
    \/ \E g \in Group, named \in SUBSET Friendly : TakeThreat(g, named)
    \/ SendThreat
    \/ \E h \in Hostile : ExtendThreat(h)
    \/ EndExtend \/ EndThreats

LoopNext == MergesNext \/ ThreatsNext

RemovalNext(t) == (\E id \in Contact : StartRemove(t, id)) \/ RemoveNext(t)

ScopeNext ==
    \/ \E id \in Contact : Appear(id) \/ Expired(id)
    \/ \E ids, gone \in SUBSET Contact : Faded(ids, gone)
    \/ Started

Next ==
    \/ LoopNext
    \/ \E t \in Thread : RemovalNext(t)
    \/ ScopeNext
    \/ Tick

Spec == Init /\ [][Next]_vars

----------------------------------------------------------------------------
\* Every variable has its type, and no hostile is kept without a friendly.
TypeOK ==
    /\ present \in SUBSET Contact
    /\ IsMap(merged, Hostile, (SUBSET Friendly) \ {{}})
    /\ threatCooldowns \in [Contact -> Nat]
    /\ mergeCooldowns \in [Contact -> Nat]
    /\ loopPc \in LoopPc
    /\ listed \in SUBSET Group
    /\ todo \in SUBSET Group
    /\ group \in Group
    /\ hostiles \in SUBSET Hostile
    /\ hostile \in Hostile \cup {Nil}
    /\ loopPc = "contacts" => hostile \in Hostile
    /\ friends \in SUBSET Friendly
    /\ newMerged \in SUBSET Friendly
    /\ notify \in SUBSET Friendly
    /\ waiting \in [Thread -> SUBSET Contact]
    /\ ops \in [Thread -> Seq(Op)]

\* The friendlies the scope listed with h in this round.
FriendsListedWith(h) ==
    UNION {g.friends : g \in {x \in listed : h \in x.hostiles}}

\* Once broadcastMerges is done, and until it starts again, the merges on
\* record are merges the scope listed: whatever was merged in earlier rounds
\* and whatever removals the callbacks slip in between, nobody is held to be
\* in a furball (fillInMergeDetails) or spared a threat call
\* (isGroupMergedWithFriendly) because of a merge that is over.
MergesFollowScope ==
    loopPc \in {"idle", "threats", "threatSend", "extend"}
        => \A h \in DOMAIN merged : merged[h] \subseteq FriendsListedWith(h)

\* What MergesFollowScope rests on while broadcastMerges is at work: a merge
\* that is not listed belongs to a hostile whose turn is still to come.
RoundSound ==
    /\ loopPc = "keep" => todo = listed
    /\ loopPc \in {"groups", "hostiles", "contacts", "notify", "send"}
         => todo \subseteq listed
    /\ loopPc \in {"idle", "keep", "groups", "notify", "send", "threats"}
         => hostiles = {}
    /\ loopPc \in {"hostiles", "contacts"}
         => group \in listed /\ hostiles \subseteq group.hostiles
    /\ loopPc = "contacts"
         => hostile \in group.hostiles /\ friends \subseteq group.friends
    /\ loopPc \in {"groups", "hostiles", "contacts", "notify", "send"}
         => \A h \in DOMAIN merged :
              \/ h \in hostiles
              \/ \E g \in todo : h \in g.hostiles
              \/ merged[h] \subseteq FriendsListedWith(h)

\* A contact that is gone for good is eventually out of the merge tracker for
\* good, although a round that had looked it up may record a merge after the
\* callback removed it.
MergesForget ==
    \A id \in Contact :
        <>[](id \notin present)
            => <>[](\A h \in DOMAIN merged : h # id /\ id \notin merged[h])

\* The controller's loop and the callbacks keep running: calls are received.
Fairness == WF_vars(LoopNext) /\ \A t \in Thread : WF_vars(RemovalNext(t))

FairSpec == Spec /\ Fairness
=============================================================================
