------------------------------- MODULE Radar -------------------------------
(***************************************************************************)
(* The radar scope of pkg/radar: the contact database with its callsign    *)
(* index, and the four goroutines of Radar.Run that write to it:           *)
(*   - the updater consumes position updates (handleUpdate);               *)
(*   - the fader collects fade notifications and resolves them in batches  *)
(*     (collectFadedTrackfiles, handleFaded);                              *)
(*   - the collector expires trackfiles nobody updates                     *)
(*     (handleGarbageCollection);                                          *)
(*   - the starter clears everything when a mission (re)starts             *)
(*     (handleStarted).                                                    *)
(* Each operation on contactDatabase is atomic (it holds db.lock); the     *)
(* goroutines interleave between those operations, except where            *)
(* pendingFadesLock keeps them apart.                                      *)
(*                                                                         *)
(* A trackfile keeps the labels it was created with and the mission time   *)
(* of its newest frame, 0 standing for a trackfile that has no frame yet   *)
(* (Frame{}.Time.IsZero()).  Mission time orders frames and ages           *)
(* trackfiles.  Of the wall clock the code only ever asks how far it is    *)
(* from a moment it remembers, and so does the model: deadline is the time *)
(* left, completedFades holds ages, Tick moves both, and neither time nor  *)
(* the fades that arrive have an end.                                      *)
(***************************************************************************)
EXTENDS Integers, Sequences, GoMap

CONSTANTS
    ID,                 \* object IDs of the telemetry stream
    Name,               \* contact names (raw pilot names)
    Coalition,          \* blue, red, neutrals
    LabelSet,           \* the labels updates may carry
    Nil,                \* "no message in hand"
    LongExtension,      \* longExtension  (15 s)
    ShortExtension,     \* shortExtension (5 s)
    MaxLongExtensions,  \* maxLongExtensions (2)
    FadeRetention,      \* how long completedFades remembers (5 min)
    ExpiryAge,          \* age at which a trackfile expires (1 min)
    MaxMissionTime,     \* bound on mission time
    MaxPending          \* bound on the length of a batch of fades

ASSUME LabelsAssumption ==
    /\ LabelSet \subseteq [id : ID, name : Name, coalition : Coalition]
    /\ Nil \notin ID
    /\ Nil \notin [update : [labels : LabelSet, time : 1..MaxMissionTime],
                   found : BOOLEAN]

ASSUME TimeAssumption ==
    /\ LongExtension \in Nat
    /\ ShortExtension \in Nat
    /\ MaxLongExtensions \in Nat
    /\ FadeRetention \in Nat
    /\ ExpiryAge \in Nat
    /\ MaxMissionTime \in Nat
    /\ MaxPending \in Nat

VARIABLES
    contacts,       \* contactDatabase.contacts
    callsignIdx,    \* contactDatabase.callsignIdx
    pendingFades,   \* Radar.pendingFades, guarded by pendingFadesLock
    completedFades, \* Radar.completedFades: how long ago, per ID
    missionTime,    \* Radar.missionTime
    updater,        \* Nil, or the update in handleUpdate and what getByID said
    faderPc,        \* where collectFadedTrackfiles is
    fade,           \* the fade it has received and not appended, or Nil
    next,           \* the index of its loops over the batch
    groups,         \* the groups collected from the batch
    deadline,       \* the time left until its deadline, -1 once passed
    extensions,     \* its extension counter, up to MaxLongExtensions
    starter,        \* "idle", or "reset" between contacts.reset and the locks
    collecting,     \* whether handleGarbageCollection runs ...
    snapshot,       \* ... and the trackfiles it has yet to visit
    removals        \* IDs whose removal goroutine has not run yet

db == <<contacts, callsignIdx>>
fader == <<faderPc, fade, next, groups>>
collector == <<collecting, snapshot>>
vars == <<contacts, callsignIdx, pendingFades, completedFades, missionTime,
          updater, faderPc, fade, next, groups, deadline, extensions, starter,
          collecting, snapshot, removals>>

Update == [labels : LabelSet, time : 1..MaxMissionTime]
Trackfile == [labels : LabelSet, last : 0..MaxMissionTime]

\* A group about to be announced: contacts[0] and the object IDs.
Group == [lead : ID, members : SUBSET ID]

\* Where the fader can be: waiting in its select, about to append a fade, in
\* one of the loops of handleFaded, or cleaning up after a tick.
FaderPc == {"select", "append", "collect", "delete", "callback", "clean"}

----------------------------------------------------------------------------
(* contactDatabase *)

\* Mutant: the per-coalition indexes are not created again.
resetWithoutIndexes ==
    /\ contacts' = EmptyMap
    /\ callsignIdx' = EmptyMap

\* newContactDatabase and reset: no contacts, one empty index per coalition.
reset ==
    /\ contacts' = EmptyMap
    /\ callsignIdx' = [c \in Coalition |-> EmptyMap]

set(labels) ==
    /\ callsignIdx' = [callsignIdx EXCEPT
                         ![labels.coalition] = Put(@, labels.name, labels.id)]
    /\ contacts' = Put(contacts, labels.id, [labels |-> labels, last |-> 0])

\* Mutant: the index entry survives its contact.
deleteKeepingIndex(id) ==
    /\ contacts' = Drop(contacts, id)
    /\ UNCHANGED callsignIdx

\* delete(id): the index entry under the contact's name goes with it.
delete(id) ==
    IF id \in DOMAIN contacts
    THEN /\ callsignIdx' = [callsignIdx EXCEPT
                              ![contacts[id].labels.coalition] =
                                  Drop(@, contacts[id].labels.name)]
         /\ contacts' = Drop(contacts, id)
    ELSE UNCHANGED db

----------------------------------------------------------------------------
(* pendingFadesLock: who holds it for reading and for writing *)

FadesReadLocked == collecting
FadesWriteLocked == faderPc \in {"collect", "delete", "callback"}
FadesUnlocked == ~FadesReadLocked /\ ~FadesWriteLocked

----------------------------------------------------------------------------
(* The updater: handleUpdate *)

ReceiveUpdate(u) ==
    /\ updater = Nil
    /\ updater' = [update |-> u, found |-> u.labels.id \in DOMAIN contacts]
    /\ UNCHANGED <<db, pendingFades, completedFades, missionTime, fader,
                   deadline, extensions, starter, collector, removals>>

\* Trackfile.Update: frames older than the newest one are discarded.  The
\* pointer getByID returned may have left the database meanwhile; the frame
\* is then recorded in a trackfile nobody looks at.
UpdateTrackfile(u) ==
    LET id == u.labels.id
    IN  IF id \in DOMAIN contacts /\ u.time >= contacts[id].last
        THEN contacts' = [contacts EXCEPT ![id].last = u.time]
        ELSE UNCHANGED contacts

\* A new trackfile is stored without the frame that announced it.
ApplyUpdate ==
    /\ updater # Nil
    /\ IF updater.found
       THEN UpdateTrackfile(updater.update) /\ UNCHANGED callsignIdx
       ELSE set(updater.update.labels)
    /\ updater' = Nil
    /\ UNCHANGED <<pendingFades, completedFades, missionTime, fader, deadline,
                   extensions, starter, collector, removals>>

----------------------------------------------------------------------------
(* The fader: collectFadedTrackfiles *)

HasRoom == Len(pendingFades) < MaxPending

IsPending(id) == \E k \in 1..Len(pendingFades) : pendingFades[k] = id

Extension == IF extensions < MaxLongExtensions
             THEN LongExtension ELSE ShortExtension

\* case fade := <-r.fades.  A fade of an unknown contact is ignored; any other
\* moves the deadline, the repeated fade of a pending contact too.  Extensions
\* beyond MaxLongExtensions all count alike.
ReceiveFade(id) ==
    /\ faderPc = "select"
    /\ id \in DOMAIN contacts
    /\ HasRoom \/ IsPending(id)             \* a bound of the model
    /\ deadline' = Extension
    /\ extensions' = IF extensions < MaxLongExtensions
                     THEN extensions + 1 ELSE extensions
    /\ faderPc' = "append"
    /\ fade' = id
    /\ UNCHANGED <<db, pendingFades, completedFades, missionTime, updater,
                   next, groups, starter, collector, removals>>

\* Mutant: the append does not take pendingFadesLock.
AppendFadeUnlocked ==
    /\ faderPc = "append"
    /\ pendingFades' = IF HasRoom THEN Append(pendingFades, fade)
                                  ELSE pendingFades
    /\ faderPc' = "select"
    /\ fade' = Nil
    /\ UNCHANGED <<db, completedFades, missionTime, updater, next, groups,
                   deadline, extensions, starter, collector, removals>>

\* The fade joins the batch.  Repeats beyond MaxPending, a bound of the model,
\* are left out of it: they have moved the deadline.
AppendFade ==
    /\ faderPc = "append"
    /\ FadesUnlocked
    /\ pendingFades' = IF HasRoom THEN Append(pendingFades, fade)
                                  ELSE pendingFades
    /\ faderPc' = "select"
    /\ fade' = Nil
    /\ UNCHANGED <<db, completedFades, missionTime, updater, next, groups,
                   deadline, extensions, starter, collector, removals>>

\* Mutant: the deadline is compared the wrong way round.
FadeTickBefore ==
    /\ faderPc = "select"
    /\ FadesUnlocked
    /\ faderPc' = IF pendingFades # <<>> /\ deadline >= 0
                  THEN "collect" ELSE "clean"
    /\ UNCHANGED <<db, pendingFades, completedFades, missionTime, updater,
                   fade, next, groups, deadline, extensions, starter,
                   collector, removals>>

\* case <-ticker.C, up to the call of handleFaded.
FadeTick ==
    /\ faderPc = "select"
    /\ FadesUnlocked
    /\ faderPc' = IF pendingFades # <<>> /\ deadline < 0
                  THEN "collect" ELSE "clean"
    /\ UNCHANGED <<db, pendingFades, completedFades, missionTime, updater,
                   fade, next, groups, deadline, extensions, starter,
                   collector, removals>>

\* findGroupForAircraft: the contact itself and, once it has a position, any
\* contacts of its coalition that have one too.  Distance, category and tags
\* decide which of them; the model lets them be any.
GroupsAround(id) ==
    LET near == {o \in DOMAIN contacts \ {id} :
                   /\ contacts[id].last # 0
                   /\ contacts[o].last # 0
                   /\ contacts[o].labels.coalition
                        = contacts[id].labels.coalition}
    IN  {[lead |-> id, members |-> {id} \cup s] : s \in SUBSET near}

IsGrouped(id) ==
    \E k \in 1..Len(groups) : id \in groups[k].members

\* One round of the loop of collectFadedGroups.
CollectFade ==
    /\ faderPc = "collect"
    /\ next <= Len(pendingFades)
    /\ LET id == pendingFades[next]
           seen == id \in DOMAIN completedFades
           leads == ~seen /\ id \in DOMAIN contacts /\ ~IsGrouped(id)
       IN  /\ completedFades' =
                IF seen THEN completedFades ELSE Put(completedFades, id, 0)
           /\ IF leads
              THEN \E g \in GroupsAround(id) : groups' = Append(groups, g)
              ELSE UNCHANGED groups
    /\ next' = next + 1
    /\ UNCHANGED <<db, pendingFades, missionTime, updater, faderPc, fade,
                   deadline, extensions, starter, collector, removals>>

EndCollect ==
    /\ faderPc = "collect"
    /\ next > Len(pendingFades)
    /\ faderPc' = "delete"
    /\ next' = 1
    /\ UNCHANGED <<db, pendingFades, completedFades, missionTime, updater,
                   fade, groups, deadline, extensions, starter, collector,
                   removals>>

\* One round of the loop of handleFaded that deletes the contacts.
DeleteFade ==
    /\ faderPc = "delete"
    /\ next <= Len(pendingFades)
    /\ delete(pendingFades[next])
    /\ next' = next + 1
    /\ UNCHANGED <<pendingFades, completedFades, missionTime, updater,
                   faderPc, fade, groups, deadline, extensions, starter,
                   collector, removals>>

EndDelete ==
    /\ faderPc = "delete"
    /\ next > Len(pendingFades)
    /\ faderPc' = "callback"
    /\ next' = 1
    /\ UNCHANGED <<db, pendingFades, completedFades, missionTime, updater,
                   fade, groups, deadline, extensions, starter, collector,
                   removals>>

\* r.fadedCallback, once per group, with the lock still held.
FadedCallback ==
    /\ faderPc = "callback"
    /\ groups # <<>>
    /\ groups' = Tail(groups)
    /\ UNCHANGED <<db, pendingFades, completedFades, missionTime, updater,
                   faderPc, fade, next, deadline, extensions, starter,
                   collector, removals>>

\* handleFaded has returned: the batch is dropped and the lock released.
EndCallback ==
    /\ faderPc = "callback"
    /\ groups = <<>>
    /\ pendingFades' = <<>>
    /\ faderPc' = "clean"
    /\ UNCHANGED <<db, completedFades, missionTime, updater, fade, next,
                   groups, deadline, extensions, starter, collector,
                   removals>>

\* Mutant: the history of completed fades is emptied on every tick.
CleanAllFades ==
    /\ faderPc = "clean"
    /\ completedFades' = EmptyMap
    /\ extensions' = 0
    /\ faderPc' = "select"
    /\ UNCHANGED <<db, pendingFades, missionTime, updater, fade, next, groups,
                   deadline, starter, collector, removals>>

\* The rest of the tick: old completed fades go, the counter starts over.
CleanFades ==
    /\ faderPc = "clean"
    /\ completedFades' = RestrictValues(completedFades,
                           LAMBDA age : ~(age > FadeRetention))
    /\ extensions' = 0
    /\ faderPc' = "select"
    /\ UNCHANGED <<db, pendingFades, missionTime, updater, fade, next, groups,
                   deadline, starter, collector, removals>>

----------------------------------------------------------------------------
(* The collector: handleGarbageCollection *)

\* A trackfile whose newest frame is of time t is too old; one without a
\* frame (t = 0) never is.
IsOld(t) == t # 0 /\ t < missionTime - ExpiryAge

\* The locks are taken, the pending fades looked at and the trackfiles listed
\* (contacts.values()); with fades pending the pass ends at once.
StartCollection ==
    /\ ~collecting
    /\ ~FadesWriteLocked
    /\ pendingFades = <<>>
    /\ collecting' = TRUE
    /\ snapshot' = [id \in DOMAIN contacts |-> contacts[id].last]
    /\ UNCHANGED <<db, pendingFades, completedFades, missionTime, updater,
                   fader, deadline, extensions, starter, removals>>

\* One round of the loop.  The age is read after the listing and before the
\* delete, so an update may come in between either, and a restart may have put
\* another trackfile in the place of the listed one: the decision rests on
\* what was listed or on what is there now.
MayBeOld(id) ==
    \/ IsOld(snapshot[id])
    \/ id \in DOMAIN contacts /\ IsOld(contacts[id].last)

MayBeFresh(id) ==
    \/ ~IsOld(snapshot[id])
    \/ id \in DOMAIN contacts /\ ~IsOld(contacts[id].last)

\* An expired trackfile is deleted; if it was still there its removal
\* callback is left to a goroutine of its own.
ExpireContact(id) ==
    /\ collecting
    /\ id \in DOMAIN snapshot
    /\ MayBeOld(id)
    /\ delete(id)
    /\ removals' = IF id \in DOMAIN contacts THEN removals \cup {id}
                                             ELSE removals
    /\ snapshot' = Drop(snapshot, id)
    /\ UNCHANGED <<collecting, pendingFades, completedFades, missionTime,
                   updater, fader, deadline, extensions, starter>>

KeepContact(id) ==
    /\ collecting
    /\ id \in DOMAIN snapshot
    /\ MayBeFresh(id)
    /\ snapshot' = Drop(snapshot, id)
    /\ UNCHANGED <<db, collecting, pendingFades, completedFades, missionTime,
                   updater, fader, deadline, extensions, starter, removals>>

EndCollection ==
    /\ collecting
    /\ DOMAIN snapshot = {}
    /\ collecting' = FALSE
    /\ UNCHANGED <<snapshot, db, pendingFades, completedFades, missionTime,
                   updater, fader, deadline, extensions, starter, removals>>

\* The goroutine that calls r.removalCallback.
RemovalCallback(id) ==
    /\ id \in removals
    /\ removals' = removals \ {id}
    /\ UNCHANGED <<db, pendingFades, completedFades, missionTime, updater,
                   fader, deadline, extensions, starter, collector>>

----------------------------------------------------------------------------
(* The starter: handleStarted *)

\* r.contacts.reset() runs before any of the fade locks is taken ...
ReceiveStart ==
    /\ starter = "idle"
    /\ reset
    /\ starter' = "reset"
    /\ UNCHANGED <<pendingFades, completedFades, missionTime, updater, fader,
                   deadline, extensions, collector, removals>>

\* Mutant: the restart does not wait for pendingFadesLock.
FinishStartUnlocked ==
    /\ starter = "reset"
    /\ pendingFades' = <<>>
    /\ completedFades' = EmptyMap
    /\ starter' = "idle"
    /\ UNCHANGED <<db, missionTime, updater, fader, deadline, extensions,
                   collector, removals>>

\* ... and the rest once pendingFadesLock is granted, startedCallback
\* included.  The fader's deadline and counter are locals out of its reach.
FinishStart ==
    /\ starter = "reset"
    /\ FadesUnlocked
    /\ pendingFades' = <<>>
    /\ completedFades' = EmptyMap
    /\ starter' = "idle"
    /\ UNCHANGED <<db, missionTime, updater, fader, deadline, extensions,
                   collector, removals>>

----------------------------------------------------------------------------
(* The clocks.  The collector holds missionTimeLock while it runs. *)

SetMissionTime(t) ==
    /\ ~collecting
    /\ missionTime' = t
    /\ UNCHANGED <<db, pendingFades, completedFades, updater, fader, deadline,
                   extensions, starter, collector, removals>>

\* An age, one tick later.  Beyond the retention all ages are alike.
Older(age) == IF age > FadeRetention THEN age ELSE age + 1

Tick ==
    /\ deadline' = IF deadline >= 0 THEN deadline - 1 ELSE deadline
    /\ completedFades' = [id \in DOMAIN completedFades |->
                            Older(completedFades[id])]
    /\ UNCHANGED <<db, pendingFades, missionTime, updater, fader, extensions,
                   starter, collector, removals>>

----------------------------------------------------------------------------
Init ==
    /\ contacts = EmptyMap
    /\ callsignIdx = [c \in Coalition |-> EmptyMap]
    /\ pendingFades = <<>>
    /\ completedFades = EmptyMap
    /\ missionTime = 0
    /\ updater = Nil
    /\ faderPc = "select"
    /\ fade = Nil
    /\ next = 1
    /\ groups = <<>>
    /\ deadline = -1
    /\ extensions = 0
    /\ starter = "idle"
    /\ collecting = FALSE
    /\ snapshot = EmptyMap
    /\ removals = {}

FaderNext ==
    \/ AppendFade \/ FadeTick \/ CollectFade \/ EndCollect \/ DeleteFade
    \/ EndDelete \/ FadedCallback \/ EndCallback \/ CleanFades

CollectorNext ==
    \/ StartCollection
    \/ \E id \in ID : ExpireContact(id) \/ KeepContact(id)
    \/ EndCollection

Activity ==
    \/ \E u \in Update : ReceiveUpdate(u)
    \/ ApplyUpdate
    \/ \E id \in ID : ReceiveFade(id)
    \/ FaderNext
    \/ CollectorNext
    \/ \E id \in ID : RemovalCallback(id)
    \/ ReceiveStart
    \/ FinishStart
    \/ \E t \in 0..MaxMissionTime : SetMissionTime(t)

Next == Activity \/ Tick

Spec == Init /\ [][Next]_vars

----------------------------------------------------------------------------
\* The types of the contact database.
DBTypeOK ==
    /\ IsMap(contacts, ID, Trackfile)
    /\ DOMAIN callsignIdx = Coalition
    /\ callsignIdx = [c \in Coalition |-> callsignIdx[c]]
    /\ \A c \in Coalition : IsMap(callsignIdx[c], Name, ID)

\* Every variable has its type.
TypeOK ==
    /\ DBTypeOK
    /\ pendingFades \in Seq(ID)
    /\ IsMap(completedFades, ID, 0..(FadeRetention + 1))
    /\ missionTime \in 0..MaxMissionTime
    /\ updater \in [update : Update, found : BOOLEAN] \cup {Nil}
    /\ faderPc \in FaderPc
    /\ fade \in ID \cup {Nil}
    /\ faderPc = "append" => fade \in ID
    /\ next \in Nat \ {0}
    /\ groups \in Seq(Group)
    /\ deadline \in Nat \cup {-1}
    /\ extensions \in 0..MaxLongExtensions
    /\ starter \in {"idle", "reset"}
    /\ collecting \in BOOLEAN
    /\ IsMap(snapshot, ID, 0..MaxMissionTime)
    /\ removals \in SUBSET ID

\* Every entry of the callsign index leads to a contact that is in the
\* database under that name and coalition, whatever the four goroutines do
\* between two database operations: the second lookup of
\* getByCallsignAndCoalititon (contacts[id]) can never miss.
IndexSound ==
    \A c \in Coalition : \A n \in DOMAIN callsignIdx[c] :
        /\ callsignIdx[c][n] \in DOMAIN contacts
        /\ contacts[callsignIdx[c][n]].labels.name = n
        /\ contacts[callsignIdx[c][n]].labels.coalition = c

\* A contact handleUpdate looked up in vain is still absent when it calls set:
\* no other goroutine adds contacts.  IndexSound rests on it.
MissStillHolds ==
    updater # Nil /\ ~updater.found
        => updater.update.labels.id \notin DOMAIN contacts

\* While handleGarbageCollection expires trackfiles no fade is pending or
\* being handled, from its first look at pendingFades to its last delete: a
\* contact waiting for its FADED call is never expired under it.
ExpiryExcludesFades ==
    collecting => pendingFades = <<>> /\ ~FadesWriteLocked

\* A batch handed to handleFaded stays as it is until handleFaded is done
\* with it: neither a mission restart nor a new fade changes the slice that
\* collectFadedGroups and the delete loop walk.
BatchIntact ==
    [][FadesWriteLocked /\ FadesWriteLocked'
         => pendingFades' = pendingFades]_vars

\* Once fades stop arriving every pending batch is handled, or cleared by a
\* restart, so WaitUntilFadesResolve returns.  Nothing of the kind holds while
\* they keep arriving: each moves the deadline on.
FadesResolve ==
    <>[](faderPc # "append") => []<>(pendingFades = <<>>)

\* The goroutines keep running and time passes.
Fairness ==
    /\ WF_vars(ApplyUpdate)
    /\ WF_vars(FaderNext)
    /\ WF_vars(CollectorNext)
    /\ WF_vars(FinishStart)
    /\ WF_vars(Tick)
=============================================================================
