---------------------------- MODULE RadarProofs ----------------------------
(***************************************************************************)
(* The radar scope's safety properties for every number of contacts, every *)
(* set of labels and every bound of the model.                             *)
(***************************************************************************)
EXTENDS FadeHistory, TLAPS

----------------------------------------------------------------------------
(* Maps *)

\* Writing an entry of the right types keeps a map a map.
LEMMA PutIsMap ==
    ASSUME NEW K, NEW V, NEW m, IsMap(m, K, V), NEW k \in K, NEW v \in V
    PROVE  IsMap(Put(m, k, v), K, V)
BY DEF IsMap, Put

\* Deleting an entry keeps a map a map.
LEMMA DropIsMap ==
    ASSUME NEW K, NEW V, NEW m, IsMap(m, K, V), NEW k
    PROVE  IsMap(Drop(m, k), K, V)
BY DEF IsMap, Drop, Restrict

\* The empty map is a map of any type.
LEMMA EmptyIsMap ==
    ASSUME NEW K, NEW V
    PROVE  IsMap(EmptyMap, K, V) /\ DOMAIN EmptyMap = {}
BY DEF IsMap, EmptyMap

----------------------------------------------------------------------------
(* Type correctness *)

\* contactDatabase.reset produces a well-typed database.
LEMMA ResetType == ASSUME reset PROVE DBTypeOK'
BY EmptyIsMap DEF reset, DBTypeOK

\* contactDatabase.set keeps the database well typed.
LEMMA SetType ==
    ASSUME DBTypeOK, NEW labels \in LabelSet, set(labels)
    PROVE  DBTypeOK'
<1>1. /\ labels.id \in ID
      /\ labels.name \in Name
      /\ labels.coalition \in Coalition
  BY LabelsAssumption
<1>2. [labels |-> labels, last |-> 0] \in Trackfile
  BY TimeAssumption DEF Trackfile
<1>3. IsMap(contacts', ID, Trackfile)
  BY <1>1, <1>2, PutIsMap DEF set, DBTypeOK
<1>4. callsignIdx' = [c \in Coalition |-> IF c = labels.coalition
                          THEN Put(callsignIdx[c], labels.name, labels.id)
                          ELSE callsignIdx[c]]
  BY <1>1 DEF set, DBTypeOK
<1>5. ASSUME NEW c \in Coalition PROVE IsMap(callsignIdx'[c], Name, ID)
  BY <1>1, <1>4, PutIsMap DEF DBTypeOK
<1>6. callsignIdx' = [c \in Coalition |-> callsignIdx'[c]]
  BY <1>4
<1> QED BY <1>3, <1>5, <1>6 DEF DBTypeOK

\* contactDatabase.delete keeps the database well typed.
LEMMA DeleteType ==
    ASSUME DBTypeOK, NEW id, delete(id)
    PROVE  DBTypeOK'
<1>1. CASE id \notin DOMAIN contacts
  BY <1>1 DEF delete, db, DBTypeOK
<1>2. CASE id \in DOMAIN contacts
  <2> DEFINE l == contacts[id].labels
  <2>1. l.coalition \in Coalition
    BY <1>2, LabelsAssumption DEF DBTypeOK, IsMap, Trackfile
  <2>2. IsMap(contacts', ID, Trackfile)
    BY <1>2, DropIsMap DEF delete, DBTypeOK
  <2>3. callsignIdx' = [c \in Coalition |-> IF c = l.coalition
                            THEN Drop(callsignIdx[c], l.name)
                            ELSE callsignIdx[c]]
    BY <1>2, <2>1 DEF delete, DBTypeOK
  <2>4. ASSUME NEW c \in Coalition PROVE IsMap(callsignIdx'[c], Name, ID)
    BY <2>3, DropIsMap DEF DBTypeOK
  <2>5. callsignIdx' = [c \in Coalition |-> callsignIdx'[c]]
    BY <2>3
  <2> QED BY <2>2, <2>4, <2>5 DEF DBTypeOK
<1> QED BY <1>1, <1>2

\* Recording a frame keeps the database well typed.
LEMMA UpdateTrackfileType ==
    ASSUME DBTypeOK, NEW u \in Update, UpdateTrackfile(u),
           UNCHANGED callsignIdx
    PROVE  DBTypeOK'
<1>1. u.time \in 0..MaxMissionTime
  BY TimeAssumption DEF Update
<1>2. IsMap(contacts', ID, Trackfile)
  BY <1>1 DEF UpdateTrackfile, DBTypeOK, IsMap, Trackfile
<1> QED BY <1>2 DEF DBTypeOK

\* The batch the fader walks holds object IDs.
LEMMA BatchElement ==
    ASSUME TypeOK, next <= Len(pendingFades)
    PROVE  pendingFades[next] \in ID
BY DEF TypeOK

\* The groups findGroupForAircraft can return are groups of known objects.
LEMMA GroupsAroundType ==
    ASSUME TypeOK, NEW id \in ID
    PROVE  GroupsAround(id) \subseteq Group
BY DEF GroupsAround, Group, TypeOK, DBTypeOK, IsMap

\* Growing older keeps ages ages.
LEMMA OlderIsMap ==
    ASSUME NEW m, IsMap(m, ID, 0..(FadeRetention + 1))
    PROVE  IsMap([id \in DOMAIN m |-> Older(m[id])], ID,
                 0..(FadeRetention + 1))
BY TimeAssumption DEF IsMap, Older

\* Initially every variable has its type.
LEMMA TypeInit == Init => TypeOK
<1> SUFFICES ASSUME Init PROVE TypeOK
  OBVIOUS
<1>1. DBTypeOK
  BY EmptyIsMap DEF Init, DBTypeOK
<1>2. IsMap(completedFades, ID, 0..(FadeRetention + 1))
  BY EmptyIsMap DEF Init
<1>3. missionTime \in 0..MaxMissionTime
  BY TimeAssumption DEF Init
<1>4. pendingFades \in Seq(ID) /\ groups \in Seq(Group)
  BY DEF Init
<1>5. /\ deadline \in Nat \cup {-1} /\ extensions \in 0..MaxLongExtensions
      /\ next \in Nat \ {0}
  BY TimeAssumption DEF Init
<1>6. /\ updater \in [update : Update, found : BOOLEAN] \cup {Nil}
      /\ fade \in ID \cup {Nil}
      /\ faderPc \in FaderPc
      /\ faderPc # "append"
      /\ starter \in {"idle", "reset"}
  BY DEF Init, FaderPc
<1>7. /\ collecting \in BOOLEAN
      /\ IsMap(snapshot, ID, 0..MaxMissionTime)
      /\ removals \in SUBSET ID
  BY EmptyIsMap DEF Init
<1> QED BY <1>1, <1>2, <1>3, <1>4, <1>5, <1>6, <1>7 DEF TypeOK

\* Every step keeps the types.
LEMMA TypeStep == ASSUME TypeOK, [Next]_vars PROVE TypeOK'
<1> USE DEF TypeOK, FaderPc
<1>1. ASSUME NEW u \in Update, ReceiveUpdate(u) PROVE TypeOK'
  BY <1>1 DEF ReceiveUpdate, db, fader, collector, DBTypeOK
<1>2. CASE ApplyUpdate
  <2>1. updater.update \in Update /\ updater.update.labels \in LabelSet
    BY <1>2 DEF ApplyUpdate, Update
  <2>2. DBTypeOK'
    BY <1>2, <2>1, SetType, UpdateTrackfileType DEF ApplyUpdate
  <2> QED BY <1>2, <2>2 DEF ApplyUpdate, fader, collector
<1>3. ASSUME NEW id \in ID, ReceiveFade(id) PROVE TypeOK'
  <2>1. deadline' \in Nat /\ extensions' \in 0..MaxLongExtensions
    BY <1>3, TimeAssumption DEF ReceiveFade, Extension
  <2> QED BY <1>3, <2>1 DEF ReceiveFade, db, collector, DBTypeOK
<1>4. CASE AppendFade
  BY <1>4 DEF AppendFade, db, collector, DBTypeOK
<1>5. CASE FadeTick
  BY <1>5 DEF FadeTick, db, collector, DBTypeOK
<1>6. CASE CollectFade
  <2> DEFINE id == pendingFades[next]
  <2>1. id \in ID
    BY <1>6, BatchElement DEF CollectFade
  <2>2. IsMap(completedFades', ID, 0..(FadeRetention + 1))
    BY <1>6, <2>1, PutIsMap, TimeAssumption DEF CollectFade
  <2>3. groups' \in Seq(Group)
    BY <1>6, <2>1, GroupsAroundType DEF CollectFade
  <2> QED BY <1>6, <2>2, <2>3 DEF CollectFade, db, collector, DBTypeOK
<1>7. CASE EndCollect
  BY <1>7 DEF EndCollect, db, collector, DBTypeOK
<1>8. CASE DeleteFade
  BY <1>8, DeleteType DEF DeleteFade, collector
<1>9. CASE EndDelete
  BY <1>9 DEF EndDelete, db, collector, DBTypeOK
<1>10. CASE FadedCallback
  BY <1>10 DEF FadedCallback, db, collector, DBTypeOK
<1>11. CASE EndCallback
  BY <1>11 DEF EndCallback, db, collector, DBTypeOK
<1>12. CASE CleanFades
  <2>1. IsMap(completedFades', ID, 0..(FadeRetention + 1))
    BY <1>12 DEF CleanFades, IsMap, RestrictValues, Restrict
  <2>2. extensions' \in 0..MaxLongExtensions
    BY <1>12, TimeAssumption DEF CleanFades
  <2> QED BY <1>12, <2>1, <2>2 DEF CleanFades, db, collector, DBTypeOK
<1>13. CASE StartCollection
  <2>1. IsMap(snapshot', ID, 0..MaxMissionTime)
    BY <1>13 DEF StartCollection, DBTypeOK, IsMap, Trackfile
  <2> QED BY <1>13, <2>1 DEF StartCollection, db, fader, DBTypeOK
<1>14. ASSUME NEW id \in ID, ExpireContact(id) \/ KeepContact(id)
       PROVE  TypeOK'
  <2>1. IsMap(snapshot', ID, 0..MaxMissionTime)
    BY <1>14, DropIsMap DEF ExpireContact, KeepContact
  <2>2. DBTypeOK'
    BY <1>14, DeleteType DEF ExpireContact, KeepContact, db, DBTypeOK
  <2> QED BY <1>14, <2>1, <2>2 DEF ExpireContact, KeepContact, fader
<1>15. CASE EndCollection
  BY <1>15 DEF EndCollection, db, fader, DBTypeOK
<1>16. ASSUME NEW id \in ID, RemovalCallback(id) PROVE TypeOK'
  BY <1>16 DEF RemovalCallback, db, fader, collector, DBTypeOK
<1>17. CASE ReceiveStart
  BY <1>17, ResetType DEF ReceiveStart, fader, collector
<1>18. CASE FinishStart
  BY <1>18, EmptyIsMap DEF FinishStart, db, fader, collector, DBTypeOK
<1>19. ASSUME NEW t \in 0..MaxMissionTime, SetMissionTime(t) PROVE TypeOK'
  BY <1>19 DEF SetMissionTime, db, fader, collector, DBTypeOK
<1>20. CASE Tick
  <2>1. IsMap(completedFades', ID, 0..(FadeRetention + 1))
    BY <1>20, OlderIsMap DEF Tick
  <2>2. deadline' \in Nat \cup {-1}
    BY <1>20 DEF Tick
  <2> QED BY <1>20, <2>1, <2>2 DEF Tick, db, fader, collector, DBTypeOK
<1>21. CASE UNCHANGED vars
  BY <1>21 DEF vars, DBTypeOK
<1> QED
  BY <1>1, <1>2, <1>3, <1>4, <1>5, <1>6, <1>7, <1>8, <1>9, <1>10, <1>11,
     <1>12, <1>13, <1>14, <1>15, <1>16, <1>17, <1>18, <1>19, <1>20, <1>21
  DEF Next, Activity, FaderNext, CollectorNext

\* The radar's state always has its types: the maps of the database hold
\* trackfiles under object IDs, one index per coalition, and the fader never
\* holds anything but object IDs in its batch.
THEOREM TypeCorrect == Spec => []TypeOK
BY TypeInit, TypeStep, PTL DEF Spec

----------------------------------------------------------------------------
(* The callsign index *)

\* contactDatabase.set keeps the index sound if the object is new.  (With an
\* object already known under another name it would not: the entry of the old
\* name would stay behind.)
LEMMA SetIndex ==
    ASSUME DBTypeOK, IndexSound, NEW labels \in LabelSet,
           labels.id \notin DOMAIN contacts, set(labels)
    PROVE  IndexSound'
<1>1. labels.coalition \in Coalition
  BY LabelsAssumption
<1>2. SUFFICES ASSUME NEW c \in Coalition, NEW n \in DOMAIN callsignIdx'[c]
               PROVE  /\ callsignIdx'[c][n] \in DOMAIN contacts'
                      /\ contacts'[callsignIdx'[c][n]].labels.name = n
                      /\ contacts'[callsignIdx'[c][n]].labels.coalition = c
  BY DEF IndexSound
<1>3. /\ DOMAIN contacts' = DOMAIN contacts \cup {labels.id}
      /\ contacts'[labels.id].labels = labels
      /\ \A x \in DOMAIN contacts : contacts'[x] = contacts[x]
  BY DEF set, Put
<1>4. callsignIdx'[c] = IF c = labels.coalition
                        THEN Put(callsignIdx[c], labels.name, labels.id)
                        ELSE callsignIdx[c]
  BY <1>1 DEF set, DBTypeOK
<1>5. CASE c = labels.coalition /\ n = labels.name
  BY <1>3, <1>4, <1>5 DEF Put
<1>6. CASE ~(c = labels.coalition /\ n = labels.name)
  <2>1. n \in DOMAIN callsignIdx[c] /\ callsignIdx'[c][n] = callsignIdx[c][n]
    BY <1>4, <1>6 DEF Put
  <2> QED BY <2>1, <1>3 DEF IndexSound
<1> QED BY <1>5, <1>6

\* contactDatabase.delete keeps the index sound: an entry that leads to the
\* deleted contact is under the contact's own name and goes with it.
LEMMA DeleteIndex ==
    ASSUME DBTypeOK, IndexSound, NEW id, delete(id)
    PROVE  IndexSound' /\ DOMAIN contacts' \subseteq DOMAIN contacts
<1>1. CASE id \notin DOMAIN contacts
  BY <1>1 DEF delete, db, IndexSound
<1>2. CASE id \in DOMAIN contacts
  <2> DEFINE l == contacts[id].labels
  <2>1. l.coalition \in Coalition
    BY <1>2, LabelsAssumption DEF DBTypeOK, IsMap, Trackfile
  <2>2. /\ DOMAIN contacts' = DOMAIN contacts \ {id}
        /\ \A x \in DOMAIN contacts : x # id => contacts'[x] = contacts[x]
    BY <1>2 DEF delete, Drop, Restrict
  <2>3. ASSUME NEW c \in Coalition, NEW n \in DOMAIN callsignIdx'[c]
        PROVE  /\ callsignIdx'[c][n] \in DOMAIN contacts'
               /\ contacts'[callsignIdx'[c][n]].labels.name = n
               /\ contacts'[callsignIdx'[c][n]].labels.coalition = c
    <3>1. callsignIdx'[c] = IF c = l.coalition
                            THEN Drop(callsignIdx[c], l.name)
                            ELSE callsignIdx[c]
      BY <1>2, <2>1 DEF delete, DBTypeOK
    <3>2. /\ n \in DOMAIN callsignIdx[c]
          /\ callsignIdx'[c][n] = callsignIdx[c][n]
          /\ ~(c = l.coalition /\ n = l.name)
      BY <3>1 DEF Drop, Restrict
    <3>3. callsignIdx[c][n] # id
      BY <3>2 DEF IndexSound
    <3> QED BY <2>2, <3>2, <3>3 DEF IndexSound
  <2> QED BY <2>2, <2>3 DEF IndexSound
<1> QED BY <1>1, <1>2

\* A frame changes neither the contacts' labels nor which contacts there are.
LEMMA UpdateTrackfileIndex ==
    ASSUME DBTypeOK, IndexSound, NEW u \in Update, UpdateTrackfile(u),
           UNCHANGED callsignIdx
    PROVE  IndexSound' /\ DOMAIN contacts' = DOMAIN contacts
<1>1. /\ DOMAIN contacts' = DOMAIN contacts
      /\ \A x \in DOMAIN contacts : contacts'[x].labels = contacts[x].labels
  BY DEF UpdateTrackfile, DBTypeOK, IsMap, Trackfile
<1>2. \A c \in Coalition : \A n \in DOMAIN callsignIdx[c] :
        callsignIdx[c][n] \in DOMAIN contacts
  BY DEF IndexSound
<1> QED BY <1>1, <1>2 DEF IndexSound

\* The inductive invariant behind IndexSound: the soundness of the index is
\* kept by set only because a miss still holds when set runs.
IndexInv == TypeOK /\ IndexSound /\ MissStillHolds

\* Every step keeps the index sound and every miss valid.
LEMMA IndexStep == ASSUME IndexInv, [Next]_vars PROVE IndexInv'
<1> DEFINE U == updater.update
<1>0. TypeOK /\ TypeOK' /\ DBTypeOK /\ IndexSound /\ MissStillHolds
  BY TypeStep DEF IndexInv, TypeOK
<1>1. ASSUME NEW u \in Update, ReceiveUpdate(u)
      PROVE  IndexSound' /\ MissStillHolds'
  <2>1. MissStillHolds'
    BY <1>1 DEF ReceiveUpdate, MissStillHolds, db
  <2> QED BY <1>0, <1>1, <2>1 DEF ReceiveUpdate, IndexSound, db
<1>2. ASSUME ApplyUpdate PROVE IndexSound' /\ MissStillHolds'
  <2>1. U \in Update /\ U.labels \in LabelSet
    BY <1>0, <1>2 DEF ApplyUpdate, Update, TypeOK
  <2>2. CASE updater.found
    BY <1>0, <1>2, <2>1, <2>2, UpdateTrackfileIndex
    DEF ApplyUpdate, MissStillHolds
  <2>3. CASE ~updater.found
    BY <1>0, <1>2, <2>1, <2>3, SetIndex DEF ApplyUpdate, MissStillHolds
  <2> QED BY <2>2, <2>3
<1>3. ASSUME NEW id, delete(id), UNCHANGED updater
      PROVE  IndexSound' /\ MissStillHolds'
  BY <1>0, <1>3, DeleteIndex DEF MissStillHolds
<1>4. ASSUME reset, UNCHANGED updater PROVE IndexSound' /\ MissStillHolds'
  BY <1>4, EmptyIsMap DEF reset, IndexSound, MissStillHolds
<1>5. ASSUME UNCHANGED db, UNCHANGED updater
      PROVE  IndexSound' /\ MissStillHolds'
  BY <1>0, <1>5 DEF db, IndexSound, MissStillHolds
<1>6. \/ \E u \in Update : ReceiveUpdate(u)
      \/ ApplyUpdate
      \/ (\E id \in ID : delete(id)) /\ UNCHANGED updater
      \/ reset /\ UNCHANGED updater
      \/ UNCHANGED <<db, updater>>
  <2>1. CASE DeleteFade
    BY <1>0, <2>1, BatchElement DEF DeleteFade
  <2>2. CASE ~DeleteFade
    BY <2>2 DEF Next, Activity, FaderNext, CollectorNext, vars, db, ReceiveFade,
       AppendFade, FadeTick, CollectFade, EndCollect, EndDelete,
       FadedCallback, EndCallback, CleanFades, StartCollection,
       ExpireContact, KeepContact, EndCollection, RemovalCallback, ReceiveStart,
       FinishStart, SetMissionTime, Tick
  <2> QED BY <2>1, <2>2
<1> QED BY <1>0, <1>1, <1>2, <1>3, <1>4, <1>5, <1>6 DEF IndexInv

\* For every set of objects, names and coalitions, an index entry always
\* leads to the contact it names: getByCallsignAndCoalititon never finds a
\* name in the index and then no trackfile for it.
THEOREM IndexCorrect == Spec => []IndexSound
<1>1. Init => IndexInv
  BY TypeInit, EmptyIsMap DEF Init, IndexInv, IndexSound, MissStillHolds
<1>2. IndexInv /\ [Next]_vars => IndexInv'
  BY IndexStep
<1>3. IndexInv => IndexSound
  BY DEF IndexInv
<1> QED BY <1>1, <1>2, <1>3, PTL DEF Spec

----------------------------------------------------------------------------
(* Fades against expiry and restart *)

\* Every step keeps expiry and fades apart.
LEMMA ExpiryStep ==
    ASSUME ExpiryExcludesFades, [Next]_vars PROVE ExpiryExcludesFades'
<1> USE DEF ExpiryExcludesFades, FadesWriteLocked
<1>1. CASE FaderNext
  BY <1>1 DEF FaderNext, AppendFade, FadeTick, CollectFade, EndCollect,
     DeleteFade, EndDelete, FadedCallback, EndCallback, CleanFades,
     FadesUnlocked, FadesReadLocked, collector
<1>2. CASE CollectorNext
  BY <1>2 DEF CollectorNext, StartCollection, ExpireContact, KeepContact, EndCollection,
     fader
<1>3. CASE FinishStart
  BY <1>3 DEF FinishStart, fader, collector
<1>4. ASSUME NEW id \in ID, ReceiveFade(id) PROVE ExpiryExcludesFades'
  BY <1>4 DEF ReceiveFade, collector
<1>5. CASE UNCHANGED <<pendingFades, faderPc, collecting>>
  BY <1>5
<1> QED
  BY <1>1, <1>2, <1>3, <1>4, <1>5
  DEF Next, Activity, ReceiveUpdate, ApplyUpdate, RemovalCallback, ReceiveStart,
      SetMissionTime, Tick, fader, collector, vars

\* For every batch size and every timing, the collector never expires a
\* contact while a fade is pending or being handled.
THEOREM ExpiryCorrect == Spec => []ExpiryExcludesFades
<1>1. Init => ExpiryExcludesFades
  BY DEF Init, ExpiryExcludesFades
<1> QED BY <1>1, ExpiryStep, PTL DEF Spec

\* No step of any goroutine touches the batch handleFaded is working on.
THEOREM BatchCorrect == Spec => BatchIntact
<1>1. [Next]_vars => [FadesWriteLocked /\ FadesWriteLocked'
                        => pendingFades' = pendingFades]_vars
  <2> SUFFICES ASSUME Next, FadesWriteLocked, FadesWriteLocked'
               PROVE  pendingFades' = pendingFades
    BY DEF FadesWriteLocked, vars
  <2> USE DEF FadesWriteLocked
  <2>1. ~AppendFade /\ ~EndCallback /\ ~FinishStart
    BY DEF AppendFade, EndCallback, FinishStart, FadesUnlocked, fader
  <2> QED
    BY <2>1 DEF Next, Activity, FaderNext, CollectorNext, ReceiveUpdate, ApplyUpdate,
       ReceiveFade, FadeTick, CollectFade, EndCollect, DeleteFade, EndDelete,
       FadedCallback, CleanFades, StartCollection, ExpireContact,
       KeepContact,
       EndCollection, RemovalCallback, ReceiveStart, SetMissionTime, Tick
<1> QED BY <1>1, PTL DEF Spec, BatchIntact

-----------------------------------------------------------------------------
(* A contact fades once: completedFades keeps it from leading a second     *)
(* group within the retention, for every set of contacts, every retention  *)
(* and every timing of the four goroutines.                                *)

\* The history is a map from contacts to ages.
LedTypeOK == IsMap(lastLed, ID, 0..(FadeRetention + 1))

\* Whoever led a group is still in completedFades, recorded no longer ago than
\* that group, until the retention is over.
LedRemembered ==
    \A id \in DOMAIN lastLed :
        \/ id \in DOMAIN completedFades /\ completedFades[id] <= lastLed[id]
        \/ lastLed[id] > FadeRetention

FadeInv == TypeOK /\ LedTypeOK /\ LedRemembered

----------------------------------------------------------------------------
\* Only four things touch what the invariant is about: a round of
\* collectFadedGroups, the clean-up of a tick, a restart, and the clock.
LEMMA FadeSteps ==
    ASSUME FadeInv, [HistoryNext]_hvars
    PROVE  \/ RecordLeads /\ CollectFade
           \/ RecordLeads /\ CleanFades
           \/ RecordLeads /\ FinishStart
           \/ Tick /\ AgeLeads /\ NewLeads = {}
           \/ /\ completedFades' = completedFades
              /\ NewLeads = {} /\ lastLed' = lastLed
  <1>. DEFINE Others == /\ completedFades' = completedFades
                        /\ starter = "reset" => starter' = "reset"
                        /\ \/ groups' = groups
                           \/ groups # <<>> /\ groups' = Tail(groups)
  <1>1. CASE UNCHANGED hvars
    BY <1>1 DEF hvars, vars, NewLeads
  <1>2. CASE Tick /\ AgeLeads
    <2>1. groups' = groups
      BY <1>2 DEF Tick, fader
    <2>2. NewLeads = {}
      BY <2>1 DEF NewLeads, FadeInv, TypeOK
    <2>. QED
      BY <1>2, <2>2
  <1>3. CASE Activity /\ RecordLeads
    <2>1. \/ CollectFade \/ CleanFades \/ FinishStart \/ Others
      <3>1. CASE FaderNext
        BY <3>1 DEF FaderNext, AppendFade, FadeTick, EndCollect, DeleteFade,
           EndDelete, FadedCallback, EndCallback
      <3>2. CASE CollectorNext
        BY <3>2 DEF CollectorNext, StartCollection, ExpireContact, KeepContact,
           EndCollection, fader
      <3>3. CASE ReceiveStart
        BY <3>3 DEF ReceiveStart, fader
      <3>. QED
        BY <1>3, <3>1, <3>2, <3>3
        DEF Activity, ReceiveUpdate, ApplyUpdate, ReceiveFade, RemovalCallback,
            SetMissionTime, fader
    <2>2. CASE Others
      <3>1. groups \in Seq(Group)
        BY DEF FadeInv, TypeOK
      <3>2. ~(Len(groups') > Len(groups))
        <4>1. CASE groups' = groups
          BY <3>1, <4>1
        <4>2. CASE groups # <<>> /\ groups' = Tail(groups)
          BY <3>1, <4>2
        <4>. QED
          BY <2>2, <4>1, <4>2
      <3>3. NewLeads = {}
        BY <3>2 DEF NewLeads
      <3>4. ~Restarted
        BY <2>2 DEF Restarted
      <3>5. lastLed' = [id \in DOMAIN lastLed |-> lastLed[id]]
        BY <1>3, <3>3, <3>4 DEF RecordLeads
      <3>6. lastLed' = lastLed
        BY <3>5 DEF FadeInv, LedTypeOK, IsMap
      <3>. QED
        BY <2>2, <3>3, <3>6
    <2>. QED
      BY <1>3, <2>1, <2>2
  <1>. QED
    BY <1>1, <1>2, <1>3 DEF HistoryNext

\* A contact that leads a new group is one that collectFadedGroups has not seen
\* within the retention, and that it has recorded.
LEMMA LeadRecorded ==
    ASSUME FadeInv, CollectFade, NEW id \in NewLeads
    PROVE  /\ id = pendingFades[next]
           /\ id \notin DOMAIN completedFades
           /\ completedFades' = Put(completedFades, id, 0)
  <1>. DEFINE f == pendingFades[next]
              leads == f \notin DOMAIN completedFades /\ f \in DOMAIN contacts /\ ~IsGrouped(f)
  <1>1. groups \in Seq(Group) /\ f \in ID
    BY BatchElement DEF FadeInv, TypeOK, CollectFade
  <1>2. Len(groups') > Len(groups) /\ groups'[Len(groups')].lead = id
    BY DEF NewLeads
  <1>3. leads
    <2>. SUFFICES ASSUME ~leads PROVE FALSE
      OBVIOUS
    <2>1. groups' = groups
      BY DEF CollectFade
    <2>. QED
      BY <1>1, <1>2, <2>1
  <1>4. PICK g \in GroupsAround(f) : groups' = Append(groups, g)
    BY <1>3 DEF CollectFade
  <1>5. g.lead = f /\ g \in Group
    <2>1. g \in Group
      BY <1>1, GroupsAroundType DEF FadeInv
    <2>2. \E s : g = [lead |-> f, members |-> {f} \cup s]
      BY DEF GroupsAround
    <2>. QED
      BY <2>1, <2>2
  <1>6. groups'[Len(groups')] = g
    BY <1>1, <1>4, <1>5
  <1>7. id = f
    BY <1>2, <1>5, <1>6
  <1>8. completedFades' = Put(completedFades, f, 0)
    BY <1>3 DEF CollectFade
  <1>. QED
    BY <1>3, <1>7, <1>8

\* What the goroutines' steps make of the history, restarts apart.
LEMMA LedNext ==
    ASSUME FadeInv, RecordLeads, ~Restarted
    PROVE  /\ LedTypeOK'
           /\ DOMAIN lastLed' = DOMAIN lastLed \cup NewLeads
           /\ \A id \in NewLeads : lastLed'[id] = 0
           /\ \A id \in DOMAIN lastLed \ NewLeads : lastLed'[id] = lastLed[id]
  <1>1. lastLed' = [id \in DOMAIN lastLed \cup NewLeads |->
                      IF id \in NewLeads THEN 0 ELSE lastLed[id]]
    BY DEF RecordLeads
  <1>2. NewLeads \subseteq ID /\ 0 \in 0..(FadeRetention + 1)
    BY TimeAssumption DEF NewLeads
  <1>3. LedTypeOK'
    BY <1>1, <1>2 DEF FadeInv, LedTypeOK, IsMap
  <1>. QED
    BY <1>1, <1>3

\* Every step keeps the invariant.
LEMMA FadeStep ==
    ASSUME FadeInv, [HistoryNext]_hvars
    PROVE  FadeInv'
  <1>1. TypeOK'
    BY TypeStep DEF FadeInv, HistoryNext, Next, hvars
  <1>2. /\ FadeRetention \in Nat
        /\ \A id \in DOMAIN lastLed : lastLed[id] \in Nat
        /\ \A id \in DOMAIN completedFades : completedFades[id] \in Nat
    BY TimeAssumption DEF FadeInv, TypeOK, LedTypeOK, IsMap
  <1>3. ASSUME RecordLeads, CollectFade
        PROVE  LedTypeOK' /\ LedRemembered'
    <2>1. ~Restarted
      BY <1>3 DEF CollectFade, Restarted
    <2>2. ASSUME NEW id \in DOMAIN completedFades
          PROVE  id \in DOMAIN completedFades' /\ completedFades'[id] = completedFades[id]
      BY <1>3, <2>2 DEF CollectFade, Put
    <2>3. ASSUME NEW id \in NewLeads
          PROVE  id \in DOMAIN completedFades' /\ completedFades'[id] = 0
      BY <1>3, <2>3, LeadRecorded DEF Put
    <2>4. LedTypeOK'
      BY <1>3, <2>1, LedNext
    <2>5. ASSUME NEW id \in DOMAIN lastLed'
          PROVE  \/ id \in DOMAIN completedFades' /\ completedFades'[id] <= lastLed'[id]
                 \/ lastLed'[id] > FadeRetention
      <3>1. CASE id \in NewLeads
        <4>1. lastLed'[id] = 0
          BY <1>3, <2>1, <3>1, LedNext
        <4>2. id \in DOMAIN completedFades' /\ completedFades'[id] = 0
          BY <2>3, <3>1
        <4>. QED
          BY <4>1, <4>2
      <3>2. CASE id \notin NewLeads
        <4>1. id \in DOMAIN lastLed /\ lastLed'[id] = lastLed[id]
          BY <1>3, <2>1, <3>2, LedNext
        <4>. QED
          BY <2>2, <4>1 DEF FadeInv, LedRemembered
      <3>. QED
        BY <3>1, <3>2
    <2>. QED
      BY <2>4, <2>5 DEF LedRemembered
  <1>4. ASSUME RecordLeads, CleanFades
        PROVE  LedTypeOK' /\ LedRemembered'
    <2>1. ~Restarted /\ NewLeads = {}
      BY <1>4 DEF CleanFades, Restarted, NewLeads, FadeInv, TypeOK
    <2>2. ASSUME NEW id \in DOMAIN completedFades
          PROVE  \/ completedFades[id] > FadeRetention
                 \/ id \in DOMAIN completedFades' /\ completedFades'[id] = completedFades[id]
      BY <1>4, <2>2 DEF CleanFades, RestrictValues, Restrict
    <2>3. /\ LedTypeOK' /\ DOMAIN lastLed' = DOMAIN lastLed
          /\ \A id \in DOMAIN lastLed : lastLed'[id] = lastLed[id]
      BY <1>4, <2>1, LedNext
    <2>4. ASSUME NEW id \in DOMAIN lastLed
          PROVE  \/ id \in DOMAIN completedFades' /\ completedFades'[id] <= lastLed'[id]
                 \/ lastLed'[id] > FadeRetention
      BY <1>2, <2>2, <2>3, <2>4 DEF FadeInv, LedRemembered
    <2>. QED
      BY <2>3, <2>4 DEF LedRemembered
  <1>5. ASSUME RecordLeads, FinishStart
        PROVE  LedTypeOK' /\ LedRemembered'
    <2>1. lastLed' = EmptyMap
      BY <1>5 DEF RecordLeads, FinishStart, Restarted
    <2>. QED
      BY <2>1, EmptyIsMap DEF LedTypeOK, LedRemembered
  <1>6. ASSUME Tick, AgeLeads
        PROVE  LedTypeOK' /\ LedRemembered'
    <2>1. LedTypeOK'
      BY <1>6, OlderIsMap DEF FadeInv, LedTypeOK, AgeLeads
    <2>2. ASSUME NEW id \in DOMAIN lastLed
          PROVE  \/ id \in DOMAIN completedFades' /\ completedFades'[id] <= lastLed'[id]
                 \/ lastLed'[id] > FadeRetention
      <3>1. lastLed'[id] = Older(lastLed[id])
        BY <1>6 DEF AgeLeads
      <3>2. CASE lastLed[id] > FadeRetention
        BY <3>1, <3>2 DEF Older
      <3>3. CASE id \in DOMAIN completedFades /\ completedFades[id] <= lastLed[id]
        <4>1. /\ id \in DOMAIN completedFades'
              /\ completedFades'[id] = Older(completedFades[id])
          BY <1>6, <3>3 DEF Tick
        <4>. QED
          BY <1>2, <3>1, <3>3, <4>1 DEF Older
      <3>. QED
        BY <3>2, <3>3 DEF FadeInv, LedRemembered
    <2>3. DOMAIN lastLed' = DOMAIN lastLed
      BY <1>6 DEF AgeLeads
    <2>. QED
      BY <2>1, <2>2, <2>3 DEF LedRemembered
  <1>7. ASSUME completedFades' = completedFades, lastLed' = lastLed
        PROVE  LedTypeOK' /\ LedRemembered'
    BY <1>7 DEF FadeInv, LedTypeOK, LedRemembered
  <1>. QED
    BY <1>1, <1>3, <1>4, <1>5, <1>6, <1>7, FadeSteps DEF FadeInv

\* For every retention, however often telemetry repeats a fade and whatever
\* updates bring the contact back in between: no contact leads a second
\* announced group before the retention of its first is over.
THEOREM FadesAnnouncedOnce == HistorySpec => FadeAnnouncedOnce
  <1>1. HistoryInit => FadeInv
    BY TypeInit, EmptyIsMap DEF HistoryInit, FadeInv, LedTypeOK, LedRemembered
  <1>2. ASSUME FadeInv, [HistoryNext]_hvars
        PROVE  [\A id \in NewLeads :
                  id \in DOMAIN lastLed => lastLed[id] > FadeRetention]_hvars
    <2>. SUFFICES ASSUME NEW id \in NewLeads, id \in DOMAIN lastLed
                  PROVE  lastLed[id] > FadeRetention
      OBVIOUS
    <2>1. ASSUME CollectFade
          PROVE  lastLed[id] > FadeRetention
      BY <1>2, <2>1, LeadRecorded DEF FadeInv, LedRemembered
    <2>2. ~CleanFades /\ ~FinishStart
      BY <1>2 DEF CleanFades, FinishStart, fader, NewLeads, FadeInv, TypeOK
    <2>. QED
      BY <1>2, <2>1, <2>2, FadeSteps
  <1>. QED
    BY <1>1, <1>2, FadeStep, PTL DEF HistorySpec, FadeAnnouncedOnce
=============================================================================
