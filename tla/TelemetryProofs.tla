-------------------------- MODULE TelemetryProofs --------------------------
(***************************************************************************)
(* The telemetry client for every set of objects, either hash and any      *)
(* grace period.                                                           *)
(***************************************************************************)
EXTENDS Telemetry, TLAPS

----------------------------------------------------------------------------
(* The state of the stream *)

\* Adding an object of kind k to the state.
LEMMA PutObject ==
    ASSUME NEW K, IsMap(known, ID, K), NEW id \in ID, NEW k \in K,
           known' = Put(known, id, k)
    PROVE  IsMap(known', ID, K)
BY DEF IsMap, Put

\* Deleting an object from the state.
LEMMA DropObject ==
    ASSUME NEW K, IsMap(known, ID, K), NEW id \in ID,
           known' = Drop(known, id)
    PROVE  IsMap(known', ID, K)
BY DEF IsMap, Drop, Restrict

\* A state of typed objects is a state of objects.
LEMMA TypedObjects ==
    IsMap(known, ID, Kind \ {"untyped"}) => IsMap(known, ID, Kind)
BY DEF IsMap

----------------------------------------------------------------------------
(* Type correctness *)

\* The part of TypeOK about the state of the stream.
KnownTypeOK ==
    /\ IsMap(known, ID, Kind)
    /\ pc \in {"start", "lines", "fade"}
         => IsMap(known, ID, Kind \ {"untyped"})

\* The rest of it.
RestTypeOK ==
    /\ up \in BOOLEAN
    /\ calm \in BOOLEAN
    /\ pc \in Pc
    /\ conn \in Conn
    /\ hashAlgorithm \in Algorithm
    /\ referenceTimeSet \in BOOLEAN
    /\ silence \in 0..(Grace + 1)
    /\ removed \in ID \cup {Nil}
    /\ pc = "fade" => removed \in ID
    /\ start \in BOOLEAN
    /\ fade \in ID \cup {Nil}
    /\ snapshot \in SUBSET ID
    /\ scope \in SUBSET ID
    /\ present \in SUBSET ID
    /\ late \in [ID -> Nat]

\* TypeOK is the two together.
LEMMA TypeParts == TypeOK <=> KnownTypeOK /\ RestTypeOK
BY DEF TypeOK, KnownTypeOK, RestTypeOK

\* Initially every variable has its type.
LEMMA TypeInit == Init => TypeOK
<1> SUFFICES ASSUME Init PROVE KnownTypeOK /\ RestTypeOK
  BY TypeParts
<1>1. KnownTypeOK
  BY DEF Init, KnownTypeOK, IsMap, EmptyMap
<1>2. silence \in 0..(Grace + 1)
  BY TelemetryAssumption DEF Init
<1>3. late \in [ID -> Nat]
  BY DEF Init
<1>4. up \in BOOLEAN
  BY DEF Init
<1>5. RestTypeOK
  BY <1>2, <1>3, <1>4 DEF Init, RestTypeOK, Pc, Conn, Algorithm
<1> QED BY <1>1, <1>5

\* Every step keeps the types of the objects in the state.
LEMMA KnownTypeStep == ASSUME TypeOK, [Next]_vars PROVE KnownTypeOK'
<1>0. KnownTypeOK
  BY TypeParts
<1>1. CASE Reset
  BY <1>1 DEF Reset, KnownTypeOK, IsMap, EmptyMap
<1>2. ASSUME NEW id \in ID, NEW kind \in Kind, UpdateObject(id, kind)
      PROVE  KnownTypeOK'
  <2>1. IsMap(known, ID, Kind \ {"untyped"}) /\ kind \in Kind \ {"untyped"}
    BY <1>0, <1>2 DEF UpdateObject, Reading, KnownTypeOK
  <2>2. IsMap(known', ID, Kind \ {"untyped"})
    BY <1>2, <2>1, PutObject DEF UpdateObject
  <2> QED BY <2>2 DEF KnownTypeOK, IsMap
<1>3. ASSUME NEW id \in ID, UpdateFails(id) PROVE KnownTypeOK'
  <2>1. IsMap(known', ID, Kind)
    <3>1. CASE id \in DOMAIN known
      BY <1>0, <1>3, <3>1 DEF UpdateFails, KnownTypeOK
    <3>2. CASE id \notin DOMAIN known
      BY <1>0, <1>3, <3>2, PutObject DEF UpdateFails, KnownTypeOK, Kind
    <3> QED BY <3>1, <3>2
  <2>2. pc' = "retry"
    BY <1>3 DEF UpdateFails, Fails
  <2> QED BY <2>1, <2>2 DEF KnownTypeOK
<1>4. ASSUME NEW id \in ID, RemoveObject(id) PROVE KnownTypeOK'
  <2>1. IsMap(known, ID, Kind \ {"untyped"})
    BY <1>0, <1>4 DEF RemoveObject, Reading, KnownTypeOK
  <2>2. IsMap(known', ID, Kind \ {"untyped"})
    BY <1>4, <2>1, DropObject DEF RemoveObject
  <2> QED BY <2>2 DEF KnownTypeOK, IsMap
<1>5. CASE /\ known' = known
           /\ \/ pc' \notin {"start", "lines", "fade"}
              \/ pc \in {"start", "lines", "fade"}
  BY <1>0, <1>5 DEF KnownTypeOK
<1>6. \/ Reset
      \/ \E id \in ID : \E kind \in Kind : UpdateObject(id, kind)
      \/ \E id \in ID : UpdateFails(id) \/ RemoveObject(id)
      \/ /\ known' = known
         /\ \/ pc' \notin {"start", "lines", "fade"}
            \/ pc \in {"start", "lines", "fade"}
  BY DEF Next, RunNext, LineNext, SendUpdates, ServerStops, ServerStarts,
         Settle, Tick, Connect, HandshakeFails, Handshake, Retry, SendStart,
         EndOfStream, SendFade, EarlyTimeFrame, BadLine, GlobalUpdate,
         ForwardStart, ForwardFade, CollectUpdates, SendUpdate, Fails,
         session, stream, vars
<1> QED BY <1>1, <1>2, <1>3, <1>4, <1>5, <1>6

\* A step of Run keeps the other types.
LEMMA RunTypeStep == ASSUME TypeOK, RunNext PROVE RestTypeOK'
<1>0. RestTypeOK
  BY TypeParts
<1>1. Other(hashAlgorithm) \in Algorithm
  <2>1. \E a \in Algorithm : a # hashAlgorithm
    BY DEF Algorithm
  <2> QED BY <2>1 DEF Other
<1> USE DEF server, session, stream, delivery, history, Pc, Conn, RestTypeOK
<1>2. CASE Connect \/ Retry \/ EndOfStream
  BY <1>0, <1>2 DEF Connect, Retry, EndOfStream, Fails
<1>3. CASE HandshakeFails \/ Handshake
  BY <1>0, <1>1, <1>3 DEF HandshakeFails, Handshake, Fails
<1>4. CASE Reset \/ SendStart
  BY <1>0, <1>4 DEF Reset, SendStart
<1>5. CASE SendFade
  BY <1>0, <1>5, TelemetryAssumption DEF SendFade
<1> QED BY <1>2, <1>3, <1>4, <1>5 DEF RunNext

\* A line of the stream keeps the other types.
LEMMA LineTypeStep == ASSUME TypeOK, LineNext PROVE RestTypeOK'
<1>0. RestTypeOK
  BY TypeParts
<1> USE DEF server, session, stream, delivery, history, Pc, Conn, RestTypeOK,
            Reading, Fails
<1>z. 0 \in 0..(Grace + 1)
  BY TelemetryAssumption
<1>1. CASE EarlyTimeFrame \/ BadLine
  BY <1>0, <1>1 DEF EarlyTimeFrame, BadLine
<1>4. CASE GlobalUpdate
  BY <1>0, <1>z, <1>4 DEF GlobalUpdate
<1>2. ASSUME NEW id \in ID, NEW kind \in Kind, UpdateObject(id, kind)
      PROVE  RestTypeOK'
  BY <1>0, <1>z, <1>2 DEF UpdateObject
<1>3. ASSUME NEW id \in ID, UpdateFails(id) \/ RemoveObject(id)
      PROVE  RestTypeOK'
  BY <1>0, <1>3 DEF UpdateFails, RemoveObject
<1> QED BY <1>1, <1>2, <1>3, <1>4 DEF LineNext

\* The server, the clock and the goroutines of Stream keep the other types.
LEMMA DeliveryTypeStep ==
    ASSUME TypeOK,
           \/ ServerStops \/ ServerStarts \/ Settle \/ Tick
           \/ ForwardStart \/ ForwardFade \/ SendUpdates
    PROVE  RestTypeOK'
<1>0. KnownTypeOK /\ RestTypeOK
  BY TypeParts
<1> USE DEF server, session, stream, delivery, history, Pc, Conn, RestTypeOK
<1>1. CASE ServerStops \/ ServerStarts \/ Settle
  BY <1>0, <1>1 DEF ServerStops, ServerStarts, Settle
<1>2. CASE Tick
  <2>1. silence' \in 0..(Grace + 1)
    BY <1>0, <1>2, TelemetryAssumption DEF Tick
  <2> QED BY <1>0, <1>2, <2>1 DEF Tick, Fails
<1>3. CASE ForwardStart \/ ForwardFade
  BY <1>0, <1>3 DEF ForwardStart, ForwardFade
<1>4. CASE CollectUpdates
  <2>1. Aircraft \subseteq ID
    BY <1>0 DEF KnownTypeOK, IsMap, Aircraft
  <2> QED BY <1>0, <1>4, <2>1 DEF CollectUpdates
<1>5. ASSUME NEW id \in ID, SendUpdate(id) PROVE RestTypeOK'
  BY <1>0, <1>5 DEF SendUpdate
<1> QED BY <1>1, <1>2, <1>3, <1>4, <1>5 DEF SendUpdates

\* Every step keeps the types.
LEMMA TypeStep == TypeOK /\ [Next]_vars => TypeOK'
<1> SUFFICES ASSUME TypeOK, [Next]_vars PROVE KnownTypeOK' /\ RestTypeOK'
  BY TypeParts DEF TypeOK, KnownTypeOK, RestTypeOK
<1>1. KnownTypeOK'
  BY KnownTypeStep
<1>2. ASSUME UNCHANGED vars PROVE RestTypeOK'
  BY <1>2, TypeParts DEF vars, RestTypeOK
<1>3. RestTypeOK'
  BY <1>2, RunTypeStep, LineTypeStep, DeliveryTypeStep DEF Next
<1> QED BY <1>1, <1>3

\* The telemetry client is well typed, and no object without a type is in its
\* state while it reads lines, whatever lines the sessions before failed on.
THEOREM TypeCorrect == Spec => []TypeOK
BY TypeInit, TypeStep, PTL DEF Spec

----------------------------------------------------------------------------
(* Aircraft that are gone are reported at most once more *)

\* The inductive invariant.
LateInv == TypeOK /\ LateIsLast /\ LateOnce

\* Initially there is nothing to report.
LEMMA LateInit == Init => LateIsLast /\ LateOnce
BY DEF Init, LateIsLast, LateOnce, Aircraft, EmptyMap

\* The state holds the aircraft the stream has.
LEMMA AircraftStep == ASSUME LateInv, [Next]_vars PROVE Aircraft' = present'
<1>0. Aircraft = present /\ KnownTypeOK
  BY TypeParts DEF LateInv, LateIsLast
<1>1. CASE Reset
  BY <1>1 DEF Reset, Aircraft, EmptyMap
<1>2. ASSUME NEW id \in ID, NEW kind \in Kind, UpdateObject(id, kind)
      PROVE  Aircraft' = present'
  <2>1. /\ known' = Put(known, id, kind)
        /\ id \in Aircraft => kind = "aircraft"
    BY <1>2 DEF UpdateObject
  <2>2. CASE kind = "aircraft"
    <3>1. Aircraft' = Aircraft \cup {id}
      BY <2>1, <2>2 DEF Aircraft, Put
    <3> QED BY <1>0, <1>2, <2>2, <3>1 DEF UpdateObject
  <2>3. CASE kind # "aircraft"
    <3>1. Aircraft' = Aircraft
      BY <2>1, <2>3 DEF Aircraft, Put
    <3> QED BY <1>0, <1>2, <2>3, <3>1 DEF UpdateObject, history
  <2> QED BY <2>2, <2>3
<1>3. ASSUME NEW id \in ID, UpdateFails(id) PROVE Aircraft' = present'
  <2>1. Aircraft' = Aircraft
    <3>1. CASE id \in DOMAIN known
      BY <1>3, <3>1 DEF UpdateFails, Aircraft
    <3>2. CASE id \notin DOMAIN known
      <4>1. known' = Put(known, id, "untyped")
        BY <1>3, <3>2 DEF UpdateFails
      <4> QED BY <3>2, <4>1 DEF Aircraft, Put
    <3> QED BY <3>1, <3>2
  <2> QED BY <1>0, <1>3, <2>1 DEF UpdateFails, history
<1>4. ASSUME NEW id \in ID, RemoveObject(id) PROVE Aircraft' = present'
  <2>1. known' = Drop(known, id) /\ present' = present \ {id}
    BY <1>4 DEF RemoveObject
  <2>2. Aircraft' = Aircraft \ {id}
    BY <2>1 DEF Aircraft, Drop, Restrict
  <2> QED BY <1>0, <2>1, <2>2
<1>5. \/ Reset
      \/ \E id \in ID : \E kind \in Kind : UpdateObject(id, kind)
      \/ \E id \in ID : UpdateFails(id) \/ RemoveObject(id)
      \/ known' = known /\ present' = present
  BY DEF Next, RunNext, LineNext, SendUpdates, ServerStops, ServerStarts,
         Settle, Tick, Connect, HandshakeFails, Handshake, Retry, SendStart,
         EndOfStream, SendFade, EarlyTimeFrame, BadLine, GlobalUpdate,
         ForwardStart, ForwardFade, CollectUpdates, SendUpdate,
         stream, history, vars
<1>6. CASE known' = known /\ present' = present
  BY <1>0, <1>6 DEF Aircraft
<1> QED BY <1>1, <1>2, <1>3, <1>4, <1>5, <1>6

\* Only a new snapshot adds to what is to be sent, only a line of the stream
\* adds an aircraft, and only an update that is sent can be late.
LEMMA LateStep ==
    ASSUME LateInv, [Next]_vars PROVE LateIsLast' /\ LateOnce'
<1>0. RestTypeOK /\ LateIsLast /\ LateOnce
  BY TypeParts DEF LateInv
<1>1. Aircraft' = present'
  BY AircraftStep
<1>2. CASE CollectUpdates
  BY <1>0, <1>1, <1>2 DEF CollectUpdates, LateIsLast, LateOnce, history
<1>3. ASSUME NEW id \in ID, SendUpdate(id) PROVE LateIsLast' /\ LateOnce'
  <2>1. /\ snapshot' = snapshot \ {id} /\ id \in snapshot
        /\ present' = present
        /\ late' = IF id \in present THEN late
                   ELSE [late EXCEPT ![id] = @ + 1]
    BY <1>3 DEF SendUpdate
  <2>2. late[id] = 0
    BY <1>0, <2>1 DEF LateIsLast, RestTypeOK
  <2>3. \A x \in ID : late'[x] = IF x = id /\ id \notin present THEN 1
                                 ELSE late[x]
    BY <1>0, <2>1, <2>2 DEF RestTypeOK
  <2> QED BY <1>0, <1>1, <2>1, <2>3 DEF LateIsLast, LateOnce
<1>4. ASSUME NEW id \in ID, NEW kind \in Kind, UpdateObject(id, kind)
      PROVE  LateIsLast' /\ LateOnce'
  <2>1. CASE kind = "aircraft"
    <3>1. /\ present' = present \cup {id} /\ snapshot' = snapshot
          /\ late' = [late EXCEPT ![id] = 0]
      BY <1>4, <2>1 DEF UpdateObject, delivery
    <3>2. \A x \in ID : late'[x] = IF x = id THEN 0 ELSE late[x]
      BY <1>0, <3>1 DEF RestTypeOK
    <3> QED BY <1>0, <1>1, <3>1, <3>2 DEF LateIsLast, LateOnce
  <2>2. CASE kind # "aircraft"
    BY <1>0, <1>1, <1>4, <2>2
    DEF UpdateObject, delivery, history, LateIsLast, LateOnce
  <2> QED BY <2>1, <2>2
<1>5. CASE /\ snapshot' = snapshot /\ late' = late
           /\ present' \subseteq present
  BY <1>0, <1>1, <1>5 DEF LateIsLast, LateOnce
<1>6. \/ CollectUpdates
      \/ \E id \in ID : SendUpdate(id)
      \/ \E id \in ID : \E kind \in Kind : UpdateObject(id, kind)
      \/ /\ snapshot' = snapshot /\ late' = late
         /\ present' \subseteq present
  BY DEF Next, RunNext, LineNext, SendUpdates, ServerStops, ServerStarts,
         Settle, Tick, Connect, HandshakeFails, Handshake, Retry, Reset,
         SendStart, EndOfStream, SendFade, EarlyTimeFrame, BadLine,
         GlobalUpdate, UpdateFails, RemoveObject, ForwardStart, ForwardFade,
         delivery, history, vars
<1> QED BY <1>2, <1>3, <1>4, <1>5, <1>6

\* An aircraft that has left the stream is reported at most once more, for any
\* number of objects and sessions and any delay of the radar.
THEOREM LateOnceCorrect == Spec => []LateOnce
<1>1. Init => LateInv
  BY TypeInit, LateInit DEF LateInv
<1>2. LateInv /\ [Next]_vars => LateInv'
  BY TypeStep, LateStep DEF LateInv
<1> QED BY <1>1, <1>2, PTL DEF Spec, LateInv
=============================================================================
