----------------------------- MODULE Telemetry -----------------------------
(***************************************************************************)
(* The telemetry client of pkg/telemetry between the Tacview server and    *)
(* the radar.  RealTimeClient.Run connects, shakes hands, reads the ACMI   *)
(* stream line by line and starts over after any error; the stream's       *)
(* objects are kept in streamingClient.state.  The three goroutines of     *)
(* Stream pass mission starts, fades and, from a snapshot taken with every *)
(* tick of a timer, updates on to the radar: over three channels, each at  *)
(* its own pace, every send waiting for its receiver.                      *)
(*                                                                         *)
(* An object is told apart by what collectUpdates does with it: an         *)
(* "aircraft" has all it takes to be reported, an "other" object has not.  *)
(* "untyped" is what applyObjectUpdate leaves in the state when it gives   *)
(* up on a line.  The reference point, the bullseyes and the times in      *)
(* frames are left out.  Of the radar only what it has been told is kept.  *)
(***************************************************************************)
EXTENDS Integers, GoMap

CONSTANTS
    ID,         \* object IDs
    Accepted,   \* the password hashes the server accepts
    Grace,      \* gracePeriod, in periods of the reader's ticker
    Nil         \* no fade in hand

Algorithm == {"CRC64WE", "CRC32ISOHDLC"}

ASSUME TelemetryAssumption ==
    /\ Accepted \subseteq Algorithm
    /\ Accepted # {}
    /\ Grace \in Nat
    /\ Nil \notin ID

VARIABLES
    up,             \* whether the server runs
    calm,           \* whether the server stays up and sends a sound stream
    pc,             \* where Run is
    conn,           \* the connection: "none", "open", "accepted", "refused"
                    \* or "broken"
    hashAlgorithm,
    referenceTimeSet,
    known,          \* state: the objects of the stream
    silence,        \* age of lastUpdateTime
    removed,        \* the object whose fade is being sent to c.fades
    start,          \* whether the starts goroutine has a start in hand
    fade,           \* the fade the fades goroutine has in hand
    snapshot,       \* updates collected and not yet sent
    scope,          \* the contacts the radar has been told of
    present,        \* history: the aircraft the stream has at this point
    late            \* history: updates sent about each object since it left

server == <<up, calm>>
session == <<pc, conn, hashAlgorithm>>
stream == <<referenceTimeSet, known, silence, removed>>
delivery == <<start, fade, snapshot, scope>>
history == <<present, late>>
vars == <<up, calm, pc, conn, hashAlgorithm, referenceTimeSet, known, silence,
          removed, start, fade, snapshot, scope, present, late>>

Kind == {"aircraft", "other", "untyped"}
Pc == {"connect", "handshake", "reset", "start", "lines", "fade", "retry"}
Conn == {"none", "open", "accepted", "refused", "broken"}

\* The objects collectUpdates reports.
Aircraft == {id \in DOMAIN known : known[id] = "aircraft"}

----------------------------------------------------------------------------
(* The server *)

ServerStops ==
    /\ up
    /\ ~calm
    /\ up' = FALSE
    /\ conn' = IF conn = "none" THEN "none" ELSE "broken"
    /\ UNCHANGED <<calm, pc, hashAlgorithm, stream, delivery, history>>

ServerStarts ==
    /\ ~up
    /\ up' = TRUE
    /\ UNCHANGED <<calm, session, stream, delivery, history>>

\* The server becomes reliable, or ceases to be.
Settle ==
    /\ up
    /\ calm' = ~calm
    /\ UNCHANGED <<up, session, stream, delivery, history>>

----------------------------------------------------------------------------
(* RealTimeClient.Run *)

Connect ==
    /\ pc = "connect"
    /\ pc' = IF up THEN "handshake" ELSE "retry"
    /\ conn' = IF up THEN "open" ELSE "none"
    /\ UNCHANGED <<server, hashAlgorithm, stream, delivery, history>>

\* read returns an error: the connection is closed, and Run will retry.
Fails == pc' = "retry" /\ conn' = "none"

Other(algorithm) == CHOOSE a \in Algorithm : a # algorithm

\* The connection ends before the host's handshake has been read, or before
\* the answer, for which the hash has been chosen by then, has been written.
HandshakeFails ==
    /\ pc = "handshake"
    /\ \/ (conn = "broken" \/ ~calm) /\ UNCHANGED hashAlgorithm
       \/ conn = "broken" /\ hashAlgorithm' = Other(hashAlgorithm)
    /\ Fails
    /\ UNCHANGED <<server, stream, delivery, history>>

\* Mutant: the same hash is tried for ever.
HandshakeKeepingHash ==
    /\ pc = "handshake"
    /\ conn = "open"
    /\ conn' = IF hashAlgorithm \in Accepted THEN "accepted" ELSE "refused"
    /\ pc' = "reset"
    /\ UNCHANGED <<server, hashAlgorithm, stream, delivery, history>>

\* The client answers with the hash it did not use the last time.  A server
\* that does not accept it closes the connection.
Handshake ==
    /\ pc = "handshake"
    /\ conn = "open"
    /\ hashAlgorithm' = Other(hashAlgorithm)
    /\ conn' = IF hashAlgorithm' \in Accepted THEN "accepted" ELSE "refused"
    /\ pc' = "reset"
    /\ UNCHANGED <<server, stream, delivery, history>>

Retry ==
    /\ pc = "retry"
    /\ pc' = "connect"
    /\ UNCHANGED <<server, conn, hashAlgorithm, stream, delivery, history>>

----------------------------------------------------------------------------
(* handleLines *)

\* Mutant: the objects of the session before stay in the state.
ResetKeepingState ==
    /\ pc = "reset"
    /\ referenceTimeSet' = FALSE
    /\ pc' = "start"
    /\ present' = {}
    /\ UNCHANGED <<server, conn, hashAlgorithm, known, silence, removed,
                   delivery, late>>

\* reset.  Neither hashAlgorithm nor lastUpdateTime is reset.
Reset ==
    /\ pc = "reset"
    /\ known' = EmptyMap
    /\ referenceTimeSet' = FALSE
    /\ pc' = "start"
    /\ present' = {}
    /\ UNCHANGED <<server, conn, hashAlgorithm, silence, removed, delivery,
                   late>>

\* c.starts <- sim.Started{}
SendStart ==
    /\ pc = "start"
    /\ ~start
    /\ start' = TRUE
    /\ pc' = "lines"
    /\ UNCHANGED <<server, conn, hashAlgorithm, stream, fade, snapshot, scope,
                   history>>

Reading == pc = "lines" /\ conn = "accepted"

\* End of file, or a read error.
EndOfStream ==
    /\ pc = "lines"
    /\ conn \in {"refused", "broken"}
    /\ Fails
    /\ UNCHANGED <<server, hashAlgorithm, stream, delivery, history>>

\* A period of the reader's ticker goes by.  If no object has been updated
\* for too long by then, the session is given up.  A calm server does not let
\* a period go by without an object update.
Tick ==
    /\ calm /\ Reading => silence = 0
    /\ silence' = IF silence > Grace THEN silence ELSE silence + 1
    /\ IF pc = "lines" /\ silence' > Grace THEN Fails
       ELSE UNCHANGED <<pc, conn>>
    /\ UNCHANGED <<server, hashAlgorithm, referenceTimeSet, known, removed,
                   delivery, history>>

\* handleTimeFrame, before the reference time is known.
EarlyTimeFrame ==
    /\ Reading
    /\ ~calm
    /\ ~referenceTimeSet
    /\ Fails
    /\ UNCHANGED <<server, hashAlgorithm, stream, delivery, history>>

\* A line that cannot be parsed.
BadLine ==
    /\ Reading
    /\ ~calm
    /\ Fails
    /\ UNCHANGED <<server, hashAlgorithm, stream, delivery, history>>

\* updateGlobalObject, with a reference time.
GlobalUpdate ==
    /\ Reading
    /\ referenceTimeSet' = TRUE
    /\ silence' = 0
    /\ UNCHANGED <<server, session, known, removed, delivery, history>>

\* applyObjectUpdate.  Properties are added to an object, not taken away.
UpdateObject(id, kind) ==
    /\ Reading
    /\ kind # "untyped"
    /\ id \in Aircraft => kind = "aircraft"
    /\ known' = Put(known, id, kind)
    /\ silence' = 0
    /\ IF kind = "aircraft"
       THEN /\ present' = present \cup {id}
            /\ late' = [late EXCEPT ![id] = 0]
       ELSE UNCHANGED history
    /\ UNCHANGED <<server, session, referenceTimeSet, removed, delivery>>

\* applyObjectUpdate with an error: the first line about an object, or its
\* removal, without a type, or with properties that are not understood.  The
\* object stays in the state.
UpdateFails(id) ==
    /\ Reading
    /\ ~calm
    /\ known' = IF id \in DOMAIN known THEN known
                ELSE Put(known, id, "untyped")
    /\ Fails
    /\ UNCHANGED <<server, hashAlgorithm, referenceTimeSet, silence, removed,
                   delivery, history>>

\* Mutant: the removed object stays in the state.
RemoveFadingOnly(id) ==
    /\ Reading
    /\ id \in DOMAIN known
    /\ removed' = id
    /\ pc' = "fade"
    /\ present' = present \ {id}
    /\ UNCHANGED <<server, conn, hashAlgorithm, referenceTimeSet, known,
                   silence, delivery, late>>

\* applyObjectUpdate with a removal: the object is deleted, and its fade is to
\* be sent.
RemoveObject(id) ==
    /\ Reading
    /\ id \in DOMAIN known
    /\ known' = Drop(known, id)
    /\ removed' = id
    /\ pc' = "fade"
    /\ present' = present \ {id}
    /\ UNCHANGED <<server, conn, hashAlgorithm, referenceTimeSet, silence,
                   delivery, late>>

\* c.fades <- *fade
SendFade ==
    /\ pc = "fade"
    /\ fade = Nil
    /\ fade' = removed
    /\ removed' = Nil
    /\ silence' = 0
    /\ pc' = "lines"
    /\ UNCHANGED <<server, conn, hashAlgorithm, referenceTimeSet, known, start,
                   snapshot, scope, history>>

----------------------------------------------------------------------------
(* Stream *)

\* starts <- start: the radar clears its contacts.
ForwardStart ==
    /\ start
    /\ start' = FALSE
    /\ scope' = {}
    /\ UNCHANGED <<server, session, stream, fade, snapshot, history>>

\* fades <- fade: the radar will delete the contact.
ForwardFade ==
    /\ fade # Nil
    /\ scope' = scope \ {fade}
    /\ fade' = Nil
    /\ UNCHANGED <<server, session, stream, start, snapshot, history>>

\* The ticker: collectUpdates.
CollectUpdates ==
    /\ snapshot = {}
    /\ snapshot' = Aircraft
    /\ UNCHANGED <<server, session, stream, start, fade, scope, history>>

\* Mutant: sending ends with the first update.
SendFirstUpdate(id) ==
    /\ id \in snapshot
    /\ snapshot' = {}
    /\ scope' = scope \cup {id}
    /\ late' = IF id \in present THEN late ELSE [late EXCEPT ![id] = @ + 1]
    /\ UNCHANGED <<server, session, stream, start, fade, present>>

\* updates <- u: the radar creates or updates the contact.
SendUpdate(id) ==
    /\ id \in snapshot
    /\ snapshot' = snapshot \ {id}
    /\ scope' = scope \cup {id}
    /\ late' = IF id \in present THEN late ELSE [late EXCEPT ![id] = @ + 1]
    /\ UNCHANGED <<server, session, stream, start, fade, present>>

----------------------------------------------------------------------------
\* lastUpdateTime is zero: longer ago than any grace period.
Init ==
    /\ up \in BOOLEAN
    /\ calm = FALSE
    /\ pc = "connect"
    /\ conn = "none"
    /\ hashAlgorithm = "CRC64WE"
    /\ referenceTimeSet = FALSE
    /\ known = EmptyMap
    /\ silence = Grace + 1
    /\ removed = Nil
    /\ start = FALSE
    /\ fade = Nil
    /\ snapshot = {}
    /\ scope = {}
    /\ present = {}
    /\ late = [id \in ID |-> 0]

RunNext ==
    \/ Connect \/ HandshakeFails \/ Handshake \/ Retry
    \/ Reset \/ SendStart \/ EndOfStream \/ SendFade

LineNext ==
    \/ EarlyTimeFrame \/ BadLine \/ GlobalUpdate
    \/ \E id \in ID :
         \/ \E kind \in Kind : UpdateObject(id, kind)
         \/ UpdateFails(id) \/ RemoveObject(id)

SendUpdates == CollectUpdates \/ \E id \in ID : SendUpdate(id)

Next ==
    \/ ServerStops \/ ServerStarts \/ Settle \/ Tick
    \/ RunNext \/ LineNext
    \/ ForwardStart \/ ForwardFade \/ SendUpdates

Spec == Init /\ [][Next]_vars

\* The goroutines run, and the radar receives what is sent to it.  Nothing is
\* assumed of the server.
Fairness ==
    /\ WF_vars(RunNext)
    /\ WF_vars(ForwardStart)
    /\ WF_vars(ForwardFade)
    /\ WF_vars(CollectUpdates)
    /\ WF_vars(\E id \in ID : SendUpdate(id))

FairSpec == Spec /\ Fairness

----------------------------------------------------------------------------
\* Every variable has its type, and while lines are read every object in the
\* state has one: what a failed line leaves behind is gone before the next
\* session, where GetTypes would fail on every line about the object.
TypeOK ==
    /\ up \in BOOLEAN
    /\ calm \in BOOLEAN
    /\ pc \in Pc
    /\ conn \in Conn
    /\ hashAlgorithm \in Algorithm
    /\ referenceTimeSet \in BOOLEAN
    /\ IsMap(known, ID, Kind)
    /\ pc \in {"start", "lines", "fade"}
         => IsMap(known, ID, Kind \ {"untyped"})
    /\ silence \in 0..(Grace + 1)
    /\ removed \in ID \cup {Nil}
    /\ pc = "fade" => removed \in ID
    /\ start \in BOOLEAN
    /\ fade \in ID \cup {Nil}
    /\ snapshot \in SUBSET ID
    /\ scope \in SUBSET ID
    /\ present \in SUBSET ID
    /\ late \in [ID -> Nat]

\* An aircraft that has left the stream - it was removed, or its mission is
\* over - is reported to the radar at most once more: what sendUpdates still
\* has in hand is all that outlives it.
LateOnce == \A id \in ID : late[id] <= 1

\* What LateOnce rests on: the state holds what the stream has, and an
\* aircraft reported late is not in what is left of the snapshot.
LateIsLast ==
    /\ Aircraft = present
    /\ \A id \in ID : late[id] > 0 => id \notin snapshot \cup present

\* An aircraft that stays in the stream is on the radar's scope for good in
\* the end, although the start of its mission, and the fade of an earlier
\* object of that ID, may reach the radar after its first updates.
SeesAll ==
    \A id \in ID : <>[](id \in present) => <>[](id \in scope)

\* With a server that is calm from some time on, the client ends up in a
\* session that lasts, whichever of the two hashes the server accepts and
\* whatever state the troubles before have left it in.
Streams == <>[]calm => <>[](conn = "accepted" /\ pc \in {"lines", "fade"})
=============================================================================
