---------------------------- MODULE CallHistory ----------------------------
(***************************************************************************)
(* Controller with history variables: how long ago each hostile was last   *)
(* the subject of a THREAT call, and what has happened to it since.  An    *)
(* age stops growing at the cooldown, which also stands for "never".       *)
(***************************************************************************)
EXTENDS Controller

VARIABLES
    threatAge,  \* time since the last THREAT call about each hostile
    forgotten,  \* contacts taken out of threatCooldowns since their call
    left        \* contacts that have left the database, or been reset by a
                \* mission restart, since their call

hvars == <<vars, threatAge, forgotten, left>>

ThreatSent == loopPc = "threatSend" /\ loopPc' = "extend"
Called == IF ThreatSent THEN hostiles ELSE {}

\* Contacts a callback takes out of threatCooldowns in this step.
Removed ==
    UNION {LET op == Head(ops[t])
           IN  IF op.tracker = "threatCooldowns" THEN op.ids ELSE {} :
             t \in {x \in Thread : /\ ops[x] # <<>>
                                   /\ ops'[x] = Tail(ops[x])}}

Ticked == callbacks' = callbacks /\ loop' = loop /\ present' = present

HistoryInit ==
    /\ Init
    /\ threatAge = [h \in Hostile |-> ThreatCooldown]
    /\ forgotten = {}
    /\ left = {}

HistoryNext ==
    /\ Next
    /\ threatAge' =
         [h \in Hostile |->
            IF h \in Called THEN 0
            ELSE IF Ticked /\ threatAge[h] < ThreatCooldown
            THEN threatAge[h] + 1 ELSE threatAge[h]]
    /\ forgotten' = (forgotten \ Called) \cup Removed
    /\ left' = (left \ Called) \cup (present \ present')
                 \cup (IF Removed = Contact THEN Contact ELSE {})

HistorySpec == HistoryInit /\ [][HistoryNext]_hvars

\* A THREAT call about a group whose hostiles were all called less than the
\* cooldown ago is only repeated if a callback has taken one of them out of
\* the tracker since: no order of removals and of the cooldowns that are set
\* after the call was sent lets one slip through.
ThreatsSpaced ==
    [][ThreatSent => \E h \in hostiles :
         threatAge[h] >= ThreatCooldown \/ h \in forgotten]_hvars

\* "threatMonitoringCooldown is the interval between threat calls for the same
\* threat": a THREAT call is not repeated before that about hostiles that have
\* all been in the database ever since, in the same mission.
LiveThreatsSpaced ==
    [][ThreatSent => \E h \in hostiles :
         threatAge[h] >= ThreatCooldown \/ h \in left]_hvars
=============================================================================
