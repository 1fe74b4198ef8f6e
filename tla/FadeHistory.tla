---------------------------- MODULE FadeHistory ----------------------------
(***************************************************************************)
(* Radar with a history variable for what its state does not remember:     *)
(* how long ago a contact last led an announced group.                     *)
(***************************************************************************)
EXTENDS Radar

VARIABLE
    lastLed \* how long ago each ID last led a group, since the last restart

hvars == <<vars, lastLed>>

\* The group this step adds to the batch, if it adds one.
NewLeads == {id \in ID : /\ Len(groups') > Len(groups)
                         /\ groups'[Len(groups')].lead = id}

Restarted == starter = "reset" /\ starter' = "idle"

HistoryInit == Init /\ lastLed = EmptyMap

RecordLeads ==
    lastLed' = IF Restarted THEN EmptyMap
               ELSE [id \in DOMAIN lastLed \cup NewLeads |->
                       IF id \in NewLeads THEN 0 ELSE lastLed[id]]

AgeLeads == lastLed' = [id \in DOMAIN lastLed |-> Older(lastLed[id])]

HistoryNext ==
    \/ Activity /\ RecordLeads
    \/ Tick /\ AgeLeads

HistorySpec == HistoryInit /\ [][HistoryNext]_hvars

FairHistorySpec == HistorySpec /\ Fairness

\* A contact leads at most one announced group in any window of
\* FadeRetention, however often telemetry repeats its fade and however
\* updates bring it back in between (completedFades).
FadeAnnouncedOnce ==
    [][\A id \in NewLeads :
         id \in DOMAIN lastLed => lastLed[id] > FadeRetention]_hvars

=============================================================================
