--------------------------- MODULE MCCallHistory ---------------------------
(* CallHistory for TLC.  Contacts of a side are interchangeable. *)
EXTENDS CallHistory, TLC

Symmetry == Permutations(Hostile) \cup Permutations(Friendly)

\* Rounds in which the scope reports no merges: what the THREAT calls do.
ThreatsOnlyNext == HistoryNext /\ listed' = {}
ThreatsOnlySpec == HistoryInit /\ [][ThreatsOnlyNext]_hvars
=============================================================================
