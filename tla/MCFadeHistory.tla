--------------------------- MODULE MCFadeHistory ---------------------------
(* FadeHistory for TLC, with the objects of MCRadar. *)
EXTENDS FadeHistory

MCLabels == {[id |-> i, name |-> "mobius", coalition |-> "red"] : i \in ID}
=============================================================================
