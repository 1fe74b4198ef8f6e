------------------------------ MODULE MCRadar ------------------------------
(* Radar for TLC: two objects flown by the same pilot, who left one        *)
(* aircraft and took another, so that they share one entry of the index.   *)
(* Apart from their IDs they are alike.                                    *)
EXTENDS Radar, TLC

MCLabels == {[id |-> i, name |-> "mobius", coalition |-> "red"] : i \in ID}

IDSymmetry == Permutations(ID)

\* Every contact can be looked up by the name and coalition it has: the
\* comment on getByCallsignAndCoalititon promises the closest named
\* trackfile, and nil only if there is none.
EveryContactIndexed ==
    \A id \in DOMAIN contacts :
        contacts[id].labels.name
          \in DOMAIN callsignIdx[contacts[id].labels.coalition]
=============================================================================
