------------------------------- MODULE GoMap -------------------------------
(***************************************************************************)
(* Go maps as partial functions: a map from K to V is a function whose     *)
(* domain is a subset of K.  A missing key is a value outside the domain.  *)
(***************************************************************************)
EXTENDS Functions

\* m is a map with keys in K and values in V.
IsMap(m, K, V) == DOMAIN m \subseteq K /\ m \in [DOMAIN m -> V]

\* make(map[K]V)
EmptyMap == [k \in {} |-> k]

\* m[k] = v
Put(m, k, v) == [x \in DOMAIN m \cup {k} |-> IF x = k THEN v ELSE m[x]]

\* delete(m, k)
Drop(m, k) == Restrict(m, DOMAIN m \ {k})
=============================================================================
