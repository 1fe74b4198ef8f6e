----------------------------- MODULE LossyQueue -----------------------------
(***************************************************************************)
(* What the application promises to those who ask for something: the calls *)
(* of one source go out in the order in which it asked for them, each at   *)
(* most once and none that nobody asked for.  Any of them may be lost on   *)
(* the way.  Things asked for are numbered, per source.                    *)
(***************************************************************************)
EXTENDS Integers, Sequences

CONSTANT Source

VARIABLES
    asked,      \* per source, how many things it has asked for
    waiting,    \* per source, those still on their way
    aired       \* per source, what has been said on the radio

Init ==
    /\ asked = [s \in Source |-> 0]
    /\ waiting = [s \in Source |-> {}]
    /\ aired = [s \in Source |-> <<>>]

Ask(s) ==
    /\ asked' = [asked EXCEPT ![s] = @ + 1]
    /\ waiting' = [waiting EXCEPT ![s] = @ \cup {[src |-> s, n |-> asked[s] + 1]}]
    /\ UNCHANGED aired

Lose ==
    /\ \A s \in Source : waiting'[s] \subseteq waiting[s]
    /\ UNCHANGED <<asked, aired>>

\* m is what its source has waited for longest.
Say(s, m) ==
    /\ \A o \in waiting[s] \ {m} : m.n < o.n
    /\ waiting' = [waiting EXCEPT ![s] = @ \ {m}]
    /\ aired' = [aired EXCEPT ![s] = Append(@, m)]
    /\ UNCHANGED asked

Next ==
    \/ Lose
    \/ \E s \in Source : Ask(s)
    \/ \E s \in Source : \E m \in waiting[s] : Say(s, m)

Spec == Init /\ [][Next]_<<asked, waiting, aired>>
=============================================================================
