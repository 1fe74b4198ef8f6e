------------------------------- MODULE Loops -------------------------------
(***************************************************************************)
(* A loop over a sequence, as a function of what its body does: step[v][e] *)
(* is what it makes of the value v and the element e.  Turns has the value *)
(* after each number of turns.                                             *)
(***************************************************************************)
EXTENDS Integers, Sequences

Turns(step, base, seq) ==
    LET after[i \in 0 .. Len(seq)] ==
          IF i = 0 THEN base ELSE step[after[i - 1]][seq[i]]
    IN  after

Loop(step, base, seq) == Turns(step, base, seq)[Len(seq)]
=============================================================================
