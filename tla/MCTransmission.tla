--------------------------- MODULE MCTransmission ---------------------------
(***************************************************************************)
(* Two transmissions of up to two frames, on two frequencies.     *)
(***************************************************************************)
EXTENDS Transmission

MCGUID == [i \in 1..GUIDLength |-> i]
MCFrequencies == <<[bits |-> [i \in 1..8 |-> 100 + i], modulation |-> 1, encryption |-> 0],
                   [bits |-> [i \in 1..8 |-> 200 + i], modulation |-> 0, encryption |-> 0]>>
MCSpeech == {<<<<11, 12, 13>>, <<>>>>, <<<<14>>>>}
=============================================================================
