--------------------------- MODULE MCApplication ---------------------------
(* Application for TLC. *)
EXTENDS Application

MCLimit == [voice |-> 1, chat |-> 1, fade |-> 2, loop |-> 2]
=============================================================================
