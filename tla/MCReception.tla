---------------------------- MODULE MCReception ----------------------------
(* Reception for TLC. *)
EXTENDS Reception

CONSTANT Known \* the clients the server ever names in its messages

\* The other clients stay strangers, whom coalition audio security shuts out,
\* and the application takes what is decoded before anything else happens: it
\* touches nothing else, so no other order leads to another state of the rest.
\* (A slow application is one that is slow to Decode.)
KnownNext ==
    /\ Next
    /\ \A g \in Client \ Known : g \notin DOMAIN roster'
    /\ decoding # <<>> => Publish

KnownSpec == Init /\ [][KnownNext]_vars /\ Fairness

\* The comment on clientsLock says it controls access to the clients map: the
\* map is never read while the TCP reader writes to it.
RosterRaceFree == ~(rosterWriter /\ voicePc = "lookup")
=============================================================================
