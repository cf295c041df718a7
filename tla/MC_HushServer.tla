--------------------------- MODULE MC_HushServer ---------------------------
(* Model values and message sets for checking HushServer with TLC.         *)
EXTENDS HushServer

CONSTANTS r1, r2, peer, deadbeef, otherProx, key1, otherKey

MC_Remotes == {r1, r2}
MC_ProxCodes == {deadbeef, otherProx}
MC_HushKeys == {key1, otherKey}

\* Peer sends a request signed with another key over the right proximity
\* code, a request too short to parse, and a message of another type.
MC_PeerMsgs ==
    {[kind |-> "HushRequest", src |-> peer, prox |-> deadbeef, key |-> otherKey, whole |-> TRUE],
     [kind |-> "HushRequest", src |-> peer, prox |-> deadbeef, key |-> key1, whole |-> FALSE],
     [kind |-> "AlarmUpdate", src |-> peer, prox |-> deadbeef, key |-> key1, whole |-> TRUE]}
====
