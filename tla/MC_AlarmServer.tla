---------------------------- MODULE MC_AlarmServer ----------------------------
(* Instances of AlarmServer for TLC.  Widths are scaled down together:     *)
(* a 3-bit sequence number with a 2-bit counter keeps the code's relation  *)
(* between the two (the counter is the low bits, a wrap of the counter     *)
(* skips 0, a wrap of the sequence number renews the session).             *)
EXTENDS AlarmServer, TLC

MC_Self == 1
MC_Remotes == {2, 3}
\* Standby and alarm-hushable, ranked by severity.
MC_AlarmStates == {0, 4}
MC_SevRank == [s \in MC_AlarmStates |-> s]
\* The alarms the remote-pool runs deliver: v2 alarms of both remote
\* originators, v1 alarms of one of them, one echo of this node's own
\* alarm, a payload parse rejects and one on the wrong interface.
MC_RemoteMsgs ==
    {m \in AllMsgs :
        \/ m.ver = "v2" /\ m.src \in MC_Remotes
        \/ m.ver = "v2" /\ m.src = MC_Self /\ m.sn = 1 /\ m.cond = 0
        \/ m.ver = "v1" /\ m.src = 2
        \/ m.ver = "bad"
        \/ ~m.onIf}

\* No remote traffic.
MC_NoMsgs == {}

\* Session ids are compared only for equality, and the RNG may return any.
SessionSymmetry == Permutations(Sessions)
====
