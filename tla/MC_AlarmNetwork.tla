--------------------------- MODULE MC_AlarmNetwork ---------------------------
(* AlarmNetwork for TLC: node ids 1 and 2, standby and alarm-hushable      *)
(* ranked by severity, widths scaled as in MC_AlarmServer.                 *)
EXTENDS AlarmNetwork, TLC

MC_AlarmStates == {0, 4}
MC_SevRank == [s \in MC_AlarmStates |-> s]
====
