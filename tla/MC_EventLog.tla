------------------------------ MODULE MC_EventLog ------------------------------
EXTENDS EventLog, TLC

MC_Cap == (0 :> 3) @@ (1 :> 3)
MC_CounterStart == [b \in 0..1 |-> 1]
================================================================================
