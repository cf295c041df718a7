---------------------------- MODULE AlarmSeverity ----------------------------
(***************************************************************************)
(* MockAlarmOriginator::CompareSeverity, the AlarmDelegate the test        *)
(* application gives WeaveAlarmServer for eviction under pool pressure, as *)
(* a recursive operator over the Alarm records of AlarmMessage, compared   *)
(* with a reference order on every alarm the application can build        *)
(* condition by condition with AddAlarm.                                   *)
(***************************************************************************)
EXTENDS AlarmMessage, Integers, FiniteSets

CONSTANT SeverityConds  \* condition bytes the alarms are built from

\* The result codes and the two rows of resultTable.
kResultAlarm1 == 1
kResultTie == 0
kResultAlarm2 == -1
Sources == {WEAVE_ALARM_SMOKE, WEAVE_ALARM_CO}
InitTable == [s \in Sources |-> [st |-> WEAVE_ALARM_STATE_INVALID, res |-> kResultTie]]

\* The first loop: the state of each recognised source of aAlarm1, the
\* last listed one winning; other sources are ignored.
RECURSIVE ScanAlarm1(_, _, _)
ScanAlarm1(x, i, t) ==
    IF i >= x.len THEN t
    ELSE LET src == GetAlarmCondition(x, i)
         IN  ScanAlarm1(x, i + 1,
                        IF src \in Sources
                        THEN [t EXCEPT ![src].st = GetAlarmState(x, i)] ELSE t)

\* Mutant: the lower state wins.
SourceResult_Reversed(state1, state2) ==
    IF state1 < state2 THEN kResultAlarm1
    ELSE IF state1 = state2 THEN kResultTie ELSE kResultAlarm2

\* Both alarms have the source: the higher state wins.
SourceResult(state1, state2) ==
    IF state1 > state2 THEN kResultAlarm1
    ELSE IF state1 = state2 THEN kResultTie ELSE kResultAlarm2

\* The second loop runs over the entries of aAlarm2 but switches on
\* aAlarm1.GetAlarmCondition(i), 0 beyond aAlarm1's length; the state
\* compared is aAlarm2's.
RECURSIVE ScanAlarm2(_, _, _, _)
ScanAlarm2(x, y, i, t) ==
    IF i >= y.len THEN t
    ELSE LET src == GetAlarmCondition(x, i)
             st2 == GetAlarmState(y, i)
             t2  == IF src \notin Sources THEN t
                    ELSE IF t[src].st = WEAVE_ALARM_STATE_INVALID
                    THEN [t EXCEPT ![src] = [st |-> st2, res |-> kResultAlarm2]]
                    ELSE [t EXCEPT ![src].res = SourceResult(t[src].st, st2)]
         IN  ScanAlarm2(x, y, i + 1, t2)

\* CompareSeverity(aAlarm1, aAlarm2): smoke decides unless it is a tie.
CompareSeverity(x, y) ==
    LET t == ScanAlarm2(x, y, 0, ScanAlarm1(x, 0, InitTable))
    IN  IF t[WEAVE_ALARM_SMOKE].res # kResultTie THEN t[WEAVE_ALARM_SMOKE].res
        ELSE t[WEAVE_ALARM_CO].res

\* The alarms MockAlarmOriginator::Init builds with k calls of AddAlarm on
\* a fresh Alarm (calls beyond the capacity included).
RECURSIVE Built(_)
Built(k) ==
    IF k = 0 THEN {InitAlarmObj}
    ELSE Built(k - 1) \cup {AddAlarm(a, v) : a \in Built(k - 1), v \in SeverityConds}
BuildableAlarms == Built(kMaxNumAlarmConditions)
-----------------------------------------------------------------------------
\* The reference order the comments of CompareSeverity describe: per
\* source, an alarm lacking it loses to one having it, otherwise the higher
\* state wins; smoke takes precedence over CO.
SourceState(x, src) ==
    LET idx == {i \in Slots : i < x.len /\ GetAlarmCondition(x, i) = src}
    IN  IF idx = {} THEN WEAVE_ALARM_STATE_INVALID
        ELSE GetAlarmState(x, CHOOSE i \in idx : \A j \in idx : j <= i)
RefSourceOrder(x, y, src) ==
    LET s1 == SourceState(x, src)
        s2 == SourceState(y, src)
    IN  IF s1 = s2 THEN kResultTie
        ELSE IF s1 = WEAVE_ALARM_STATE_INVALID THEN kResultAlarm2
        ELSE IF s2 = WEAVE_ALARM_STATE_INVALID THEN kResultAlarm1
        ELSE IF s1 > s2 THEN kResultAlarm1 ELSE kResultAlarm2
RefSeverity(x, y) ==
    IF RefSourceOrder(x, y, WEAVE_ALARM_SMOKE) # kResultTie
    THEN RefSourceOrder(x, y, WEAVE_ALARM_SMOKE)
    ELSE RefSourceOrder(x, y, WEAVE_ALARM_CO)

\* Two alarms list the same sources in the same order, as every device
\* running MockAlarmOriginator builds its alarm.
SameLayout(x, y) ==
    x.len = y.len /\ \A i \in Slots : GetAlarmCondition(x, i) = GetAlarmCondition(y, i)

\* CompareSeverity(x, y) agrees with the reference order when x and y have
\* the same layout.
AgreeOn(x, y) == SameLayout(x, y) => CompareSeverity(x, y) = RefSeverity(x, y)

(* CompareSeverity agrees with the smoke-first reference order on the      *)
(* alarms the application builds that have the same layout, also when a    *)
(* source is listed twice.                                                 *)
AgreesOnSameLayout == \A x, y \in BuildableAlarms : AgreeOn(x, y)

(* Spec 6 (compare_severity is a total order over alarms), which the       *)
(* two-pass eviction of CloseLessSevereAlarmClient relies on: swapping the *)
(* arguments negates the result, and "at least as severe" is transitive.   *)
SeverityTotalOrder ==
    \A x, y, z \in BuildableAlarms :
        LET cmp(p, q) == CompareSeverity(p, q)
        IN  /\ cmp(x, y) = -cmp(y, x)
            /\ (cmp(x, y) >= 0 /\ cmp(y, z) >= 0) => cmp(x, z) >= 0
=============================================================================
