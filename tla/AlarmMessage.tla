---------------------------- MODULE AlarmMessage ----------------------------
(***************************************************************************)
(* The Alarm object of WeaveAlarm.cpp and its accessors, as operators on   *)
(* records.  An alarm is the record of the class's data members; the      *)
(* condition array is a function on 0..kMaxNumAlarmConditions-1, indexed   *)
(* like the C array, including the slots beyond mLength that keep stale   *)
(* bytes.                                                                  *)
(***************************************************************************)
EXTENDS Integers, Sequences

CONSTANT kMaxNumAlarmConditions     \* 8 in WeaveAlarm.h

ASSUME kMaxNumAlarmConditions \in 1..8

Byte == 0..255
Slots == 0..(kMaxNumAlarmConditions - 1)

\* Condition bytes: the source in the high nibble, the state in the low one.
WEAVE_ALARM_SMOKE == 16
WEAVE_ALARM_CO == 48
WEAVE_ALARM_STATE_STANDBY == 0
WEAVE_ALARM_STATE_SELFTEST == 8
WEAVE_ALARM_ANNOUNCE_HEADS_UP_1 == 9
WEAVE_ALARM_ANNOUNCE_HEADS_UP_2 == 10
WEAVE_ALARM_STATE_ALARM_HUSHABLE == 4
WEAVE_ALARM_STATE_ALARM_REMOTE_HUSH == 7
WEAVE_ALARM_STATE_INVALID == 255

\* Alarm::init, run by the constructor.
InitAlarmObj ==
    [ctr |-> 0, len |-> 0, conds |-> [i \in Slots |-> 0], where |-> 0,
     valid |-> FALSE, session |-> 0, sn |-> 0]

\* Alarm::GetAlarmState, GetAlarmCondition: 0 outside the list.
LowNibble(x) == x % 16                   \* x & 0x0f
HighNibble(x) == (x \div 16) * 16        \* x & 0xf0
InList(a, i) == i < a.len /\ i < kMaxNumAlarmConditions
GetAlarmState(a, i) == IF InList(a, i) THEN LowNibble(a.conds[i]) ELSE 0
GetAlarmCondition(a, i) == IF InList(a, i) THEN a.conds[i] - LowNibble(a.conds[i]) ELSE 0

\* Alarm::SetAlarmState: replaces the low nibble of a listed condition.
SetAlarmState(a, i, v) ==
    IF InList(a, i)
    THEN [a EXCEPT !.conds[i] = HighNibble(@) + LowNibble(v)]
    ELSE a

\* Alarm::AddAlarm: appends while there is room, otherwise does nothing.
AddAlarm(a, v) ==
    IF a.len + 1 < kMaxNumAlarmConditions
    THEN [a EXCEPT !.conds[a.len] = v, !.len = @ + 1]
    ELSE a

\* Alarm::KeepReBroadcasting: some condition is in a state other than
\* standby, self-test or an announced heads-up.
KeepReBroadcasting(a) ==
    \E i \in Slots :
        /\ i < a.len
        /\ GetAlarmState(a, i) \notin {WEAVE_ALARM_STATE_STANDBY, WEAVE_ALARM_STATE_SELFTEST,
                                       WEAVE_ALARM_ANNOUNCE_HEADS_UP_1,
                                       WEAVE_ALARM_ANNOUNCE_HEADS_UP_2}

\* Alarm::operator==: same where and the same bytes in every slot of the
\* condition array, listed or not; mLength and the counters are ignored.
AlarmEquals(a, b) == a.where = b.where /\ a.conds = b.conds
=============================================================================
