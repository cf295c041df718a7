---------------------------- MODULE MC_AlarmCodec ----------------------------
(* The codec of the alarm message together with the severity order the     *)
(* receiving server's delegate applies to the alarms it parses.            *)
EXTENDS AlarmCodec, AlarmSeverity

(* CompareSeverity, called by CloseLessSevereAlarmClient on an alarm       *)
(* DispatchAlarmMessage parsed, agrees with the reference order on every  *)
(* alarm the application builds, and on the parsed alarm against the one  *)
(* it was packed from.                                                     *)
ReceivedSeverityAgrees ==
    AgreesOnSameLayout /\ AgreeOn(rx, packed) /\ AgreeOn(packed, rx)
====
