----------------------------- MODULE AlarmCodec -----------------------------
(***************************************************************************)
(* The alarm message codec: Alarm::pack and Alarm::parse over byte         *)
(* sequences, with the application building the alarm (AddAlarm,          *)
(* SetAlarmState), SendAlarm stamping it with the session fields, and the  *)
(* receiver parsing a prefix of the packet: the whole of it, the v1 part a *)
(* legacy node sends, or a truncated one.                                  *)
(***************************************************************************)
EXTENDS AlarmMessage, Integers, Sequences

CONSTANTS CondValues,   \* condition bytes the application adds
          StateValues,  \* alarm states it sets (the hush handler's 7)
          SessionIds,   \* session ids GetSecureRandomData produces
          SeqNums,      \* event sequence numbers SendAlarm reaches
          BufSizes      \* AvailableDataLength of a fresh packet buffer

\* TLC's integers stop at 2^31 - 1, so the 32-bit values drawn here keep
\* their top bit clear; every one of their four bytes is still exercised.
MaxUint31 == 2147483647
ASSUME /\ CondValues \subseteq Byte /\ StateValues \subseteq 0..15
       /\ SessionIds \subseteq 0..MaxUint31 /\ SeqNums \subseteq 0..MaxUint31

VARIABLES tx,        \* the alarm the application builds and SendAlarm packs
          added,     \* AddAlarm calls on tx since it was constructed
          pkt,       \* the bytes of the last packet packed
          packed,    \* the alarm pkt was packed from
          rxLen,     \* how many bytes of pkt the receiver got
          rx,        \* the parsedAlarm of DispatchAlarmMessage
          parseErr   \* what Alarm::parse returned

vars == <<tx, added, pkt, packed, rxLen, rx, parseErr>>

\* Sizes from WeaveAlarm.h.
kPayloadSizeWithoutConditions_V1 == 3
kPayloadSizeWithoutConditions_V2 == kPayloadSizeWithoutConditions_V1 + 8

\* Mutant: the 32-bit fields read most significant byte first.
ReadBE32(s, at) == 16777216 * s[at] + 65536 * s[at + 1] + 256 * s[at + 2] + s[at + 3]

\* LittleEndian::Write32 and Read32 on a byte sequence.
LE32(x) == [k \in 1..4 |-> (x \div 2^(8 * (k - 1))) % 256]
ReadLE32(s, at) == s[at] + 256 * s[at + 1] + 65536 * s[at + 2] + 16777216 * s[at + 3]

\* Alarm::pack into a buffer of avail bytes.
Pack(a, avail) ==
    IF avail < kPayloadSizeWithoutConditions_V2 + a.len THEN [err |-> "BUFFER_TOO_SMALL"]
    ELSE IF ~a.valid THEN [err |-> "INCORRECT_STATE"]
    ELSE IF a.len > kMaxNumAlarmConditions THEN [err |-> "INCORRECT_STATE"]
    ELSE [err |-> "ok",
          bytes |-> <<a.ctr, a.len>> \o [k \in 1..a.len |-> a.conds[k - 1]]
                    \o <<a.where>> \o LE32(a.session) \o LE32(a.sn)]

(* Alarm::parse of bytes s into the alarm r: the checks in the code's      *)
(* order, each field written as soon as it is read; the v2 tail is read   *)
(* only when the bytes are long enough, and a counter that differs from    *)
(* the low byte of the sequence number is only logged.                     *)
Parse(s, r) ==
    LET n  == s[2]
        r1 == [r EXCEPT !.ctr = s[1]]
        r2 == [r1 EXCEPT !.len = n, !.where = s[kPayloadSizeWithoutConditions_V1 + n],
                         !.conds = [i \in Slots |-> IF i < n THEN s[3 + i] ELSE @[i]]]
        at == kPayloadSizeWithoutConditions_V1 + n + 1
    IN  IF Len(s) < kPayloadSizeWithoutConditions_V1
        THEN [err |-> "MESSAGE_INCOMPLETE", res |-> r]
        ELSE IF Len(s) < kPayloadSizeWithoutConditions_V1 + n
        THEN [err |-> "MESSAGE_INCOMPLETE", res |-> r1]
        ELSE IF n > kMaxNumAlarmConditions
        THEN [err |-> "INVALID_MESSAGE_LENGTH", res |-> r1]
        ELSE IF Len(s) < kPayloadSizeWithoutConditions_V2 + n
        THEN [err |-> "ok", res |-> r2]
        ELSE [err |-> "ok", res |-> [r2 EXCEPT !.session = ReadLE32(s, at),
                                              !.sn = ReadLE32(s, at + 4), !.valid = TRUE]]

Init ==
    /\ tx = InitAlarmObj /\ added = 0
    /\ pkt = <<>> /\ packed = InitAlarmObj
    /\ rxLen = 0 /\ rx = InitAlarmObj /\ parseErr = "none"

\* The application adds a condition (MockAlarmOriginator::Init); one call
\* beyond the capacity is allowed.
AppAddAlarm(v) ==
    /\ added <= kMaxNumAlarmConditions
    /\ tx' = AddAlarm(tx, v) /\ added' = added + 1
    /\ UNCHANGED <<pkt, packed, rxLen, rx, parseErr>>

\* The hush handler sets the state of a listed condition.
AppSetAlarmState(i, v) ==
    /\ tx' = SetAlarmState(tx, i, v)
    /\ UNCHANGED <<added, pkt, packed, rxLen, rx, parseErr>>

\* The application starts over with a new Alarm object.
AppNewAlarm ==
    /\ tx' = InitAlarmObj /\ added' = 0
    /\ UNCHANGED <<pkt, packed, rxLen, rx, parseErr>>

\* SendAlarm: the payload is copied, stamped with the session fields and
\* the counter, and packed into a fresh buffer (pack's error is ignored).
StampSession(a, s, n) == [a EXCEPT !.valid = TRUE, !.session = s, !.sn = n, !.ctr = n % 256]
SendPack(s, n, avail) ==
    LET a == StampSession(tx, s, n)
        p == Pack(a, avail)
    IN  /\ pkt' = IF p.err = "ok" THEN p.bytes ELSE <<>>
        /\ packed' = a
        /\ rxLen' = 0 /\ rx' = InitAlarmObj /\ parseErr' = "none"
        /\ UNCHANGED <<tx, added>>

\* DispatchAlarmMessage parses the first k bytes of the packet into a
\* freshly constructed Alarm.
Receive(k) ==
    LET p == Parse(SubSeq(pkt, 1, k), InitAlarmObj)
    IN  /\ rxLen' = k /\ rx' = p.res /\ parseErr' = p.err
        /\ UNCHANGED <<tx, added, pkt, packed>>

Next ==
    \/ \E v \in CondValues : AppAddAlarm(v)
    \/ \E i \in Slots, v \in StateValues : AppSetAlarmState(i, v)
    \/ AppNewAlarm
    \/ \E s \in SessionIds, n \in SeqNums, b \in BufSizes : SendPack(s, n, b)
    \/ \E k \in 0..Len(pkt) : Receive(k)

Spec == Init /\ [][Next]_vars
-----------------------------------------------------------------------------
AlarmObj == [ctr : Byte, len : Byte, conds : [Slots -> Byte], where : Byte,
             valid : BOOLEAN, session : Nat, sn : Nat]

TypeOK ==
    /\ tx \in AlarmObj /\ packed \in AlarmObj /\ rx \in AlarmObj
    /\ added \in 0..(kMaxNumAlarmConditions + 1)
    /\ pkt \in Seq(Byte) /\ rxLen \in 0..Len(pkt)
    /\ parseErr \in {"none", "ok", "MESSAGE_INCOMPLETE", "INVALID_MESSAGE_LENGTH"}

\* The fields the v1 part of the wire format carries.
V1Fields(a) == <<a.ctr, a.len, [i \in 0..(a.len - 1) |-> a.conds[i]], a.where>>

(* P1 and P2 (Alarm::pack, Alarm::parse): parsing a prefix of a packed     *)
(* alarm fails exactly when the prefix is shorter than the v1 part; when   *)
(* it succeeds, it gives back the counter, the conditions and the where    *)
(* of the packed alarm, and the session id and sequence number with        *)
(* validity set exactly when the whole packet was received.                *)
ParseOfPrefix ==
    parseErr # "none" =>
        /\ (parseErr = "ok") <=> (rxLen >= kPayloadSizeWithoutConditions_V1 + packed.len)
        /\ parseErr = "ok" =>
             /\ V1Fields(rx) = V1Fields(packed)
             /\ rx.valid = (rxLen = Len(pkt))
             /\ rx.valid => rx.session = packed.session /\ rx.sn = packed.sn
=============================================================================
