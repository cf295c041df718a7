------------------------------ MODULE AlarmServer ------------------------------
(***************************************************************************)
(* The alarm session engine of one Weave node (WeaveAlarm.cpp): the       *)
(* WeaveAlarmServer with its fixed pool mClientPool of WeaveAlarmClient    *)
(* objects, the dispatcher of incoming alarm messages, the client state    *)
(* machine Closed / Active / GracePeriod / Linger with its timers, and the *)
(* local send path with its session id and extended event sequence number. *)
(*                                                                         *)
(* The exchange layer (trickle retransmission, exchange contexts) and the  *)
(* system layer (timers, secure RNG, packet buffers) are not in the        *)
(* repository; they appear as flags (trickle armed, timers armed) and as   *)
(* nondeterministic success or failure of each call the code makes.        *)
(***************************************************************************)
EXTENDS Integers, FiniteSetsExt

CONSTANTS
    Clients,        \* indices 1..MAX_CONCURRENT_ALERTS of mClientPool
    Self,           \* FabricState->LocalNodeId (a node id, > 0)
    Remotes,        \* node ids of the other originators (> 0)
    Sessions,       \* session ids GetSecureRandomData may return
    NoSession,      \* mSessionId 0, the id of no session
    AlarmStates,    \* alarm condition states a payload may carry
    SevRank,        \* the delegate's CompareSeverity, as a rank per state
    SnBits,         \* width of mExtEvtSeqNum (32 in the code)
    CtrBits,        \* width of mAlarmCtr (8 in the code)
    RemoteSn,       \* ext_evt_sn values other originators send
    MaxLocal,       \* number of local clients the application keeps open
    RefreshMsec,    \* mAlarmRefreshPeriodMsec
    GraceMsec,      \* mAlarmGracePeriodMsec
    MaxHops,        \* WEAVE_ALARM_MAX_NUM_HOPS
    Faults          \* calls that may fail: "buf", "ctx", "rng", "send", "timer"

ASSUME /\ Clients = 1..Cardinality(Clients)
       /\ Self \notin Remotes /\ Self > 0 /\ \A n \in Remotes : n > 0
       /\ NoSession \notin Sessions /\ 0 \in AlarmStates
       /\ SevRank \in [AlarmStates -> Nat]
       /\ CtrBits < SnBits
       /\ Faults \subseteq {"buf", "ctx", "rng", "send", "timer"}

VARIABLES
    pool,       \* mClientPool: one record per WeaveAlarmClient
    lastSent,   \* per client: the last alarm it sent, and whether a new
                \* session epoch began before that send (history)
    parseDrop,  \* of the step just taken: "silent" or "reported" when it
                \* dropped a message Alarm::parse rejected, else "none"
    evicted,    \* of the step just taken: the client CloseLessSevereAlarm-
                \* Client closed and the alarm it was closed for (history)
    up          \* ExchangeMgr # NULL: the server is initialised, its alarm
                \* message handler registered

vars == <<pool, lastSent, parseDrop, evicted, up>>

-----------------------------------------------------------------------------
(* Integer widths and the constants derived from them.                     *)

SnMod == 2 ^ SnBits
UINT32_MAX == SnMod - 1            \* largest mExtEvtSeqNum
CtrMod == 2 ^ CtrBits
UINT8_MAX == CtrMod - 1            \* largest mAlarmCtr
FORWARD_COUNTER_DISTANCE_LIMIT == UINT8_MAX \div 2
GetLeastSignificantByte(x) == x % CtrMod

NoNode == 0                        \* GetOriginator() when mEc is NULL
NoClient == 0
RngFailed == "RngFailed"           \* GetSecureRandomData returned an error

\* The outcomes a call of kind f may have.
Outcome(f) == IF f \in Faults THEN BOOLEAN ELSE {TRUE}
\* NewPacketBuffer and SendMessage of a relay fail alike in HandleAlarm.
RelayOutcome == IF {"buf", "send"} \cap Faults # {} THEN BOOLEAN ELSE {TRUE}
RngOutcome == Sessions \cup (IF "rng" \in Faults THEN {RngFailed} ELSE {})

(* An Alarm keeps its counter, session id, sequence number and validity;   *)
(* its conditions are abstracted to one alarm state.                       *)
Alarm == [valid : BOOLEAN, session : Sessions \cup {NoSession},
          sn : 0..UINT32_MAX, ctr : 0..UINT8_MAX, cond : AlarmStates]

\* Alarm::init
InitAlarm == [valid |-> FALSE, session |-> NoSession, sn |-> 0, ctr |-> 0, cond |-> 0]

\* Alarm::KeepReBroadcasting: a state other than standby, selftest and the
\* two heads-up announcements keeps a local alarm rebroadcasting.
KeepReBroadcasting(a) == a.cond \notin {0, 8, 9, 10}

\* The delegate's CompareSeverity(a1, a2) < 0, = 0.
LessSevere(a1, a2) == SevRank[a1.cond] < SevRank[a2.cond]
SameSeverity(a1, a2) == SevRank[a1.cond] = SevRank[a2.cond]

(* Alarm messages on the wire.  "bad" is a payload Alarm::parse rejects;   *)
(* onIf is FALSE for a packet that arrived on another interface than       *)
(* mInterfaceId.                                                           *)
V2Msgs == [src : Remotes \cup {Self}, ver : {"v2"}, session : Sessions,
           sn : RemoteSn, ctr : {0}, cond : AlarmStates, onIf : {TRUE}]
V1Msgs == [src : Remotes, ver : {"v1"}, session : {NoSession}, sn : {0},
           ctr : 0..UINT8_MAX, cond : AlarmStates, onIf : {TRUE}]
BadMsg == [src |-> CHOOSE n \in Remotes : TRUE, ver |-> "bad", session |-> NoSession,
           sn |-> 0, ctr |-> 0, cond |-> 0, onIf |-> TRUE]
NoMsg == [BadMsg EXCEPT !.ver = "none"]
\* Every message; a v2 sender sets the counter to the low byte of the
\* sequence number.
AllMsgs == {[m EXCEPT !.ctr = GetLeastSignificantByte(m.sn)] : m \in V2Msgs}
        \cup V1Msgs \cup {BadMsg, [BadMsg EXCEPT !.ver = "v1", !.onIf = FALSE]}

\* The messages the network delivers to this node.
Msgs == AllMsgs

\* Alarm::parse of a well-formed message (v1 leaves the session invalid).
AlarmOf(m) == [valid |-> m.ver = "v2", session |-> m.session, sn |-> m.sn,
               ctr |-> m.ctr, cond |-> m.cond]

\* The message Alarm::pack writes for a local alarm.
MsgOf(a) == [src |-> Self, ver |-> "v2", session |-> a.session, sn |-> a.sn,
             ctr |-> a.ctr, cond |-> a.cond, onIf |-> TRUE]

(* A WeaveAlarmClient: mClientState, mIsLocalAlarm, the originator of its  *)
(* exchange context (NoNode when mEc is NULL), mCurrentAlarm, whether the  *)
(* exchange's trickle retransmission is armed, which of the grace and      *)
(* linger timers are armed, and the ghost flag fresh: a new session epoch  *)
(* began (RegenerateSessionId succeeded) since the client last sent.       *)
ClientStates == {"Closed", "Active", "GracePeriod", "Linger"}
Client == [st : ClientStates, local : BOOLEAN, orig : {NoNode, Self} \cup Remotes,
           cur : Alarm, trickle : BOOLEAN, timers : SUBSET {"grace", "linger"},
           fresh : BOOLEAN]

\* WeaveAlarmClient::initAlarmClient
InitClient == [st |-> "Closed", local |-> FALSE, orig |-> NoNode, cur |-> InitAlarm,
               trickle |-> FALSE, timers |-> {}, fresh |-> FALSE]

NoSent == [msg |-> NoMsg, newEpoch |-> FALSE]
-----------------------------------------------------------------------------
(* Session id and sequence number (WeaveAlarmClient).                     *)

\* RegenerateSessionId: on RNG failure the session is marked invalid.
RegenerateSessionId(cl, r) ==
    IF r = RngFailed
    THEN [cl EXCEPT !.cur.valid = FALSE, !.cur.session = NoSession]
    ELSE [cl EXCEPT !.cur.valid = TRUE, !.cur.session = r, !.cur.sn = 0,
                    !.cur.ctr = 0, !.fresh = TRUE]

\* Mutant: the alignment computed without 32-bit wrap-around.
Next256AlignedEvtSn_NoWrap(sn) == ((sn + UINT8_MAX) \div CtrMod) * CtrMod

\* ((sn + UINT8_MAX) >> 8) << 8, computed in 32-bit arithmetic.
Next256AlignedEvtSn(sn) == (((sn + UINT8_MAX) % SnMod) \div CtrMod) * CtrMod

\* Mutant: the aligned number taken even when it is not larger.
TryAdvanceExtEvtSeqNum_NoCheck(cl, r) ==
    IF cl.cur.valid
    THEN [cl EXCEPT !.cur.sn = Next256AlignedEvtSn(cl.cur.sn),
                    !.cur.ctr = GetLeastSignificantByte(Next256AlignedEvtSn(cl.cur.sn))]
    ELSE RegenerateSessionId(cl, r)

\* TryAdvanceExtEvtSeqNum: the next 256-aligned number if it is larger,
\* otherwise a new session.
TryAdvanceExtEvtSeqNum(cl, r) ==
    LET next == Next256AlignedEvtSn(cl.cur.sn)
    IN  IF cl.cur.valid /\ next > cl.cur.sn
        THEN [cl EXCEPT !.cur.sn = next, !.cur.ctr = GetLeastSignificantByte(next)]
        ELSE RegenerateSessionId(cl, r)

-----------------------------------------------------------------------------
(* Client state transitions.  CancelAllTimersExceptForTrickle empties      *)
(* timers; closing the exchange context or CancelRetrans disarms trickle.  *)

\* SetClientState_Closed: also clears mIsLocalAlarm and closes mEc.
SetClientState_Closed(cl) ==
    [cl EXCEPT !.st = "Closed", !.timers = {}, !.local = FALSE,
               !.orig = NoNode, !.trickle = FALSE]

\* Mutant: Active without CancelAllTimersExceptForTrickle.
SetClientState_Active_KeepTimers(cl) == [cl EXCEPT !.st = "Active"]

\* SetClientState_Active: legal from every state.
SetClientState_Active(cl) == [cl EXCEPT !.st = "Active", !.timers = {}]

\* Mutant: GracePeriod entered without starting the grace timer.
SetClientState_GracePeriod_NoTimer(cl, timerOk) ==
    IF cl.local THEN cl
    ELSE IF cl.st # "Active" \/ ~timerOk THEN SetClientState_Closed(cl)
    ELSE [cl EXCEPT !.st = "GracePeriod", !.trickle = FALSE, !.timers = {}]

\* SetClientState_GracePeriod: remote clients only, from Active only; a
\* remote client is closed on any error.
SetClientState_GracePeriod(cl, timerOk) ==
    IF cl.local THEN cl
    ELSE IF cl.st # "Active" \/ ~timerOk THEN SetClientState_Closed(cl)
    ELSE [cl EXCEPT !.st = "GracePeriod", !.trickle = FALSE, !.timers = {"grace"}]

\* The linger timeout of a remote client is positive.
LingerAfterGrace == RefreshMsec * MaxHops > GraceMsec

\* Mutant: Linger without the initial mEc->CancelRetrans().
SetClientState_Linger_KeepTrickle(cl, r, timerOk) ==
    LET legal == \/ cl.st = "Active" /\ cl.local
                 \/ cl.st = "GracePeriod"
        c2    == [cl EXCEPT !.timers = {}]
        adv   == TryAdvanceExtEvtSeqNum(c2, r)
    IN  IF ~legal THEN (IF cl.local THEN cl ELSE SetClientState_Closed(cl))
        ELSE IF cl.local THEN [adv EXCEPT !.st = IF adv.cur.valid THEN "Linger" ELSE @]
        ELSE IF LingerAfterGrace /\ timerOk THEN [c2 EXCEPT !.st = "Linger", !.timers = {"linger"}]
        ELSE SetClientState_Closed(c2)

\* Mutant: a remote client lingers without the linger timer (StartTimer
\* left out).
SetClientState_Linger_NoTimer(cl, r, timerOk) ==
    LET c1    == [cl EXCEPT !.trickle = FALSE]
        legal == \/ cl.st = "Active" /\ cl.local
                 \/ cl.st = "GracePeriod"
        c2    == [c1 EXCEPT !.timers = {}]
        adv   == TryAdvanceExtEvtSeqNum(c2, r)
    IN  IF ~legal THEN (IF cl.local THEN c1 ELSE SetClientState_Closed(c1))
        ELSE IF cl.local THEN [adv EXCEPT !.st = IF adv.cur.valid THEN "Linger" ELSE @]
        ELSE IF LingerAfterGrace /\ timerOk THEN [c2 EXCEPT !.st = "Linger"]
        ELSE SetClientState_Closed(c2)

\* SetClientState_Linger: trickle is cancelled first, whatever the state.  A
\* local client advances its sequence number and stays in its state when
\* that fails; a remote client arms the linger timer or is closed.
SetClientState_Linger(cl, r, timerOk) ==
    LET c1    == [cl EXCEPT !.trickle = FALSE]
        legal == \/ cl.st = "Active" /\ cl.local
                 \/ cl.st = "GracePeriod"
        c2    == [c1 EXCEPT !.timers = {}]
        adv   == TryAdvanceExtEvtSeqNum(c2, r)
    IN  IF ~legal THEN (IF cl.local THEN c1 ELSE SetClientState_Closed(c1))
        ELSE IF cl.local THEN [adv EXCEPT !.st = IF adv.cur.valid THEN "Linger" ELSE @]
        ELSE IF LingerAfterGrace /\ timerOk THEN [c2 EXCEPT !.st = "Linger", !.timers = {"linger"}]
        ELSE SetClientState_Closed(c2)

-----------------------------------------------------------------------------
\* Mutant: SendAlarm without the skip of a zero low byte.
SendAlarm_CtrMayBeZero(cl, p, r1, r2, bufOk, sendOk) ==
    LET c1  == IF cl.cur.sn >= UINT32_MAX THEN RegenerateSessionId(cl, r1) ELSE cl
        sn2 == (c1.cur.sn + 1) % SnMod
        a2  == [valid |-> TRUE, session |-> c1.cur.session, sn |-> sn2,
                ctr |-> GetLeastSignificantByte(sn2), cond |-> p]
        c2  == [c1 EXCEPT !.cur = a2]
    IN  IF cl.orig = NoNode \/ ~cl.local THEN [cl |-> cl, sent |-> NoSent]
        ELSE IF ~cl.cur.valid THEN [cl |-> SetClientState_Linger(cl, r2, TRUE), sent |-> NoSent]
        ELSE IF ~bufOk THEN [cl |-> SetClientState_Linger(c1, r2, TRUE), sent |-> NoSent]
        ELSE IF ~sendOk THEN [cl |-> SetClientState_Linger(c2, r2, TRUE), sent |-> NoSent]
        ELSE [cl |-> SetClientState_Active([c2 EXCEPT !.trickle = TRUE, !.fresh = FALSE]),
              sent |-> [msg |-> MsgOf(a2), newEpoch |-> c1.fresh]]

(* WeaveAlarmClient::SendAlarm of payload state p: the result is the new   *)
(* client and what was sent, NoSent if nothing.  r1 is the RNG result of    *)
(* the regeneration at sequence number wrap, r2 that of the Linger entered *)
(* on error.                                                               *)
SendAlarm(cl, p, r1, r2, bufOk, sendOk) ==
    LET c1  == IF cl.cur.sn >= UINT32_MAX THEN RegenerateSessionId(cl, r1) ELSE cl
        sn1 == (c1.cur.sn + 1) % SnMod
        sn2 == IF GetLeastSignificantByte(sn1) = 0 THEN (sn1 + 1) % SnMod ELSE sn1
        a2  == [valid |-> TRUE, session |-> c1.cur.session, sn |-> sn2,
                ctr |-> GetLeastSignificantByte(sn2), cond |-> p]
        c2  == [c1 EXCEPT !.cur = a2]
    IN  IF cl.orig = NoNode \/ ~cl.local THEN [cl |-> cl, sent |-> NoSent]
        ELSE IF ~cl.cur.valid THEN [cl |-> SetClientState_Linger(cl, r2, TRUE), sent |-> NoSent]
        ELSE IF ~bufOk THEN [cl |-> SetClientState_Linger(c1, r2, TRUE), sent |-> NoSent]
        ELSE IF ~sendOk THEN [cl |-> SetClientState_Linger(c2, r2, TRUE), sent |-> NoSent]
        ELSE [cl |-> SetClientState_Active([c2 EXCEPT !.trickle = TRUE, !.fresh = FALSE]),
              sent |-> [msg |-> MsgOf(a2), newEpoch |-> c1.fresh]]

\* Mutant: HandleAlarm without the duplicate check for GracePeriod and Linger.
HandleAlarm_Bounceback(cl, m, relayOk) ==
    LET isNew == cl.st = "Closed"
        cur   == IF isNew THEN InitAlarm ELSE cl.cur
        equal == \/ ~cur.valid /\ m.ctr = cur.ctr
                 \/ cur.valid /\ m.sn = cur.sn
        stale == /\ ~isNew
                 /\ IF cur.valid THEN m.sn < cur.sn
                    ELSE (m.ctr - cur.ctr) % CtrMod > FORWARD_COUNTER_DISTANCE_LIMIT
        c1    == [cl EXCEPT !.cur = AlarmOf(m)]
    IN  IF cl.st = "Active" /\ equal THEN cl
        ELSE IF cl.local THEN cl
        ELSE IF stale THEN [cl EXCEPT !.cur = cur]
        ELSE IF ~relayOk THEN SetClientState_Closed(c1)
        ELSE SetClientState_Active([c1 EXCEPT !.trickle = TRUE])

(* WeaveAlarmClient::HandleAlarm of parsed message m: duplicates are       *)
(* counted by trickle, local and lingering clients ignore their current    *)
(* alarm, a stale sequence number or a counter too far ahead is dropped,   *)
(* anything else replaces the current alarm and is rebroadcast.            *)
HandleAlarm(cl, m, relayOk) ==
    LET isNew == cl.st = "Closed"
        cur   == IF isNew THEN InitAlarm ELSE cl.cur
        equal == \/ ~cur.valid /\ m.ctr = cur.ctr
                 \/ cur.valid /\ m.sn = cur.sn
        stale == /\ ~isNew
                 /\ IF cur.valid THEN m.sn < cur.sn
                    ELSE (m.ctr - cur.ctr) % CtrMod > FORWARD_COUNTER_DISTANCE_LIMIT
        c1    == [cl EXCEPT !.cur = AlarmOf(m)]
    IN  IF cl.st = "Active" /\ equal THEN cl
        ELSE IF cl.local THEN cl
        ELSE IF cl.st \in {"Linger", "GracePeriod"} /\ equal THEN cl
        ELSE IF stale THEN [cl EXCEPT !.cur = cur]
        ELSE IF ~relayOk THEN SetClientState_Closed(c1)
        ELSE SetClientState_Active([c1 EXCEPT !.trickle = TRUE])
-----------------------------------------------------------------------------
(* WeaveAlarmServer: pool management and dispatch.                         *)

\* IsRemoteClientPoolFull: no Closed client is free for a remote alarm.
IsRemoteClientPoolFull(p) == ~\E c \in Clients : p[c].st = "Closed" /\ ~p[c].local

\* AllocAlarmClientUsingExchangeContext: the first Closed client, skipping
\* local ones when remoteOnly; NoClient when there is none.
FreeClients(p, remoteOnly) ==
    {c \in Clients : p[c].st = "Closed" /\ ~(remoteOnly /\ p[c].local)}
AllocClient(p, remoteOnly) ==
    IF FreeClients(p, remoteOnly) = {} THEN NoClient ELSE Min(FreeClients(p, remoteOnly))

\* Mutants: pass 1 without the IsLocalAlarm skip; pass 1 with the
\* arguments of CompareSeverity swapped.
LessSevereVictims_AnyClient(p, a) == {c \in Clients : LessSevere(p[c].cur, a)}
LessSevereVictims_Swapped(p, a) == {c \in Clients : ~p[c].local /\ LessSevere(a, p[c].cur)}

(* CloseLessSevereAlarmClient's choice of victim for alarm a from node    *)
(* src: the first remote client less severe than a; else, among remote     *)
(* clients as severe as a whose originator is above src, the first one     *)
(* with the largest originator; else NoClient.                             *)
LessSevereVictims(p, a) == {c \in Clients : ~p[c].local /\ LessSevere(p[c].cur, a)}
TieVictims(p, src, a) ==
    {c \in Clients : ~p[c].local /\ p[c].orig > src /\ SameSeverity(p[c].cur, a)}
CloseLessSevereVictim(p, src, a) ==
    LET ties == TieVictims(p, src, a)
    IN  IF LessSevereVictims(p, a) # {} THEN Min(LessSevereVictims(p, a))
        ELSE IF ties # {} THEN Min({c \in ties : \A d \in ties : p[d].orig <= p[c].orig})
        ELSE NoClient

\* Mutant: routing only to Active clients.
Matching_ActiveOnly(p, m) ==
    {c \in Clients : /\ p[c].st = "Active"
                     /\ p[c].orig = m.src
                     /\ p[c].cur.valid = (m.ver = "v2")
                     /\ (m.ver = "v1" \/ p[c].cur.session = m.session)}

\* The client DispatchAlarmMessage routes m to: open, same originator, same
\* session validity and, for v2, the same session id.
Matching(p, m) ==
    {c \in Clients : /\ p[c].st # "Closed"
                     /\ p[c].orig = m.src
                     /\ p[c].cur.valid = (m.ver = "v2")
                     /\ (m.ver = "v1" \/ p[c].cur.session = m.session)}

-----------------------------------------------------------------------------
(* Actions.                                                                *)

\* A step that dispatches no message leaves no dispatch history.
ClearHistory == parseDrop' = "none" /\ evicted' = {} /\ UNCHANGED up

Init ==
    /\ pool = [c \in Clients |-> InitClient]
    /\ lastSent = [c \in Clients |-> NoSent]
    /\ parseDrop = "none"
    /\ evicted = {}
    /\ up = TRUE

(* WeaveAlarmServer::NewClient(kAnyNodeId), as MockAlarmOriginator calls   *)
(* it: a local client forced into Linger, then RegenerateSessionId with    *)
(* its error ignored.                                                      *)
NewClient(r, ctxOk) ==
    LET c == AllocClient(pool, FALSE)
    IN  /\ up
        /\ Cardinality({d \in Clients : pool[d].local}) < MaxLocal
        /\ ctxOk /\ c # NoClient
        /\ pool' = [pool EXCEPT ![c] =
                      RegenerateSessionId([@ EXCEPT !.orig = Self, !.local = TRUE,
                                                    !.st = "Linger", !.fresh = FALSE], r)]
        /\ lastSent' = [lastSent EXCEPT ![c] = NoSent]
        /\ ClearHistory

\* The application calls SendAlarm on one of its local clients.
AppSendAlarm(c, p, r1, r2, bufOk, sendOk) ==
    LET res == SendAlarm(pool[c], p, r1, r2, bufOk, sendOk)
    IN  /\ up /\ pool[c].local
        /\ pool' = [pool EXCEPT ![c] = res.cl]
        /\ lastSent' = IF res.sent = NoSent THEN lastSent
                       ELSE [lastSent EXCEPT ![c] = res.sent]
        /\ ClearHistory

\* The application closes one of its local clients (WeaveAlarmClient::Close).
AppClose(c) ==
    /\ up /\ pool[c].local
    /\ pool' = [pool EXCEPT ![c] = SetClientState_Closed(@)]
    /\ UNCHANGED lastSent /\ ClearHistory

\* Mutant: a remote client's refresh timeout leaves it Active.
HandleRetransmissionTimeout_RemoteStaysActive(c, r1, r2, bufOk, sendOk, timerOk) ==
    LET cl  == pool[c]
        res == SendAlarm(cl, cl.cur.cond, r1, r2, bufOk, sendOk)
    IN  /\ cl.trickle
        /\ pool' = [pool EXCEPT ![c] =
                      IF ~cl.local THEN cl
                      ELSE IF KeepReBroadcasting(cl.cur) THEN res.cl
                      ELSE SetClientState_Linger(cl, r2, timerOk)]
        /\ lastSent' = IF cl.local /\ KeepReBroadcasting(cl.cur) /\ res.sent # NoSent
                       THEN [lastSent EXCEPT ![c] = res.sent] ELSE lastSent
        /\ ClearHistory

(* HandleRetransmissionTimeout: the trickle refresh timeout of an armed    *)
(* exchange.  A local alarm still worth broadcasting is sent again, a      *)
(* local one with nothing to report lingers, a remote one enters its grace *)
(* period.                                                                 *)
HandleRetransmissionTimeout(c, r1, r2, bufOk, sendOk, timerOk) ==
    LET cl  == pool[c]
        res == SendAlarm(cl, cl.cur.cond, r1, r2, bufOk, sendOk)
    IN  /\ cl.trickle
        /\ pool' = [pool EXCEPT ![c] =
                      IF ~cl.local THEN SetClientState_GracePeriod(cl, timerOk)
                      ELSE IF KeepReBroadcasting(cl.cur) THEN res.cl
                      ELSE SetClientState_Linger(cl, r2, timerOk)]
        /\ lastSent' = IF cl.local /\ KeepReBroadcasting(cl.cur) /\ res.sent # NoSent
                       THEN [lastSent EXCEPT ![c] = res.sent] ELSE lastSent
        /\ ClearHistory

\* HandleGracePeriodTimeout: the grace timer fires; the client lingers.
HandleGracePeriodTimeout(c, r, timerOk) ==
    /\ "grace" \in pool[c].timers
    /\ pool' = [pool EXCEPT ![c] =
                  SetClientState_Linger([@ EXCEPT !.timers = @ \ {"grace"}], r, timerOk)]
    /\ UNCHANGED lastSent /\ ClearHistory

\* HandleLingerTimeout: the linger timer fires; the client is closed.
HandleLingerTimeout(c) ==
    /\ "linger" \in pool[c].timers
    /\ pool' = [pool EXCEPT ![c] = SetClientState_Closed([@ EXCEPT !.timers = @ \ {"linger"}])]
    /\ UNCHANGED lastSent /\ ClearHistory

(* DispatchAlarmMessage of message m: parse, check the interface, route to *)
(* the matching client, drop our own stale echoes, evict under pool        *)
(* pressure, allocate an exchange and a client, and hand the alarm to      *)
(* HandleAlarm.  The delegate hears of a drop only after a good parse.     *)
DispatchAlarmMessage(m, ctxOk, relayOk) ==
    LET match  == Matching(pool, m)
        full   == IsRemoteClientPoolFull(pool)
        v      == IF full THEN CloseLessSevereVictim(pool, m.src, AlarmOf(m)) ELSE NoClient
        p1     == IF v = NoClient THEN pool ELSE [pool EXCEPT ![v] = SetClientState_Closed(@)]
        n      == AllocClient(p1, TRUE)
    IN  /\ up
        /\ pool' = IF m.ver = "bad" \/ ~m.onIf THEN pool
                    ELSE IF match # {} THEN [pool EXCEPT ![Min(match)] = HandleAlarm(@, m, relayOk)]
                    ELSE IF m.src = Self \/ (full /\ v = NoClient) THEN pool
                    ELSE IF ~ctxOk \/ n = NoClient THEN p1
                    ELSE [p1 EXCEPT ![n] = HandleAlarm([@ EXCEPT !.orig = m.src], m, relayOk)]
        /\ parseDrop' = IF m.ver = "bad" THEN "silent" ELSE "none"
        /\ evicted' = IF m.ver # "bad" /\ m.onIf /\ match = {} /\ m.src # Self /\ v # NoClient
                      THEN {[local |-> pool[v].local, orig |-> pool[v].orig,
                             cur |-> pool[v].cur, by |-> m]}
                      ELSE {}
        /\ UNCHANGED <<lastSent, up>>

(* WeaveAlarmServer::Shutdown: every client of the pool is closed (Close,  *)
(* which cancels its timers and trickle), the alarm handler unregistered   *)
(* and ExchangeMgr cleared.  The application calls it on a live server.    *)
ServerShutdown ==
    /\ up
    /\ pool' = [c \in Clients |-> SetClientState_Closed(pool[c])]
    /\ up' = FALSE
    /\ UNCHANGED lastSent /\ parseDrop' = "none" /\ evicted' = {}

(* WeaveAlarmServer::Init on a shut-down server: InitializeBackingStore    *)
(* cannot fail, the handler is registered again and every client of the   *)
(* pool is reinitialised (initAlarmClient).  On a live server Init only    *)
(* clears the delegate and returns, which the model does not distinguish. *)
ServerInit ==
    /\ ~up
    /\ pool' = [c \in Clients |-> InitClient]
    /\ up' = TRUE
    /\ UNCHANGED lastSent /\ parseDrop' = "none" /\ evicted' = {}

\* The steps of this node that take no message from the network.
NodeNext ==
    \/ \E r \in RngOutcome, k \in Outcome("ctx") : NewClient(r, k)
    \/ \E c \in Clients, p \in AlarmStates, r1, r2 \in RngOutcome,
          b \in Outcome("buf"), s \in Outcome("send") :
          AppSendAlarm(c, p, r1, r2, b, s)
    \/ \E c \in Clients : AppClose(c)
    \/ \E c \in Clients, r1, r2 \in RngOutcome, b \in Outcome("buf"),
          s \in Outcome("send"), t \in Outcome("timer") :
          HandleRetransmissionTimeout(c, r1, r2, b, s, t)
    \/ \E c \in Clients, r \in RngOutcome, t \in Outcome("timer") :
          HandleGracePeriodTimeout(c, r, t)
    \/ \E c \in Clients : HandleLingerTimeout(c)
    \/ ServerShutdown
    \/ ServerInit

\* A message of Msgs arrives and is dispatched.
Dispatching ==
    \E m \in Msgs, k \in Outcome("ctx"), b \in RelayOutcome :
        DispatchAlarmMessage(m, k, b)

Next == NodeNext \/ Dispatching

Spec == Init /\ [][Next]_vars

\* The timers of the system layer and the trickle refresh timeout fire.
Fairness ==
    /\ \A c \in Clients :
         WF_vars(\E r1, r2 \in RngOutcome, b \in Outcome("buf"), s \in Outcome("send"),
                    t \in Outcome("timer") : HandleRetransmissionTimeout(c, r1, r2, b, s, t))
    /\ \A c \in Clients :
         WF_vars(\E r \in RngOutcome, t \in Outcome("timer") : HandleGracePeriodTimeout(c, r, t))
    /\ \A c \in Clients : WF_vars(HandleLingerTimeout(c))

FairSpec == Spec /\ Fairness
-----------------------------------------------------------------------------
(* Properties.                                                             *)

TypeOK ==
    /\ pool \in [Clients -> Client]
    /\ lastSent \in [Clients -> [msg : Msgs \cup {NoMsg} \cup {MsgOf(a) : a \in Alarm},
                                 newEpoch : BOOLEAN]]
    /\ parseDrop \in {"none", "silent", "reported"}
    /\ evicted \subseteq [local : BOOLEAN, orig : {NoNode, Self} \cup Remotes,
                          cur : Alarm, by : Msgs]
    /\ up \in BOOLEAN

(* P3, counter coupling (SendAlarm): every alarm a local client has sent   *)
(* carries the low byte of its sequence number as its counter, and that    *)
(* counter is never 0, across sequence number wrap and session renewal.    *)
SentCounterCoupling ==
    \A c \in Clients :
        lastSent[c] # NoSent =>
            /\ lastSent[c].msg.ctr = GetLeastSignificantByte(lastSent[c].msg.sn)
            /\ lastSent[c].msg.ctr # 0

(* P4, session monotonicity (SendAlarm, TryAdvanceExtEvtSeqNum on Linger,  *)
(* RegenerateSessionId): two successive alarms of a local client with no   *)
(* new session epoch begun in between carry the same session id and a     *)
(* strictly larger sequence number, so receivers never drop them as stale. *)
SessionSnMonotonic ==
    [][\A c \in Clients :
         (/\ lastSent'[c] # lastSent[c]
          /\ lastSent[c] # NoSent /\ lastSent'[c] # NoSent
          /\ ~lastSent'[c].newEpoch)
         => /\ lastSent'[c].msg.session = lastSent[c].msg.session
            /\ lastSent'[c].msg.sn > lastSent[c].msg.sn]_vars

(* P9, admission safety (CloseLessSevereAlarmClient under                  *)
(* DispatchAlarmMessage): a client closed to admit a new remote alarm is   *)
(* remote, is not more severe than the newcomer, and when it is equally    *)
(* severe its originator's node id is above the newcomer's.                *)
AdmissionSafety ==
    \A e \in evicted :
        /\ ~e.local
        /\ ~LessSevere(AlarmOf(e.by), e.cur)
        /\ SameSeverity(e.cur, AlarmOf(e.by)) => e.orig > e.by.src

(* Local alarm sessions (NewClient) are closed only by the application,    *)
(* by Close or by shutting the server down: no timeout, send failure,      *)
(* incoming alarm or eviction closes one.                                  *)
LocalClosedOnlyByApp ==
    [][\A c \in Clients :
         pool[c].local /\ pool'[c].st = "Closed" => AppClose(c) \/ ServerShutdown]_vars

(* DispatchAlarmMessage routing keeps remote sessions unique: no two open  *)
(* remote clients serve the same originator and session (v2) or the same  *)
(* originator (v1), and none serves this node's own alarms.               *)
SessionKey(cl) == <<cl.orig, cl.cur.valid, IF cl.cur.valid THEN cl.cur.session ELSE NoSession>>
RemoteOpen(c) == pool[c].st # "Closed" /\ ~pool[c].local
RemoteSessionsUnique ==
    /\ \A c \in Clients : RemoteOpen(c) => pool[c].orig \in Remotes
    /\ \A c, d \in Clients :
         (c # d /\ RemoteOpen(c) /\ RemoteOpen(d)) => SessionKey(pool[c]) # SessionKey(pool[d])

(* P8 and forward progress (HandleAlarm): while a remote client serves one *)
(* session its sequence number never goes back (v1: its counter moves      *)
(* forward at most FORWARD_COUNTER_DISTANCE_LIMIT), and a client that has  *)
(* stopped rebroadcasting (GracePeriod, Linger) becomes Active again only  *)
(* for a newer alarm, never for a duplicate of the one it relayed.         *)
RemoteSessionProgress ==
    [][\A c \in Clients :
         LET a == pool[c].cur
             b == pool'[c].cur
         IN  (/\ RemoteOpen(c) /\ pool'[c].st # "Closed" /\ ~pool'[c].local
              /\ SessionKey(pool[c]) = SessionKey(pool'[c]))
             => /\ IF a.valid THEN b.sn >= a.sn
                   ELSE (b.ctr - a.ctr) % CtrMod <= FORWARD_COUNTER_DISTANCE_LIMIT
                /\ (pool[c].st \in {"GracePeriod", "Linger"} /\ pool'[c].st = "Active")
                   => IF a.valid THEN b.sn > a.sn ELSE b.ctr # a.ctr]_vars

(* Timers match the client state (SetClientState_*, CancelAll-            *)
(* TimersExceptForTrickle): trickle runs only while Active, a grace or     *)
(* linger timer is armed only in its own state of a remote client, and a   *)
(* remote client in GracePeriod or Linger always has the timer that ends   *)
(* it, so no stale timer acts on a later state and no client is stranded.  *)
TimersMatchState ==
    \A c \in Clients :
        LET cl == pool[c] IN
        /\ cl.trickle => cl.st = "Active"
        /\ "grace" \in cl.timers => cl.st = "GracePeriod" /\ ~cl.local
        /\ "linger" \in cl.timers => cl.st = "Linger" /\ ~cl.local
        /\ ~cl.local /\ cl.st = "GracePeriod" => "grace" \in cl.timers
        /\ ~cl.local /\ cl.st = "Linger" => "linger" \in cl.timers
        /\ cl.st = "Closed" => cl.orig = NoNode /\ ~cl.local

(* Remote sessions expire (HandleRetransmissionTimeout, grace and linger   *)
(* timeouts): once no more alarms arrive, every remote client is           *)
(* eventually Closed and its slot free for new alarms.                     *)
RemoteSessionsExpire ==
    (<>[][~Dispatching]_vars) => \A c \in Clients : RemoteOpen(c) ~> pool[c].st = "Closed"
-----------------------------------------------------------------------------
(* Statements of the spec the code is checked against.                     *)

(* Spec 4.4 routing step 1: on a parse failure DispatchAlarmMessage        *)
(* notifies the delegate (OnNewRemoteAlarmDropped) and drops the message.  *)
ParseFailureReported == parseDrop # "silent"

(* Spec 7 item 6: an RNG failure makes sends refuse only until the RNG     *)
(* succeeds.  If the application keeps calling SendAlarm on a local client *)
(* and eventually the RNG and the buffers work, the alarm is eventually    *)
(* broadcast (the client Active) or the application has closed the client. *)
AppRetries ==
    \A c \in Clients :
        SF_vars(\E p \in AlarmStates, r1, r2 \in Sessions : AppSendAlarm(c, p, r1, r2, TRUE, TRUE))
RetrySpec == Spec /\ Fairness /\ AppRetries
LocalAlarmEventuallySent ==
    \A c \in Clients : pool[c].local ~> (~pool[c].local \/ pool[c].st = "Active")
====
