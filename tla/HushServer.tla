----------------------------- MODULE HushServer -----------------------------
(***************************************************************************)
(* Remote hush: WeaveAlarmServer's handling of hush requests               *)
(* (UnsolicitedMessageHandler, HandleHushRequest, SendHushResponse,        *)
(* SendStatusReport) with MockAlarmOriginator as the alarm delegate and    *)
(* MockAlarmRemote nodes asking it to hush.  Requests and replies travel  *)
(* over a network that loses, duplicates and reorders them (the alarm     *)
(* profile registers its handler with duplicates allowed); a remote's      *)
(* exchange times out.  Another node, Peer, sends the messages PeerMsgs    *)
(* lists, at any time and any number of times.                             *)
(***************************************************************************)
EXTENDS AlarmMessage, Integers, Sequences, FiniteSets

CONSTANTS Remotes,     \* nodes running MockAlarmRemote
          Peer,        \* any other node of the fabric
          PeerMsgs,    \* what Peer sends
          ProxCodes,   \* proximity verification codes a remote is started with
          OrigProx,    \* 0xDEADBEEF, the code of the originator's hush challenge
          HushKeys,    \* hush keys a request can be signed with
          OrigKey,     \* the key both mock applications sign with
          Faults       \* fallible calls that may fail: "ctx", "buf", "send"

ASSUME OrigProx \in ProxCodes /\ OrigKey \in HushKeys /\ Peer \notin Remotes

VARIABLES
    origUp,    \* MockAlarmOriginator::Init has run (the handler is registered)
    delegate,  \* mAlarmDelegate is set
    curOp,     \* mCurrentDelegateOp: the request whose exchange it is, or NoOp
    client,    \* the originator's mAlarmClient: "none" or "open"
    alarm,     \* that client's mCurrentAlarm
    sent,      \* the alarm Init sent (history)
    hushedBy,  \* the request whose hush closed the client, or NoOp (history)
    started,   \* MockAlarmRemote::Init has run on the remote
    rprox,     \* the proximity code the remote was started with
    hec,       \* mExchangeContext_hush: "none", "open", "waiting" (timer armed)
    reports,   \* <<remote, outcome>> pairs OnHushCompleted was called with
    msgs       \* requests and replies in flight

vars == <<origUp, delegate, curOp, client, alarm, sent, hushedBy,
          started, rprox, hec, reports, msgs>>

Outcome(f) == IF f \in Faults THEN BOOLEAN ELSE {TRUE}

\* Message and status codes of WeaveAlarm.h and the Common profile.
kAlarmHushResult_Success == "Success"
StatusCodes == {"Busy", "UnexpectedMessage", "BadRequest", "UnsupportedMessage",
                "ProximityValidationFailure", "SignatureValidationFailure"}
\* AlarmHushResponse::mConditions holds kMaxNumAlarmConditions entries.
MaxResponseConditions == kMaxNumAlarmConditions

(* A request: its message type, sender, the proximity code and key it was  *)
(* signed with (the HMAC is over the challenge and the proximity code, so  *)
(* two signatures are equal exactly when key and code are), and whether   *)
(* it is long enough for AlarmHushRequest::parse.                          *)
Requests == [kind : {"HushRequest", "AlarmUpdate"}, src : Remotes \cup {Peer},
             prox : ProxCodes, key : HushKeys, whole : BOOLEAN]
\* The null mCurrentDelegateOp, a record of the shape of a request.
NoOp == [kind |-> "none", src |-> Peer, prox |-> OrigProx, key |-> OrigKey, whole |-> FALSE]
Replies == [kind : {"HushResponse", "StatusReport"}, dst : Remotes,
            code : StatusCodes \cup {kAlarmHushResult_Success},
            conds : Seq(Byte)]

\* A reply on the requester's exchange; Peer's replies are not followed.
ReplyTo(m, kind, code, conds) ==
    IF m.src \in Remotes
    THEN {[kind |-> kind, dst |-> m.src, code |-> code, conds |-> conds]}
    ELSE {}

\* The conditions of an alarm as the byte list a hush response carries.
CondList(a) == [k \in 1..a.len |-> a.conds[k - 1]]

(* The alarm MockAlarmOriginator::Init sends: CO in heads-up 1 and smoke   *)
(* in alarm-nonhushable.                                                   *)
WEAVE_ALARM_STATE_HEADS_UP_1 == 1
WEAVE_ALARM_STATE_ALARM_NONHUSHABLE == 5
InitialAlarm ==
    AddAlarm(AddAlarm(InitAlarmObj, WEAVE_ALARM_CO + WEAVE_ALARM_STATE_HEADS_UP_1),
             WEAVE_ALARM_SMOKE + WEAVE_ALARM_STATE_ALARM_NONHUSHABLE)

-----------------------------------------------------------------------------
(* The server's replies.  Each returns the delegate operation left, whether *)
(* an error is returned, and the messages sent.                            *)

\* WeaveAlarmServer::SendStatusReport: sends on the current operation and
\* closes it, whatever the send did.
SendStatusReport(op, code, sendOk) ==
    IF op = NoOp THEN [op |-> NoOp, err |-> TRUE, out |-> {}]
    ELSE [op |-> NoOp, err |-> ~sendOk,
          out |-> IF sendOk THEN ReplyTo(op, "StatusReport", code, <<>>) ELSE {}]

\* WeaveAlarmServer::SendHushResponse: init, a new buffer, pack, send on the
\* current operation, and close it on every path.
SendHushResponse(op, conds, bufOk, sendOk) ==
    IF op = NoOp THEN [op |-> NoOp, err |-> TRUE, out |-> {}]
    ELSE IF Len(conds) > MaxResponseConditions THEN [op |-> NoOp, err |-> TRUE, out |-> {}]
    ELSE [op |-> NoOp, err |-> ~(bufOk /\ sendOk),
          out |-> IF bufOk /\ sendOk
                  THEN ReplyTo(op, "HushResponse", kAlarmHushResult_Success, conds)
                  ELSE {}]

\* The hush loop of OnHushRequest: every listed condition in a state up to
\* alarm-hushable is set to remote-hush.
HushConditions(a) ==
    [a EXCEPT !.conds = [i \in Slots |->
        IF i < a.len /\ GetAlarmState(a, i) <= WEAVE_ALARM_STATE_ALARM_HUSHABLE
        THEN HighNibble(@[i]) + WEAVE_ALARM_STATE_ALARM_REMOTE_HUSH ELSE @[i]]]

(* The delegate: MockAlarmOriginator::OnHushRequest on request m, with the *)
(* originator's state st.  It checks the signature against its challenge,  *)
(* answers success with no conditions when it has no alarm, checks the    *)
(* proximity code, and otherwise hushes its alarm, closes the client and  *)
(* answers with the hushed conditions.  The signature parse gives is      *)
(* always signed.                                                          *)
Delegated(r, st) == [op |-> r.op, err |-> r.err, out |-> r.out,
                     client |-> st.client, alarm |-> st.alarm, hushedBy |-> st.hushedBy]

\* Mutant: no reply when there is no alarm to hush.
OnHushRequest_NoReplyWhenNoAlarm(op, m, st, bufOk, sendOk) ==
    IF <<m.key, m.prox>> # <<OrigKey, OrigProx>>
    THEN Delegated(SendStatusReport(op, "SignatureValidationFailure", sendOk), st)
    ELSE IF st.client = "none"
    THEN Delegated([op |-> op, err |-> FALSE, out |-> {}], st)
    ELSE IF m.prox # OrigProx
    THEN Delegated(SendStatusReport(op, "ProximityValidationFailure", sendOk), st)
    ELSE LET a == HushConditions(st.alarm)
         IN  Delegated(SendHushResponse(op, CondList(a), bufOk, sendOk),
                       [client |-> "none", alarm |-> a, hushedBy |-> m])

\* Mutant: the signature is not checked.
OnHushRequest_NoSignatureCheck(op, m, st, bufOk, sendOk) ==
    IF st.client = "none"
    THEN Delegated(SendHushResponse(op, <<>>, bufOk, sendOk), st)
    ELSE IF m.prox # OrigProx
    THEN Delegated(SendStatusReport(op, "ProximityValidationFailure", sendOk), st)
    ELSE LET a == HushConditions(st.alarm)
         IN  Delegated(SendHushResponse(op, CondList(a), bufOk, sendOk),
                       [client |-> "none", alarm |-> a, hushedBy |-> m])

\* Mutant: mAlarmClient is kept after Close().
OnHushRequest_KeepClient(op, m, st, bufOk, sendOk) ==
    IF <<m.key, m.prox>> # <<OrigKey, OrigProx>>
    THEN Delegated(SendStatusReport(op, "SignatureValidationFailure", sendOk), st)
    ELSE IF st.client = "none"
    THEN Delegated(SendHushResponse(op, <<>>, bufOk, sendOk), st)
    ELSE IF m.prox # OrigProx
    THEN Delegated(SendStatusReport(op, "ProximityValidationFailure", sendOk), st)
    ELSE LET a == HushConditions(st.alarm)
         IN  Delegated(SendHushResponse(op, CondList(a), bufOk, sendOk),
                       [client |-> "open", alarm |-> a, hushedBy |-> m])

OnHushRequest(op, m, st, bufOk, sendOk) ==
    IF <<m.key, m.prox>> # <<OrigKey, OrigProx>>
    THEN Delegated(SendStatusReport(op, "SignatureValidationFailure", sendOk), st)
    ELSE IF st.client = "none"
    THEN Delegated(SendHushResponse(op, <<>>, bufOk, sendOk), st)
    ELSE IF m.prox # OrigProx
    THEN Delegated(SendStatusReport(op, "ProximityValidationFailure", sendOk), st)
    ELSE LET a == HushConditions(st.alarm)
         IN  Delegated(SendHushResponse(op, CondList(a), bufOk, sendOk),
                       [client |-> "none", alarm |-> a, hushedBy |-> m])

\* WeaveAlarmServer::HandleHushRequest: a request too short to parse gets a
\* BadRequest status report and the parse error is returned.
HandleHushRequest(op, m, st, bufOk, sendOk) ==
    IF ~m.whole
    THEN Delegated([SendStatusReport(op, "BadRequest", sendOk) EXCEPT !.err = TRUE], st)
    ELSE OnHushRequest(op, m, st, bufOk, sendOk)

(* WeaveAlarmServer::UnsolicitedMessageHandler for a message other than an *)
(* alarm: Busy while an operation is pending, UnexpectedMessage without a  *)
(* delegate (both on the incoming exchange), otherwise m's exchange        *)
(* becomes the current operation, a hush request goes to HandleHushRequest *)
(* and any other type gets UnsupportedMessage; on an error the operation   *)
(* is closed if it is still open.                                          *)
UnsolicitedMessageHandler(m, st, bufOk, sendOk) ==
    LET base(code) == Delegated([op |-> curOp, err |-> ~sendOk,
                                 out |-> IF sendOk THEN ReplyTo(m, "StatusReport", code, <<>>)
                                         ELSE {}], st)
        r == IF m.kind = "HushRequest" THEN HandleHushRequest(m, m, st, bufOk, sendOk)
             ELSE Delegated(SendStatusReport(m, "UnsupportedMessage", sendOk), st)
    IN  IF curOp # NoOp THEN base("Busy")
        ELSE IF ~delegate THEN base("UnexpectedMessage")
        ELSE IF r.err THEN [r EXCEPT !.op = NoOp]
        ELSE r

-----------------------------------------------------------------------------
(* Actions.                                                                *)

OrigState == [client |-> client, alarm |-> alarm, hushedBy |-> hushedBy]

Init ==
    /\ origUp = FALSE /\ delegate = FALSE /\ curOp = NoOp
    /\ client = "none" /\ alarm = InitAlarmObj /\ sent = InitAlarmObj /\ hushedBy = NoOp
    /\ started = [r \in Remotes |-> FALSE]
    /\ rprox = [r \in Remotes |-> OrigProx]
    /\ hec = [r \in Remotes |-> "none"]
    /\ reports = {}
    /\ msgs = {}

(* MockAlarmOriginator::Init: the server is initialised (no delegate, no   *)
(* operation) and its handler registered, the challenge signed and the     *)
(* delegate set; then NewClient gives the local client or Init fails, and  *)
(* with shouldAlarm the alarm is built and sent.  A SendAlarm that finds   *)
(* no buffer leaves mCurrentAlarm as it was and the client open (linger).  *)
OriginatorInit(shouldAlarm, clientOk, sendOk) ==
    /\ ~origUp
    /\ origUp' = TRUE /\ curOp' = NoOp /\ delegate' = TRUE
    /\ client' = IF clientOk THEN "open" ELSE "none"
    /\ alarm' = IF clientOk /\ shouldAlarm /\ sendOk THEN InitialAlarm ELSE InitAlarmObj
    /\ sent' = alarm'
    /\ UNCHANGED <<hushedBy, started, rprox, hec, reports, msgs>>

\* Mutant: the exchange is kept open when SendMessage fails.
HushAlarm_KeepEcOnSendError(ctxOk, bufOk, sendOk) ==
    IF ~ctxOk THEN "none" ELSE IF ~bufOk THEN "none"
    ELSE IF ~sendOk THEN "open" ELSE "waiting"

(* MockAlarmRemote::HushAlarm: a new exchange, a buffer, the signed request *)
(* packed and sent expecting a response; on any failure the exchange is    *)
(* closed.  The result is what mExchangeContext_hush is left as.           *)
HushAlarm(ctxOk, bufOk, sendOk) ==
    IF ~ctxOk THEN "none" ELSE IF ~bufOk THEN "none"
    ELSE IF ~sendOk THEN "none" ELSE "waiting"

\* MockAlarmRemote::Init with proximity code p.
RemoteInit(r, p, ctxOk, bufOk, sendOk) ==
    LET e == HushAlarm(ctxOk, bufOk, sendOk)
    IN  /\ ~started[r]
        /\ started' = [started EXCEPT ![r] = TRUE]
        /\ rprox' = [rprox EXCEPT ![r] = p]
        /\ hec' = [hec EXCEPT ![r] = e]
        /\ msgs' = IF ctxOk /\ bufOk /\ sendOk
                   THEN msgs \cup {[kind |-> "HushRequest", src |-> r, prox |-> p,
                                    key |-> OrigKey, whole |-> TRUE]}
                   ELSE msgs
        /\ UNCHANGED <<origUp, delegate, curOp, client, alarm, sent, hushedBy, reports>>

(* A request reaches the originator's UnsolicitedMessageHandler; the       *)
(* network may keep a copy to deliver again.                               *)
DeliverRequest(m, dup, bufOk, sendOk) ==
    LET r == UnsolicitedMessageHandler(m, OrigState, bufOk, sendOk)
    IN  /\ origUp
        /\ curOp' = r.op /\ client' = r.client /\ alarm' = r.alarm /\ hushedBy' = r.hushedBy
        /\ msgs' = (IF dup THEN msgs ELSE msgs \ {m}) \cup r.out
        /\ UNCHANGED <<origUp, delegate, sent, started, rprox, hec, reports>>

(* MockAlarmRemote::HandleHushResponse: a reply on the remote's waiting    *)
(* exchange cancels its response timer; a hush response or status report  *)
(* is passed to OnHushCompleted, and the exchange is closed.               *)
HandleHushResponse(m, dup) ==
    /\ hec[m.dst] = "waiting"
    /\ hec' = [hec EXCEPT ![m.dst] = "none"]
    /\ reports' = reports \cup {<<m.dst, [kind |-> m.kind, code |-> m.code, conds |-> m.conds]>>}
    /\ msgs' = IF dup THEN msgs ELSE msgs \ {m}
    /\ UNCHANGED <<origUp, delegate, curOp, client, alarm, sent, hushedBy, started, rprox>>

\* MockAlarmRemote::HandleResponseTimeout: OnHushCompleted(NULL), then the
\* exchange is closed.
HandleResponseTimeout(r) ==
    /\ hec[r] = "waiting"
    /\ hec' = [hec EXCEPT ![r] = "none"]
    /\ reports' = reports \cup {<<r, [kind |-> "Timeout", code |-> kAlarmHushResult_Success,
                                       conds |-> <<>>]>>}
    /\ UNCHANGED <<origUp, delegate, curOp, client, alarm, sent, hushedBy, started, rprox, msgs>>

\* The network loses a message; a reply for a closed exchange is dropped.
Lose(m) ==
    /\ msgs' = msgs \ {m}
    /\ UNCHANGED <<origUp, delegate, curOp, client, alarm, sent, hushedBy,
                   started, rprox, hec, reports>>

Next ==
    \/ \E s, c \in BOOLEAN, k \in Outcome("send") : OriginatorInit(s, c, k)
    \/ \E r \in Remotes, p \in ProxCodes, c \in Outcome("ctx"), b \in Outcome("buf"),
          k \in Outcome("send") : RemoteInit(r, p, c, b, k)
    \/ \E m \in (msgs \cap Requests) \cup PeerMsgs, d \in BOOLEAN,
          b \in Outcome("buf"), k \in Outcome("send") : DeliverRequest(m, d, b, k)
    \/ \E m \in msgs \cap Replies, d \in BOOLEAN : HandleHushResponse(m, d)
    \/ \E r \in Remotes : HandleResponseTimeout(r)
    \/ \E m \in msgs : Lose(m)

Spec == Init /\ [][Next]_vars

\* The response timer of a remote's exchange fires once armed.
Fairness == \A r \in Remotes : WF_vars(HandleResponseTimeout(r))

FairSpec == Spec /\ Fairness
-----------------------------------------------------------------------------
(* Properties.                                                             *)

Outcomes == [kind : {"HushResponse", "StatusReport", "Timeout"},
             code : StatusCodes \cup {kAlarmHushResult_Success}, conds : Seq(Byte)]

TypeOK ==
    /\ origUp \in BOOLEAN /\ delegate \in BOOLEAN
    /\ curOp \in Requests \cup {NoOp}
    /\ client \in {"none", "open"} /\ hushedBy \in Requests \cup {NoOp}
    /\ started \in [Remotes -> BOOLEAN] /\ rprox \in [Remotes -> ProxCodes]
    /\ hec \in [Remotes -> {"none", "open", "waiting"}]
    /\ reports \subseteq Remotes \X Outcomes
    /\ msgs \subseteq Requests \cup Replies

(* Every hush request is answered within its handler: the server's         *)
(* SendHushResponse and SendStatusReport, the delegate's reply on each of   *)
(* its branches and the handler's error path leave no delegate operation   *)
(* pending, so no later request is refused as Busy.                        *)
DelegateOpReleased == curOp = NoOp

(* Hush is authenticated (OnHushRequest's signature and proximity checks): *)
(* the originator's alarm is closed only by a request signed with its key  *)
(* over its proximity code, and a remote is told a hush succeeded only if  *)
(* it was started with that code.                                          *)
HushAuthenticated ==
    /\ hushedBy # NoOp => hushedBy.key = OrigKey /\ hushedBy.prox = OrigProx
    /\ \A x \in reports : x[2].kind = "HushResponse" => rprox[x[1]] = OrigProx

(* The hushed alarm is reported once: of all the remotes and duplicated    *)
(* requests, at most one remote receives a hush response listing           *)
(* conditions, and by then the originator has closed its alarm client;    *)
(* later hushes are answered with no conditions.                           *)
HushReportedOnce ==
    \A x, y \in reports :
        (/\ x[2].kind = "HushResponse" /\ x[2].conds # <<>>
         /\ y[2].kind = "HushResponse" /\ y[2].conds # <<>>)
        => /\ x = y
           /\ hushedBy # NoOp /\ client = "none"

(* Every hush exchange a remote opens is closed (HushAlarm's error path,   *)
(* HandleHushResponse, HandleResponseTimeout), so none leaks.              *)
HushExchangeCloses == \A r \in Remotes : hec[r] # "none" ~> hec[r] = "none"
-----------------------------------------------------------------------------
(* Statements of WeaveAlarm.h checked against the mock delegate.           *)

(* WEAVE_ALARM_STATE_ALARM_NONHUSHABLE: the alarm is active and may not be *)
(* hushed.  A remote hush never ends the alarm of an originator with a     *)
(* non-hushable condition.                                                 *)
NonHushableNeverSilenced ==
    hushedBy # NoOp =>
        \A i \in Slots : i < sent.len => GetAlarmState(sent, i) # WEAVE_ALARM_STATE_ALARM_NONHUSHABLE
====
