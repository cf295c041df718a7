----------------------------- MODULE AlarmNetwork -----------------------------
(***************************************************************************)
(* Two Weave nodes running WeaveAlarmServer (WeaveAlarm.cpp) on one        *)
(* multicast link: the originator, whose application keeps a local alarm   *)
(* client (MockAlarmOriginator), and a relay that only hears and           *)
(* rebroadcasts.  Each node is an instance of AlarmServer; the link is     *)
(* the set of messages on air.                                             *)
(*                                                                         *)
(* A message is put on air only by the trickle retransmission of an armed  *)
(* exchange: the local client's SendAlarm and a remote client's relay in   *)
(* HandleAlarm arm it, and the exchange layer sends the cached payload,    *)
(* with its originator's node id as source, until it is cancelled.  The    *)
(* originator's transmissions stay on air until the link drops them: the   *)
(* relay may hear each any number of times and in any order.  A node does  *)
(* not hear itself.  The relay may be shut down and initialised again; the *)
(* originator stays up (its shutdown is checked in AlarmServer).           *)
(***************************************************************************)
EXTENDS Integers, FiniteSets

CONSTANTS Clients, Sessions, NoSession, AlarmStates, SevRank, SnBits, CtrBits,
          RefreshMsec, GraceMsec, MaxHops, Faults,
          OrigId,       \* node id of the originator
          RelayId,      \* node id of the relay
          NetCap        \* messages the link holds at once

VARIABLES poolO, lastSentO, dropO, evictedO, upO,   \* the originator's server
          poolR, lastSentR, dropR, evictedR, upR,   \* the relay's server
          net                                       \* messages on air

varsO == <<poolO, lastSentO, dropO, evictedO, upO>>
varsR == <<poolR, lastSentR, dropR, evictedR, upR>>
vars == <<varsO, varsR, net>>

O == INSTANCE AlarmServer
       WITH Self <- OrigId, Remotes <- {RelayId}, MaxLocal <- 1,
            RemoteSn <- 0..(2 ^ SnBits - 1),
            pool <- poolO, lastSent <- lastSentO, parseDrop <- dropO,
            evicted <- evictedO, up <- upO
R == INSTANCE AlarmServer
       WITH Self <- RelayId, Remotes <- {OrigId}, MaxLocal <- 0,
            RemoteSn <- 0..(2 ^ SnBits - 1),
            pool <- poolR, lastSent <- lastSentR, parseDrop <- dropR,
            evicted <- evictedR, up <- upR

\* The payload an armed exchange retransmits: the client's current alarm,
\* packed by Alarm::pack, under the node id of its originator.
WireOf(cl) == [O!MsgOf(cl.cur) EXCEPT !.src = cl.orig,
                                      !.ver = IF cl.cur.valid THEN "v2" ELSE "v1"]

\* A transmission the full link drops.
OnAir(n, p) == IF p \in n \/ Cardinality(n) < NetCap THEN n \cup {p} ELSE n

Init == O!Init /\ R!Init /\ net = {}

\* A step of one node that takes nothing from the link.  The relay may be
\* shut down and initialised again; the originator stays up.
OrigStep  == O!NodeNext /\ upO' /\ UNCHANGED <<varsR, net>>
RelayStep == R!NodeNext /\ UNCHANGED <<varsO, net>>

\* The trickle retransmission of an armed exchange of either node.
TrickleO(c) ==
    /\ poolO[c].trickle
    /\ net' = OnAir(net, WireOf(poolO[c]))
    /\ UNCHANGED <<varsO, varsR>>

\* A retransmission of the relay reaches the originator at once (a lost copy
\* is a step not taken).  The originator drops its own alarms relayed back
\* or hands them to its local client, which ignores them, so neither the
\* delay nor the order of these copies changes any state.
TrickleR(c, k, b) ==
    /\ poolR[c].trickle
    /\ O!DispatchAlarmMessage(WireOf(poolR[c]), k, b)
    /\ UNCHANGED <<varsR, net>>

\* A copy of m on air reaches the relay and is dispatched; m stays on air.
DeliverR(m, k, b) ==
    /\ m \in net
    /\ R!DispatchAlarmMessage(m, k, b) /\ UNCHANGED <<varsO, net>>

\* The transmission of m ends.
Lose(m) == m \in net /\ net' = net \ {m} /\ UNCHANGED <<varsO, varsR>>

Next ==
    \/ OrigStep
    \/ RelayStep
    \/ \E c \in Clients : TrickleO(c)
    \/ \E c \in Clients, k \in O!Outcome("ctx"), b \in O!RelayOutcome : TrickleR(c, k, b)
    \/ \E m \in net, k \in R!Outcome("ctx"), b \in R!RelayOutcome : DeliverR(m, k, b)
    \/ \E m \in net : Lose(m)

Spec == Init /\ [][Next]_vars

(* The timers of both nodes fire once armed, an armed exchange keeps       *)
(* retransmitting, and a payload retransmitted again and again eventually  *)
(* reaches the relay at a moment its exchange and buffers are available    *)
(* (a fair-lossy link and transient resource failures); a transmission    *)
(* does not stay on air for ever.                                          *)
RelayHears(c) ==
    \E m \in net : m = WireOf(poolO[c]) /\ DeliverR(m, TRUE, TRUE)
Fairness ==
    /\ \A c \in Clients :
         /\ WF_vars(\E r1, r2 \in O!RngOutcome, b \in O!Outcome("buf"), s \in O!Outcome("send"),
                       t \in O!Outcome("timer") :
                       O!HandleRetransmissionTimeout(c, r1, r2, b, s, t) /\ UNCHANGED <<varsR, net>>)
         /\ WF_vars(\E r1, r2 \in R!RngOutcome, b \in R!Outcome("buf"), s \in R!Outcome("send"),
                       t \in R!Outcome("timer") :
                       R!HandleRetransmissionTimeout(c, r1, r2, b, s, t) /\ UNCHANGED <<varsO, net>>)
         /\ WF_vars(\E r \in R!RngOutcome, t \in R!Outcome("timer") :
                       R!HandleGracePeriodTimeout(c, r, t) /\ UNCHANGED <<varsO, net>>)
         /\ WF_vars(R!HandleLingerTimeout(c) /\ UNCHANGED <<varsO, net>>)
         /\ WF_vars(TrickleO(c))
         /\ SF_vars(RelayHears(c))
    /\ \A m \in O!AllMsgs : WF_vars(Lose(m))

FairSpec == Spec /\ Fairness
-----------------------------------------------------------------------------
\* The originator's client c keeps broadcasting: Active, trickle armed, an
\* alarm that HandleRetransmissionTimeout sends again.
Broadcasting(c) ==
    /\ upO /\ poolO[c].local /\ poolO[c].st = "Active" /\ poolO[c].trickle
    /\ O!KeepReBroadcasting(poolO[c].cur)

\* The relay holds an open client for session s of the originator.
RelayHoldsSession(s) ==
    \E d \in Clients : /\ poolR[d].st # "Closed" /\ poolR[d].orig = OrigId
                       /\ poolR[d].cur.valid /\ poolR[d].cur.session = s

\* Client c keeps broadcasting in session s.
BroadcastingIn(c, s) == Broadcasting(c) /\ poolO[c].cur.session = s

(* Spec 2 and 4.3: while the originator keeps broadcasting in a session,   *)
(* the relay eventually holds that session, over a link that loses,        *)
(* duplicates and reorders (trickle retransmission, DispatchAlarmMessage   *)
(* admitting it once an older session of the same originator lingers out  *)
(* of the pool, HandleAlarm taking it), unless the originator leaves the   *)
(* session or stops, or the relay is shut down.                            *)
AlarmReachesRelay ==
    \A c \in Clients, s \in Sessions :
        (upR /\ BroadcastingIn(c, s)) ~> (RelayHoldsSession(s) \/ ~upR \/ ~BroadcastingIn(c, s))
====
