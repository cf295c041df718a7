# TLA+ models of the Weave alarm profile and event logging

This directory holds TLA+ specifications of the openweave-core sources under
`src/`. Each one is checked with TLC. The project covers two parts:

- the Nest alarm profile (`lib/profiles/vendor/nestlabs/alarm/WeaveAlarm.{h,cpp}`)
  and its test applications (`test-apps/MockAlarm*`);
- the event logging manager
  (`lib/profiles/data-management/Current/LoggingManagement.cpp`).

## 1. Inventory

### Components and their state

| Component | Source | State it keeps |
|---|---|---|
| Alarm client session engine | `WeaveAlarmClient` in WeaveAlarm.cpp | client state (Closed, Active, GracePeriod, Linger); current `Alarm` (session id, event sequence number, counter, validity, conditions); local or remote; originator; exchange context with its trickle retransmission; grace and linger timers |
| Alarm server pool and dispatch | `WeaveAlarmServer` | the pool `mClientPool[MAX_CONCURRENT_ALERTS]`; the delegate; the current hush operation |
| Alarm message codec | `Alarm::pack`, `Alarm::parse`, `AddAlarm` | the wire format: length, conditions, where, counter, optional session and sequence number |
| Hush request and response | `AlarmHushRequest`, `AlarmHushResponse`, `UnsolicitedMessageHandler`, `HandleHushRequest`, `MockAlarmRemote` | the pending delegate operation `mCurrentDelegateOp`; the requester's exchange |
| Severity delegate | `MockAlarmOriginator::CompareSeverity` | none (pure function) |
| Event logging | `LoggingManagement` | one circular TLV buffer per importance level, chained from most to least important; per-buffer first and last event id and timestamp; throttle state; external event callback ranges |
| Log flush | `ScheduleFlushIfNeeded`, `FlushHandler`, `SignalUploadDone`, `NotifyEventsDelivered` | the flush state (Idle, InProgress, Holdoff, Shutdown); the upload-requested flag; bytes written since the last upload |

### Operations and interactions

- **The application:**
  - `NewClient` opens a local alarm client;
  - `SendAlarm` increments the sequence number. It renews the session at
    wrap and skips a zero counter, then multicasts with trickle.
  - `Close` ends the session.
- **Timers:**
  - the trickle refresh timeout (`HandleRetransmissionTimeout`)
    rebroadcasts a local alarm that is still worth broadcasting;
  - a remote client moves to GracePeriod;
  - the grace timer moves it to Linger, and the linger timer closes it.
- **The network:** it delivers alarm messages to `DispatchAlarmMessage`,
  which:
  - parses the message and checks the interface;
  - routes it to the client of the same originator and session;
  - drops this node's own echoes;
  - when the pool is full, evicts a less severe alarm (the delegate's
    `CompareSeverity`), or a tie whose originator has a higher node id;
  - allocates a client and calls `HandleAlarm`.
- **`HandleAlarm`:**
  - counts duplicates for trickle;
  - drops alarms with a stale sequence number, and v1 counters too far ahead;
  - otherwise adopts the alarm and rebroadcasts it.
- **Hush:** a remote sends a hush request. The server hands it to the
  delegate once at a time; the delegate answers with `SendHushResponse` or
  `SendStatusReport`.
- **Event logging:**
  - `LogEvent` writes into the buffer of the event's importance. A full
    buffer evicts its oldest event into the next less important buffer, or
    drops it.
  - Writing past a threshold schedules a flush; the flush state machine
    starts an upload and `NotifyEventsDelivered` releases the delivered
    events.

### Hard behaviours

Every item is listed as a hazard in `PROJECT.json` with its source line.

- **Interleavings:** alarms, rebroadcasts and echoes arrive against clients
  in every state.
- **Unreliable multicast:** messages are lost, duplicated and reordered;
  stale and duplicate alarms must not move a client back.
- **Timeouts:** grace, linger and trickle, and the failure to arm a timer.
- **Resource exhaustion:** packet buffers, exchange contexts and a full
  client pool, which forces eviction.
- **Numeric edges:**
  - the 32-bit sequence number wraps;
  - the low byte serves as the counter, with 0 reserved;
  - 256-alignment on Linger;
  - the v1 counter window.
- **RNG failures** while a session id is generated.
- **Event log:**
  - eviction and promotion between rings;
  - the timestamp-0 sentinel;
  - the throttle re-check;
  - external event ranges registered, unregistered and reused;
  - a flush stuck when the upload fails to start;
  - a fetch that writes only its first event with an id and an absolute
    time, then resets `mCurrentTime` and clears `mFirst`.

### Properties per component

- **Alarm session engine (local):**
  - a sent counter is the low byte of the sequence number and never 0;
  - within a session the sequence numbers sent increase;
  - only the application closes a local alarm;
  - after an RNG failure the alarm is eventually sent once the RNG works.
- **Alarm session engine (remote):**
  - a client never goes back in sequence;
  - a duplicate never revives a client that has stopped rebroadcasting;
  - timers match states;
  - every remote session expires.
- **Server:**
  - remote sessions are unique per originator and session;
  - eviction never closes a local or a more severe alarm, or a tie that the
    newcomer's node id loses;
  - the delegate being notified of every dropped alarm is not checked
    (the hazard at WeaveAlarm.cpp 2829 in `PROJECT.json`).
- **Codec:** for every prefix of a packed message, parse either fails or
  returns the fields pack wrote; the v2 fields are valid only for the full
  packet. A counter that does not match the sequence number is only
  logged by the code, not rejected, and the model keeps it that way.
- **Severity:** CompareSeverity agrees with the smoke-first order for two
  alarms of the same layout. Alarms of different layouts reach the index
  bug at MockAlarmOriginator.cpp 383. `SeverityTotalOrder` shows it,
  but no run keeps it (see AlarmSeverity below).
- **Event log:**
  - a subscriber receives each event under the id its call returned, and
    the ids increase;
  - the log refines an abstract log of the events kept;
  - a subscriber rebuilds from each fetch the ids and timestamps its
    events were logged with;
  - a requested flush eventually happens.

## 2. Plan

Modules, in the order they are built:

1. `AlarmServer` (built): one node's alarm server, with its client pool and
   the local application. The incoming alarm messages are an input set.
   `MC_AlarmServer` gives the model values and the message sets.
2. `AlarmSeverity` (built): `CompareSeverity` of the mock delegate as an operator,
   checked against a reference order over every alarm the application
   can build. It is checked in the `AlarmCodec` run (`MC_AlarmCodec`).
3. `AlarmCodec` (built, with `AlarmMessage`): `pack`, `parse` and `AddAlarm` over byte sequences,
   checked for round-trip and for the rejection rules.
4. `HushServer` and `HushCodec` (built): `UnsolicitedMessageHandler` and `HandleHushRequest`, with
   the delegate operation and the mock remote's hush exchange, including
   lost responses and timeouts; the hush codecs over byte sequences.
5. `EventLogAbstract` and `EventLog` (built): the tiered rings with eviction and
   promotion. `EventLog` is shown to implement the abstract log with
   `INSTANCE ... WITH` a refinement mapping.
6. `LogFlush` (built): the flush state machine. It is checked on its own, with
   `LogEvent` reduced to the bytes it writes.
7. `AlarmNetwork` (built): an originator and a relay, two `AlarmServer`
   instances, over a link that loses, duplicates and reorders. The
   refinement to an abstract "latest alarm of each originator"
   specification is not written.

## 3. Modules and runs

### AlarmServer

**State:**

- `pool[c]` is a record per pool slot:
  - `st`: the client state;
  - `local`: `mIsLocalAlarm`;
  - `orig`: `GetOriginator()`;
  - `cur`: `mCurrentAlarm` with fields valid, session, sn, ctr and cond;
  - `trickle`: whether the exchange context's retransmission is armed;
  - `timers`: the grace and linger system timers armed;
  - `fresh`: a history flag, set when a session id was generated and no
    alarm has been sent in it yet.
- `lastSent[c]`: the last alarm that client `c` multicast.
- `parseDrop` and `evicted`: what the last dispatch did with a malformed
  message, and which client it evicted.
- `up`: `ExchangeMgr != NULL`, i.e. the server is initialised and its
  handler registered. The application and the dispatcher act only while it
  holds.

**Actions:** each is one handler of the code, with every call it makes.

- `NewClient`: `WeaveAlarmServer::NewClient`, as `MockAlarmOriginator::Init`
  calls it.
- `AppSendAlarm`: `WeaveAlarmClient::SendAlarm`.
- `AppClose`: `Close`.
- `HandleRetransmissionTimeout`, `HandleGracePeriodTimeout` and
  `HandleLingerTimeout`.
- `DispatchAlarmMessage`.
- `ServerShutdown`: `WeaveAlarmServer::Shutdown`, which closes every client
  of the pool and clears `ExchangeMgr`.
- `ServerInit`: `WeaveAlarmServer::Init` on a shut-down server, which
  reinitialises every client (`initAlarmClient`). `InitializeBackingStore`
  cannot fail in either build.

The client state changes are operators named after the code:

- `SetClientState_Active`, `_Closed`, `_GracePeriod` and `_Linger`;
- `TryAdvanceExtEvtSeqNum` and `RegenerateSessionId`;
- `HandleAlarm`, `CloseLessSevereVictim` and `Matching`.

**Faults:** every fallible call the code makes is an input drawn from a
small set, when its fault kind is in the constant `Faults`:

- `"buf"`: `NewPacketBuffer`;
- `"ctx"`: `NewContext`;
- `"send"`: `SendMessage`;
- `"timer"`: `StartTimer`;
- `"rng"`: `GetSecureRandomData`.

**Abstractions:**

- **Widths:** the 32-bit sequence number and the 8-bit counter are scaled to
  `SnBits = 3` and `CtrBits = 2`. Every wrap, alignment, zero-skip and
  forward-window computation keeps its form:
  - `% 2^SnBits`;
  - `GetLeastSignificantByte(x) = x % 2^CtrBits`;
  - `UINT8_MAX \div 2`.
- **Alarms:** an alarm carries one condition. Its severity is the rank the
  delegate's `CompareSeverity` gives it (the constant `SevRank`).
- **Where:** the where-field and the byte layout are left out.

**Runs:**

| Run | Bounds | Checks | Result |
|---|---|---|---|
| `AlarmServer_local` | 1 slot, 1 local alarm, 1 remote originator, faults buf/ctx/send/timer, fair timers | `TypeOK`, `SentCounterCoupling`, `TimersMatchState`, `SessionSnMonotonic`, `LocalClosedOnlyByApp`, `RemoteSessionsExpire` | pass |
| `AlarmServer_remote` | 2 slots, remote originators 2 and 3, this node's echo, v1 alarms, sessions s1 and s2 with sequence numbers 1 and 2, every fault but rng | `AdmissionSafety`, `RemoteSessionsUnique`, `TimersMatchState`, `RemoteSessionProgress` | pass |
| `AlarmServer_rng` | no remote alarms, RNG fault, strong fairness on application retries | `LocalAlarmEventuallySent` | violated |

`LocalClosedOnlyByApp` counts `Shutdown` as a close by the application.

**Why the bounds are enough:**

- A 3-bit sequence number reaches its wrap in eight sends.
- A 2-bit counter makes one sequence number in four have a zero low byte.
- `Next256AlignedEvtSn` wraps from 5, 6 and 7, so renewal at wrap and the
  failed 256-alignment both happen.
- Two pool slots with two remote originators and this node fill the pool
  and force eviction both by severity and by node id.
- Sessions are model values with symmetry; only their equality matters.

**Fairness:**

- Trickle, grace and linger timeouts are system timers that fire once armed
  (weak fairness per client).
- The `rng` run adds strong fairness on the application calling
  `SendAlarm` with a working RNG. The spec's "until RNG succeeds" assumes
  exactly this.

**What the violations show** (details in `PROJECT.json`, "findings"):

- `AlarmServer_rng`: a local client whose first session id the RNG failed
  to produce never sends again. `SendAlarm` fails on the invalid session,
  and its error path tries Linger from Linger, which is refused before the
  RNG is retried.

**Mutants:** every property of the passing runs is broken by a plausible
bug in the code it is about. The mutant operators sit beside the
definitions they replace in `AlarmServer.tla`.

### AlarmNetwork

Two nodes on one multicast link, each an `INSTANCE` of `AlarmServer` with
its own variables: the originator `O` (node 1), whose application holds a
local client, as `MockAlarmOriginator` does, and the relay `R` (node 2),
which only hears and rebroadcasts. `MC_AlarmNetwork` gives the alarm
states.

**State:** the variables of both servers, and `net`, the originator's
transmissions still on air (at most `NetCap`).

**Actions:**

- `OrigStep` and `RelayStep`: every step of one node that takes nothing
  from the link (`NodeNext` of `AlarmServer`). The relay may shut down and
  initialise again. The originator stays up.
- `TrickleO(c)`: the exchange layer retransmits the payload of an armed
  trickle (`SetupTrickleRetransmit` and `SendMessage` in `SendAlarm`).
  `WireOf` is the payload with the originator's node id as source.
- `DeliverR(m, k, b)`: a copy of `m` reaches the relay's unsolicited
  handler and `DispatchAlarmMessage` runs. The copy stays on air, so it
  may be heard again, and copies are heard in any order.
- `Lose(m)`: the transmission ends.
- `TrickleR(c, k, b)`: a relay rebroadcast, which keeps the originator's
  id as source (`kSendFlag_ReuseSourceId`), reaches the originator at once.
  The originator drops it as its own echo or hands it to its local client,
  which ignores it. So neither the delay nor the order of these copies
  changes any state, and they are not kept on air.

A node does not hear its own transmissions.

**Fairness:**

- The timers of both nodes fire once armed (weak fairness).
- An armed trickle keeps retransmitting (weak fairness on `TrickleO`).
- A payload retransmitted again and again is eventually heard by the relay
  while its exchange context and buffers are available (strong fairness
  on `RelayHears`). This is a fair-lossy link with transient resource
  failures.
- A transmission does not stay on air for ever (weak fairness on `Lose`).

**Property:** `AlarmReachesRelay`. While the originator keeps broadcasting
in a session, the relay eventually holds that session, unless the
originator leaves it or the relay shuts down. The hard case is pool
pressure. The relay's only slot may be held by an older session of the
same originator, which `CloseLessSevereAlarmClient` never evicts for an
equally severe alarm of the same node. That old session must go through
GracePeriod and Linger, and be closed by the linger timer. Copies of the
old session still on air may then be admitted again. A relay whose
`SetClientState_Linger` forgot to arm the linger timer keeps the old
session for good, and the mutant of the run is exactly that.

| Run | Bounds | Checks | Result |
|---|---|---|---|
| `AlarmNetwork` | 1 slot per node, sessions s1 and s2, `SnBits = 2`, `CtrBits = 1`, 2 messages on air, no resource faults | `AlarmReachesRelay` | pass |

**Why the bounds are enough:**

- A 2-bit sequence number renews the session after two sends, so session
  changes happen on their own, beside `Close` and `NewClient`.
- Two messages on air let a copy of an old session outlive the first
  copies of the new one.
- Resource faults are left out here because each is checked on one node in
  the `AlarmServer` runs. They would multiply the state space of a liveness
  check.

The property is stated per session, not per alarm. The originator's
refresh timer moves it to a new sequence number every period, so a
property about one alarm would be met by the originator moving on.

### AlarmMessage

A library module with no state of its own. It holds the `Alarm` object of
`WeaveAlarm.cpp` as a record of the class's data members. The condition
array is a function on `0..kMaxNumAlarmConditions-1`, so the stale bytes
beyond `mLength` are kept. The accessors are operators named after the
methods:

- `GetAlarmState` and `GetAlarmCondition` return 0 outside the list;
- `SetAlarmState`, `AddAlarm` and `KeepReBroadcasting`;
- `AlarmEquals`, which is `operator==`. It compares where and every slot
  of the array, listed or not.

`AlarmCodec` and `AlarmSeverity` extend it, and `MC_AlarmCodec` extends
both.

### AlarmCodec

**State:**

- `tx`: the alarm the application builds;
- `added`: how many times it has called `AddAlarm`;
- `pkt` and `packed`: the bytes `SendAlarm` packed, and the stamped alarm
  they came from;
- `rxLen`, `rx` and `parseErr`: how many bytes the receiver got, the
  `parsedAlarm` of `DispatchAlarmMessage`, and what `parse` returned.

**Actions:**

- `AppAddAlarm`, `AppSetAlarmState` and `AppNewAlarm`: the application
  builds an alarm, as `MockAlarmOriginator` does.
- `SendPack`: the stamping in `SendAlarm` (session id, sequence number,
  counter = low byte), followed by `Alarm::pack` into a buffer of the given
  size. Pack's error is ignored, as the code does.
- `Receive(k)`: `Alarm::parse` of the first `k` bytes into a fresh `Alarm`.
  This covers the whole v2 packet, the v1 part a legacy node sends, and
  every truncation.

`Pack` and `Parse` follow the code's checks in their order. `Parse` writes
each field as soon as it reads it, so a failure after the counter leaves a
half-written result, as in the code. The 32-bit fields are encoded little
endian byte by byte. TLC's integers stop at 2^31-1, so the session ids and
sequence numbers drawn keep the top bit clear; every byte of them is
non-zero in the values chosen.

| Run | Bounds | Checks | Result |
|---|---|---|---|
| `AlarmCodec` (`MC_AlarmCodec`) | kMax = 3, two condition bytes, one state, two session ids and sequence numbers, buffers of 12 and 64 bytes; severity over {smoke, CO} x {1, 4} | `ParseOfPrefix`, `ReceivedSeverityAgrees` | pass |

A 12-byte buffer is too small for an alarm with two conditions (11 + 2),
so pack's `BUFFER_TOO_SMALL` path is reached.

Two disagreements with the comments were found here. They are listed under "Seen while modelling, not run" (section 4): a
single-threaded unit test shows each of them, so they no longer take a
model-checking run.

### AlarmSeverity

`CompareSeverity` of `MockAlarmOriginator` is a pure function. It is
modelled as two recursive operators, one for each loop of the code, over
the table `resultTable`, followed by the smoke-first choice. The second
loop walks `aAlarm2` but switches on `aAlarm1.GetAlarmCondition(i)`, and the
model keeps that. The module has no state. `BuildableAlarms` is defined
recursively: every alarm that `AddAlarm` calls on a fresh `Alarm` can build
from the condition bytes smoke and CO, in two states each, up to the
capacity. `AgreesOnSameLayout` compares every pair of them. `RefSeverity` is
the reference order the code's comments describe: per source, the alarm
that has it wins over the one that lacks it, and otherwise the higher state
wins.

The module is checked in the `AlarmCodec` run. `MC_AlarmCodec` extends
both modules. Its invariant `ReceivedSeverityAgrees` is
`AgreesOnSameLayout`, which TLC evaluates once as a constant, together
with the agreement of the parsed alarm `rx` against the alarm it was packed
from. The delegate is handed exactly that kind of alarm by
`CloseLessSevereAlarmClient`.

`SeverityTotalOrder` states that the order is total. TLC finds it
violated, and this is listed under "Seen while modelling, not run"
(section 4).

### HushServer

One originator (`MockAlarmOriginator` with `WeaveAlarmServer`), two
remotes (`MockAlarmRemote`), and another node `Peer`. Peer sends three
messages: a hush request signed with another key, a truncated request, and
an AlarmUpdate. Messages are a set in flight: any one can be delivered, kept
to be delivered again, or lost. Duplicates are possible because the alarm
profile's handler is registered with duplicates allowed.

**State:**

- originator: `origUp`, `delegate`, `curOp` (`mCurrentDelegateOp`), and
  `client`/`alarm` (`mAlarmClient` and its `mCurrentAlarm`); history
  variables `sent` (the alarm Init sent) and `hushedBy` (the request whose
  hush closed the client);
- per remote: `started`, `rprox` (its proximity code), `hec`
  (`mExchangeContext_hush`: none, open, or waiting with its timer armed),
  and `reports` (what `OnHushCompleted` was called with).

A request records the key and proximity code it was signed with. The HMAC
covers challenge and code, so two signatures are equal exactly when key and
code are; `HushCodec` checks the byte-level side of that.

**Actions:**

- `OriginatorInit`: server Init, challenge, delegate, `NewClient`, and
  `SendAlarm` of smoke/nonhushable + CO/heads-up-1, with the failures of
  `NewClient` and of the buffer allocation.
- `RemoteInit`: `HushAlarm` with failures of `NewContext`, `PacketBuffer::New`
  and `SendMessage`.
- `DeliverRequest`: the whole `UnsolicitedMessageHandler` →
  `HandleHushRequest` → `OnHushRequest` → `SendHushResponse` /
  `SendStatusReport` chain, as one step. The code runs it synchronously on
  one thread.
- `HandleHushResponse`, `HandleResponseTimeout`, and `Lose`.

**Fairness:** weak fairness on each remote's `HandleResponseTimeout`. The
exchange arms a 3000 ms timer when it sends. Nothing else is assumed: a
request can be lost forever.

| Run | Bounds | Checks | Result |
|---|---|---|---|
| `HushServer` | 2 remotes, 2 proximity codes, 2 keys, faults in context, buffer and send; kMax = 8 | `DelegateOpReleased`, `HushAuthenticated`, `HushReportedOnce`, `HushExchangeCloses` | pass |
| `HushServer_nonhushable` | same | `NonHushableNeverSilenced` | violated |

**What the violation shows:** `OnHushRequest` leaves a nonhushable
condition in its state. It still closes the alarm client and answers
success. So one authenticated hush ends an alarm that `WeaveAlarm.h` says
may not be hushed.

### HushCodec

`AlarmHushRequest` and `AlarmHushResponse` over byte sequences. The code
signs with HMAC-SHA1 over the challenge and the proximity code; the model
replaces it with a 20-byte digest determined by key, challenge and code.
The key id is two bytes, little endian. The remote builds, signs and packs
a request as `HushAlarm` does, and the originator parses any prefix of it.
The originator builds and packs a response, and the remote parses any
prefix of it, or a raw packet from another node.

The two messages share no state. One code and one key id keep their
product small, and each has distinct non-zero bytes, so a byte-order or
width slip shows.

| Run | Bounds | Checks | Result |
|---|---|---|---|
| `HushCodec` | code 0x5EADBEEF, key id 0x0102, 2 keys, key sizes 16 and 8, buffers of 4 and 64 bytes; kMax = 3, condition lists of 0, 1, 3 and 4 entries, 2 raw packets | `TypeOK`, `RequestRoundTrip`, `ResponseRoundTrip` | pass |

The bounds reach every exit of each codec:

- the 8-byte key reaches sign's `INVALID_ARGUMENT`, and then pack's
  `INCORRECT_STATE`;
- a 4-byte buffer reaches pack's `BUFFER_TOO_SMALL`;
- the list of kMax + 1 entries reaches init's `BUFFER_TOO_SMALL`.


### EventLogAbstract and EventLog

`EventLogAbstract` states what the event log promises (spec P5, P7). Each
importance level has a log of kept events `[id, tag, ts]`. A successful
`LogEvent` appends the next id of its level with the caller's timestamp.
A discard drops the oldest events of any levels. A reservation (`Reserve`)
takes the next ids of a level for events a platform stores itself; no
stored event is ever given one of them. Nothing else changes a log.

`EventLog` models `LoggingManagement` and its `CircularEventBuffer` chain.
Buffer 0 (`mEventBuffer`) takes every new event and holds the least
important level. Buffer `b` holds importance `NumBuffers - b`, so the last
buffer holds Production (importance 1), the most important level.

**State:**

- per buffer: `buf[b]`, the stored events. An event keeps its importance,
  its encoded size and its delta time. The TLV bytes are left out, and so is
  the event id, which is not stored, as in the code.
- per buffer: `firstId`, `lastId`, `firstTs`, `lastTs` and `counter`
  (`mFirstEventID`, `mLastEventID`, `mFirstEventTimestamp`,
  `mLastEventTimestamp`, and the event id counter);
- `throttled`: `mThrottled`;
- `pending`: a `LogEvent` call between its write and its exit check;
- per buffer: `ext[b]`, the `mExternalEventsList` slots. A slot is its
  first and last id and whether its fetch callback is set.
- history: `calls`; `vended[tag]`, the id that call `tag` returned; and
  `stamped[tag]`, the timestamp it was given.
- one subscriber per level: `since` (its `ioEventID`) and `delivered`.
  `delivered` holds the records the fetches wrote, as `CopyEvent` writes
  them. A fetch's first record carries an id and an absolute time. Each
  later record carries no id and its stored delta.

**Actions:**

- `LogEventBegin`: `LogEvent` → `LogEventPrivate` up to the write. That is
  the importance check, `AddEvent` when the first timestamp is 0, and the
  write loop (`WriteLoop`). The record `BlitEvent` writes has no id
  (`mFirst` is false in this caller). Its delta is taken to the level's
  `mLastEventTimestamp`. The write loop calls `EnsureSpace` with a
  request that starts at `RESERVE` and grows by `INCREMENT` until the event
  fits or `EnsureSpace` fails. On failure buffer 0 is restored, as at line
  1061.
- `EnsureSpace` (`EnsureLoop`) walks the chain in the code's order. It
  fails on a request larger than a queue. Otherwise it evicts the head
  (`EvictEvent`) of a final buffer, or promotes it (`CopyToNextBuffer`)
  when it fits in the next buffer, or descends to make room there first.
- `LogEventEnd`: the exit re-check of the importance, then `VendEventID`
  and `AddEvent`.
- `ThrottleLogger` and `UnthrottleLogger`: the atomic increment and
  decrement of `mThrottled`.
- `RegisterEventCallbackForImportance(imp, n)`: the final buffer of the
  level takes a free slot (`GetNextAvailableExternalEvents`) and vends `n`
  ids into it. With no free slot nothing changes (`WEAVE_ERROR_NO_MEMORY`).
- `UnregisterEventCallbackForImportance(imp, k)`: clears the slot's
  callback. The range stays live until eviction moves `mFirstEventID`
  past it (`RemoveEvent`, which also clears the callback).
- `FetchEventsSince(imp, budget)`: the subscriber reads its level from
  `since` on, as `CopyEventsSince` does. Ids are counted from the final
  buffer's `mFirstEventID`, skipping every external range below `since`.
  `mCurrentTime` sums the deltas of every event of the level from
  `mFirstEventTimestamp` on, skipped ones included. `CopyEvent`
  (`CopyAndAdjustDeltaTime`) writes the first copied event with its id
  and that absolute time. It writes every later event with its delta
  only. After each copy, `mCurrentTime` is reset to 0 and `mFirst` is
  cleared (lines 1237-1238). The copy stops at an
  external range at or after `since`, and at a writer with no room left
  for the next event (`budget` bytes in all). When `since` itself is
  external, the subscriber is moved past the range. The platform's fetch
  callback is abstracted to one that supplies no events. The subscriber
  keeps the `ioEventID` the function returns.

The split of `LogEvent` into two actions is the only interleaving point.
`LogEvent` holds the critical section around `LogEventPrivate` (lines
948-956), as registration and unregistration do around theirs.
`ThrottleLogger` and `UnthrottleLogger` take no lock. The constant
`ConcurrentThrottle` says whether they may run between the two halves.

**Refinement:** the abstract `kept[i]` is what a reader of level `i` sees
(`ReadView`, without the half-finished call). The abstract `next[i]` is the
counter of the level's final buffer. `EventLogRefinement` checks `Abs!Spec`
as a temporal property.

**Subscriber's view:** `Decode` reads the records as a subscriber does. A
record with an id starts a fetch at that id and time. A record without
one is the next id, at the previous time plus its delta.
`SubscriberSeesVendedIds` says the decoded ids are those the calls
returned, and that they increase. `SubscriberSeesLoggedTimes` (spec P7)
says the decoded times are those the calls were given. Breaking it takes
several steps:

1. events logged at different times;
2. a fetch that skips or evicts some of them;
3. a window of two records.

With `mFirst` left set after a copy (mutant `CopyEventsSince_KeepFirst`),
the second record of a window carries the reset time. That property then
fails.

| Run | Bounds | Checks | Result |
|---|---|---|---|
| `EventLog` | 2 buffers of 3 bytes, sizes 1, 2 and 4, times 1 and 2, 3 logging or registration calls, one external slot per buffer with ranges of 2 ids, throttle depth 1, fetch budget 2, throttling only between calls | `SubscriberSeesVendedIds`, `SubscriberSeesLoggedTimes`, `EventLogRefinement` | pass |
| `EventLog_throttle` | same, throttling at any time | `SubscriberSeesVendedIds` | violated |

**Why the bounds are enough:**

- Buffers of 3 bytes with sizes 1 and 2 force eviction, promotion, and a
  descent into buffer 1 before buffer 0 is freed.
- A size-4 event is larger than any queue, so `EnsureSpace` fails and the
  write loop's restore is taken. Every branch of `EnsureLoop` and
  `WriteLoop` fires.
- Three calls let a fetch stop part-way through one buffer and resume.
  They also let a range be registered between two events, or registered,
  unregistered and registered again. One slot is enough for the slot to
  be full, free and reused.

**What the violation shows:** a `ThrottleLogger` between the write and the
exit re-check (line 1076) leaves the event stored but without an id. The
subscriber then receives it under an id that `LogEvent` never returned, or
will return for the next event.

**Seen while modelling, not run:**

- With a timestamp of 0 allowed, `AddEvent`'s "first timestamp is 0"
  sentinel (lines 992 and 1828) re-dates the first event of a buffer, and
  `EventLogRefinement` fails. The run uses non-zero times: system time is
  not 0 in practice.
- `EnsureSpace` may evict heads and then fail with `BUFFER_TOO_SMALL` in a
  lower buffer whose queue is smaller than the event it must promote (line
  120). The write loop then restores buffer 0 (lines 1061 and 1074). This
  brings back events that were already evicted, while `mFirstEventID`
  has moved on. With caps 4 and 2, sizes 1 and 3 and `RESERVE` 3,
  `EventLogRefinement` fails in 6 states. The run keeps equal caps, and
  this case is listed as a hazard in `PROJECT.json`.
- `GetNextAvailableExternalEvents` (line 2001) takes an unregistered slot
  whose last id is `<=` `mFirstEventID`. The range is still live while its
  last id equals `mFirstEventID`, because spec 4.5 reclaims a slot only
  once the ring's first id has moved past it. With ranges of one id
  (`ExtCounts = {1}`), `SubscriberSeesVendedIds` fails in 7 states:
  1. range [1,1] is registered;
  2. an event is logged and returned id 2;
  3. the range is unregistered;
  4. a second registration reuses the slot for [3,3].

  Id 1 is no longer external, and the reader delivers the event as id 1.
  The run uses ranges of 2 ids, where the reuse cannot happen.

### LogFlush

`LogFlush` models the offload scheduling of `LoggingManagement` with the
BDX offload path compiled in and, when the constant `WDM` is TRUE, the
WDM offload path as well. Three kinds of actor take part:

- producers on any thread call `LogEvent`;
- the Weave thread runs `LoggingFlushHandler` from a posted work item or
  from its timer;
- the BDX uploader calls `SignalUploadDone` when an upload ends.

The event store is `EventLog`. Here a logged event is only the bytes it
adds to `mBytesWritten`.

**State:**

- `state`, `uploadRequested` and `bytesWritten`: `mState`,
  `mUploadRequested` and `mBytesWritten`;
- `uploader`: `mBDXUploader` is set;
- `work`: work items posted and not yet run;
- `timer`: the handler's timer is armed. A second `StartTimer` of the same
  callback replaces the first.
- `uploading` and `pos`: the uploader has an upload running, and its
  `GetUploadPosition`;
- `weave`: the Weave thread is between `ScheduleFlushIfNeeded` and the
  check that ends the Holdoff case.
- `mgr`: `mExchangeMgr` is set. The constructor takes it from its caller,
  who may pass NULL and call `SetExchangeManager` later (`MgrAtCreate`).
- `subPos`: the subscribers' least log position, which
  `CheckShouldRunWDM` reads through `GetMinEventLogPosition`.

**Actions:**

- `LogEvent`: the end of `LogEventPrivate`. It adds the bytes written and
  calls `ScheduleFlushIfNeeded`, urgently or not. Its compare-and-swap
  sets `mUploadRequested` and posts a work item. With no exchange manager
  it clears the flag again (`WEAVE_ERROR_INCORRECT_STATE`).
- `SetBDXUploader`, `SetExchangeManager` and `DestroyLoggingManagement`.
- `RunWork` and `TimerFires`: `FlushHandler` in each state.
  - Idle (`IdleCase`) starts an upload, or arms the timer when there is
    no uploader. With WDM it then runs the notification engine, which
    moves `subPos` on, and clears `mUploadRequested`.
  - Holdoff (`HoldoffCase`) goes to Idle, clears the flag and re-runs the
    check.
  - InProgress and Shutdown do nothing.
- `HoldoffCheck`: the rest of the Holdoff case. A producer may run
  between the two steps, because the flag is the one shared variable.
- `SignalUploadDone`: the uploader ends an upload, having reached some
  position.

**Faults:** the constant `Faults` lets three calls fail, with their errors
ignored as in the code:

- `"start"`: `StartUpload`;
- `"timer"`: `StartTimer`;
- `"work"`: `ScheduleWork`.

**Fairness:** weak fairness on `RunWork`, `TimerFires`, `HoldoffCheck` and
`SignalUploadDone`:

- the system layer runs posted work and expired timers;
- the Weave thread finishes a handler;
- an uploader finishes an upload it started.

Producers, `SetBDXUploader` and shutdown get no fairness.

| Run | Bounds | Checks | Result |
|---|---|---|---|
| `LogFlush` | sizes 1 and 2, up to 6 bytes, both thresholds 2, destination set, both offload paths, exchange manager at creation or later, no faults | `WakeupPending`, `FlushEventuallyStarts`, `RequestEventuallyServed` | pass |
| `LogFlush_startfail` | same with the BDX path only, `StartUpload` may fail | `FlushEventuallyStarts` | violated |

Six bytes over a threshold of 2 let a backlog build during an upload, so
the Holdoff case schedules another upload. Urgent events raise the flag
below the threshold.

`RequestEventuallyServed` says that a raised `mUploadRequested` is
eventually cleared. While it stays set, every compare-and-swap fails and
no producer can schedule a flush. It is a property of the build with both
paths. In the BDX-only build it fails while uploads keep running, because
each Holdoff case raises the flag again before the next upload starts;
`FlushEventuallyStarts` is the property for that build.

**What the violation shows:** `FlushHandler` enters InProgress before
`StartUpload` and only logs its error (line 1516). Nothing then leaves
InProgress, and `mUploadRequested` stays set, so the log is never
offloaded again.

**Seen while modelling, not run:**

- With `Faults = {"timer"}` or `{"work"}`, all three properties of the
  `LogFlush` run fail. An ignored `StartTimer` or
  `ScheduleWork` error strands the state machine in the same way. These
  are listed as hazards.
- A backlog logged before `SetBDXUploader` is not offloaded until a later
  `LogEvent`. `CheckShouldRunBDX` is false without an uploader, and no
  timer runs from the constructor on. For this reason
  `FlushEventuallyStarts` starts from a raised `mUploadRequested`. Stated
  from the backlog instead, it fails in 4 states.
- The same holds for events logged while `mExchangeMgr` is NULL (line
  1642). The request is set and cleared again, the error is ignored, and
  `SetExchangeManager` schedules nothing.

### Modelling conventions

Code with several early exits is written as an `IF ... ELSE IF` chain in
the order of the exits, never as a `CASE` with overlapping arms.

## 4. Not modelled

- **Left out for good:**
  - logging and string formatting (`GetClientStateName`, the status-report
    string test);
  - the Objective-C hush response wrapper, which has declarations only;
  - `WeaveAlarmClientIterator`.
- **Seen while modelling, not run:**
  - `CompareSeverity` (MockAlarmOriginator.cpp 383) is not transitive.
    An alarm with no conditions ties with both smoke/1 and smoke/4, and
    those two are not tied with each other. `CloseLessSevereAlarmClient`
    evicts by this order, so which client it evicts depends on the order
    of the pool.
  - `DispatchAlarmMessage` drops a malformed alarm without
    `OnNewRemoteAlarmDropped` (WeaveAlarm.cpp 2705).
    `ParseFailureReported` in `AlarmServer` states the spec's rule. TLC
    finds it violated after one malformed message.
  - `Alarm::AddAlarm` refuses the condition that would fill the last slot
    (`mLength + 1 < kMaxNumAlarmConditions`, WeaveAlarm.cpp 495): an alarm
    holds at most 7 conditions, while the spec allows 8.
  - `Alarm::parse` writes the counter before it checks the length
    (WeaveAlarm.cpp 594), although its comment says a failure leaves the
    result unchanged.
  - `AlarmHushResponse::parse` stores the result and length before it
    refuses a response (WeaveAlarm.cpp 1014-1020). Its comment says the
    result is unchanged on failure. This is the same pattern
    as in `Alarm::parse`.
  - `SendAlarm` ignores a failure of `RegenerateSessionId` at the
    sequence-number wrap (WeaveAlarm.cpp 1161-1165). It then sends an
    alarm marked valid with session id 0. This needs a 32-bit wrap, which
    the code says should not happen in practice.
- **Not yet modelled:**
  - hush requests after `WeaveAlarmServer::Shutdown`. `OnHushRequest`
    checks `mAlarmClient` for NULL (MockAlarmOriginator.cpp 189) and
    clears it after closing the client (244). Whether a request can still
    arrive after Shutdown depends on the exchange manager, which is not in
    the repository. `Init` registers the alarm profile's handler for every
    message type, but `Shutdown` unregisters it only for
    `kAlarmMessageType_Alarm` (WeaveAlarm.cpp 2364 and 2401). The model
    takes the unregistration as effective.
  - `MockAlarmRemote::Shutdown`.
  - in `LoggingManagement`: what a platform's fetch callback writes,
    `NotifyEventsDelivered` (it only calls provider callbacks), UTC
    timestamps,
    `SetLoggingEndpoint`, and the TLV encoding of an event;
  - a `BlitEvent` error other than `WEAVE_ERROR_NO_MEMORY` (the event
    writer callback failing, LoggingManagement.cpp 1054-1065): the
    write loop then stops and the exit path restores buffer 0;
  - `UnthrottleLogger` without a matching `ThrottleLogger`. The code does
    not guard `mThrottled` (1120-1130); the model assumes callers pair the
    two calls, as the comment of `UnthrottleLogger` ("restores" the
    configured level) implies.
  - `DestroyLoggingManagement` landing inside `FlushHandler`'s Holdoff
    case before its state write at 1542, which would overwrite the
    Shutdown state. `HoldoffCase` is one step.
  - in the flush path: what the notification engine sends. The
    subscription engine is not in the repository, so `LogFlush` has a
    run of it only as a step that moves the subscribers' least position
    on.
- **Not in the network model:** more than one relay, with relays hearing
  each other, and the originator's shutdown and resource faults in the
  composition. Liveness over two relays is beyond TLC's reach here.
