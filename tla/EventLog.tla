------------------------------- MODULE EventLog -------------------------------
(***************************************************************************)
(* The event log of LoggingManagement.cpp: a chain of circular buffers,   *)
(* buffer 0 (mEventBuffer) taking every new event and each buffer b       *)
(* holding importance NumBuffers - b.  Making room in a buffer drops its  *)
(* head when the buffer is the head's final destination and otherwise     *)
(* copies it into the next buffer (EnsureSpace, EvictEvent).  Events do   *)
(* not carry their id: a reader numbers the events of a level from the    *)
(* final buffer's mFirstEventID on, and rebuilds their timestamps from    *)
(* mFirstEventTimestamp and the stored deltas (FetchEventsSince,          *)
(* CopyEventsSince).                                                       *)
(*                                                                         *)
(* Data is abstracted to what ids and times depend on: an event is its    *)
(* importance, its encoded size in units, its delta time and the tag of   *)
(* the LogEvent call that wrote it; the payload is left out.              *)
(*                                                                         *)
(* LogEventPrivate runs inside the platform critical section, but         *)
(* ThrottleLogger and UnthrottleLogger only touch the atomic mThrottled.  *)
(* A LogEvent call is therefore split where it reads mThrottled a second  *)
(* time: LogEventBegin decides, makes room and writes, LogEventEnd        *)
(* re-checks the importance and vends the id.  Whether a throttle may      *)
(* land between the two is the constant ConcurrentThrottle.               *)
(*                                                                         *)
(* A platform may register a range of ids for events it stores itself     *)
(* (RegisterEventCallbackForImportance): the ids are vended from the      *)
(* level's counter and recorded in one of NumExt slots of the buffer.     *)
(* Readers skip a range when numbering stored events, a fetch that        *)
(* reaches one hands it to the platform's callback, and eviction skips    *)
(* ranges at the head of the buffer.                                      *)
(***************************************************************************)
EXTENDS Integers, Sequences, SequencesExt

CONSTANTS NumBuffers,          \* inNumBuffers
          Cap,                 \* Cap[b]: queue size of buffer b, in size units
          Sizes,               \* encoded sizes an event may have
          Times,               \* system timestamps a call may log with
          ConfigImportance,    \* the configured (global) logging importance
          CounterStart,        \* CounterStart[b]: initial value of b's id counter
          RESERVE,             \* WEAVE_CONFIG_EVENT_SIZE_RESERVE
          INCREMENT,           \* WEAVE_CONFIG_EVENT_SIZE_INCREMENT
          MaxCalls,            \* bound on LogEvent calls
          MaxThrottle,         \* bound on nested ThrottleLogger calls
          FetchBudgets,        \* room in a subscriber's writer, in size units
          ConcurrentThrottle,  \* may a throttle land inside a LogEvent call
          NumExt,              \* WEAVE_CONFIG_EVENT_LOGGING_NUM_EXTERNAL_CALLBACKS
          ExtCounts            \* inNumEvents a platform may register

VARIABLES buf,        \* buf[b]: the events stored in buffer b, head first
          firstId,    \* mFirstEventID of each buffer
          lastId,     \* mLastEventID
          firstTs,    \* mFirstEventTimestamp
          lastTs,     \* mLastEventTimestamp
          counter,    \* the value of each buffer's mEventIdCounter
          throttled,  \* mThrottled
          pending,    \* the LogEvent call between its write and its exit
          ext,        \* ext[b][k]: mExternalEventsList[k] of buffer b
          calls,      \* LogEvent and register calls so far; call k has tag k
          vended,     \* vended[k]: the id LogEvent call k returned (NoId: none)
          since,      \* a subscriber's ioEventID for each importance
          delivered,  \* delivered[i]: the records the subscriber fetched of level i
          stamped     \* stamped[k]: the timestamp LogEvent call k was given (history)

logVars == <<buf, firstId, lastId, firstTs, lastTs, counter, ext>>
vars == <<logVars, throttled, pending, calls, vended, since, delivered, stamped>>

Buffers == 0..NumBuffers - 1
Importance == 1..NumBuffers
Production == 1
Tags == 1..MaxCalls
NoPending == [tag |-> 0]
Event == [imp : Importance, size : Sizes, delta : Int, tag : Tags]
Slots == 1..NumExt
\* ExternalEvents without mNotifyEventsDeliveredFunct; fetch: the fetch
\* callback is set (mFetchEventsFunct # NULL).
ExtSlot == [first : Nat, last : Nat, fetch : BOOLEAN]
NoId == -1
\* A record CopyEvent writes: the event id is absent (NoId) but in the first
\* record of a fetch, whose ts is absolute; the others carry the delta.
WireEvent == [tag : Tags, id : Int, ts : Int]

\* mImportance of buffer b, as the constructor sets it.
BufImportance(b) == NumBuffers - b

IsFinalDestinationForImportance(b, imp) ==
    ~(b + 1 < NumBuffers /\ BufImportance(b + 1) >= imp)

\* The first buffer, from mEventBuffer on, that is final for imp.
GetImportanceBuffer(imp) ==
    CHOOSE b \in Buffers : IsFinalDestinationForImportance(b, imp)
                           /\ \A c \in 0..b - 1 : ~IsFinalDestinationForImportance(c, imp)

\* GetImportanceBuffer of every level (the chain never changes).
ImportanceBuffer == [imp \in Importance |-> GetImportanceBuffer(imp)]

GetCurrentImportance ==
    LET r == IF throttled # 0 THEN Production ELSE ConfigImportance
    IN  IF r < NumBuffers THEN r ELSE NumBuffers

\* The units the events of q occupy.
RECURSIVE Used(_)
Used(q) == IF q = <<>> THEN 0 ELSE Head(q).size + Used(Tail(q))

\* st is the part of the log state EnsureSpace and the write loop change:
\* [buf, firstId, firstTs, ext].
AvailableDataLength(st, b) == Cap[b] - Used(st.buf[b])

\* GetExternalEventsFromEventID: the first slot of es whose range holds
\* id and does not start before the buffer's first id fid; 0 for NULL.
GetExternalEventsFromEventID(es, fid, id) ==
    LET ks == {k \in Slots : es[k].first <= id /\ id <= es[k].last /\ fid <= es[k].first}
    IN  IF ks = {} THEN 0 ELSE Min(ks)

\* GetNextAvailableExternalEvents: the first slot with no fetch callback
\* whose range ends at or before the buffer's first id; 0 for NULL.
GetNextAvailableExternalEvents(es, fid) ==
    LET ks == {k \in Slots : ~es[k].fetch /\ es[k].last <= fid}
    IN  IF ks = {} THEN 0 ELSE Min(ks)

\* The loop of RemoveEvent: every external range at the first id is
\* passed over and its slot's fetch callback cleared.
RECURSIVE SkipExternalAtHead(_, _)
SkipExternalAtHead(st, b) ==
    LET k == GetExternalEventsFromEventID(st.ext[b], st.firstId[b], st.firstId[b])
    IN  IF k = 0 THEN st
        ELSE SkipExternalAtHead([st EXCEPT !.firstId[b] = st.ext[b][k].last + 1,
                                           !.ext[b][k].fetch = FALSE], b)

RemoveEvent(st, b) ==
    LET s == SkipExternalAtHead(st, b) IN [s EXCEPT !.firstId[b] = @ + 1]

(***************************************************************************)
(* EvictEvent on a head whose importance ends in buffer b: RemoveEvent     *)
(* advances mFirstEventID and the head's delta moves mFirstEventTimestamp *)
(* to the time of the event that was logged just before the new head.     *)
(***************************************************************************)
\* Mutant: the dropped head's delta is not added to mFirstEventTimestamp.
EvictEvent_KeepFirstTs(st, b) ==
    LET s == RemoveEvent(st, b) IN [s EXCEPT !.buf[b] = Tail(@)]

EvictEvent(st, b) ==
    LET s == RemoveEvent(st, b)
    IN  [s EXCEPT !.buf[b] = Tail(@), !.firstTs[b] = @ + Head(st.buf[b]).delta]

\* CopyToNextBuffer followed by the unconditional EvictHead.
CopyToNextBuffer(st, b) ==
    [st EXCEPT !.buf[b] = Tail(@), !.buf[b + 1] = Append(@, Head(st.buf[b]))]

(***************************************************************************)
(* The loop of EnsureSpace from buffer b on, req being the space wanted   *)
(* in b and saved[c] the space buffer c still wants once b has room (the  *)
(* mAppData the loop leaves in each buffer it walks past).                *)
(***************************************************************************)
RECURSIVE EnsureLoop(_, _, _, _)
EnsureLoop(st, b, req, saved) ==
    IF req > Cap[b] THEN [st |-> st, ok |-> FALSE]        \* BUFFER_TOO_SMALL
    ELSE IF req > AvailableDataLength(st, b) THEN
        LET h == Head(st.buf[b]) IN
        IF IsFinalDestinationForImportance(b, h.imp)
        THEN EnsureLoop(EvictEvent(st, b), b, req, saved)
        ELSE IF h.size <= AvailableDataLength(st, b + 1)
        THEN EnsureLoop(CopyToNextBuffer(st, b), b, req, saved)
        ELSE EnsureLoop(st, b + 1, h.size, [saved EXCEPT ![b] = req])
    ELSE IF b = 0 THEN [st |-> st, ok |-> TRUE]
    ELSE EnsureLoop(st, b - 1, saved[b - 1], saved)

EnsureSpace(st, req) ==
    IF req <= AvailableDataLength(st, 0) THEN [st |-> st, ok |-> TRUE]
    ELSE EnsureLoop(st, 0, req, [c \in Buffers |-> 0])

(***************************************************************************)
(* The write loop of LogEventPrivate: EnsureSpace(requestSize), then      *)
(* BlitEvent into buffer 0, which fails with NO_MEMORY unless the event   *)
(* fits; the checkpoint is restored and the request grows by INCREMENT.   *)
(* When EnsureSpace fails, the exit path restores buffer 0 to the         *)
(* checkpoint taken before that EnsureSpace; the other buffers and the    *)
(* ids and timestamps keep what the failed EnsureSpace did to them.       *)
(***************************************************************************)
RECURSIVE WriteLoop(_, _, _)
WriteLoop(st, req, size) ==
    LET r == EnsureSpace(st, req) IN
    IF ~r.ok THEN [st |-> [r.st EXCEPT !.buf[0] = st.buf[0]], ok |-> FALSE]
    ELSE IF size <= AvailableDataLength(r.st, 0) THEN r
    ELSE WriteLoop(r.st, req + INCREMENT, size)

--------------------------------------------------------------------------------

TypeOK ==
    /\ buf \in [Buffers -> Seq(Event)]
    /\ firstId \in [Buffers -> Nat] /\ lastId \in [Buffers -> Nat]
    /\ firstTs \in [Buffers -> Int] /\ lastTs \in [Buffers -> Int]
    /\ counter \in [Buffers -> Nat]
    /\ ext \in [Buffers -> [Slots -> ExtSlot]]
    /\ throttled \in 0..MaxThrottle
    /\ pending \in {NoPending} \cup [tag : Tags, imp : Importance, ts : Times]
    /\ calls \in 0..MaxCalls
    /\ vended \in [Tags -> Int]
    /\ since \in [Importance -> Nat]
    /\ delivered \in [Importance -> Seq(WireEvent)]
    /\ stamped \in [Tags -> Int]


\* The constructor and the CircularEventBuffer constructor.
Init ==
    /\ buf = [b \in Buffers |-> <<>>]
    /\ firstId = CounterStart
    /\ lastId = [b \in Buffers |-> 0]
    /\ firstTs = [b \in Buffers |-> 0]
    /\ lastTs = [b \in Buffers |-> 0]
    /\ counter = CounterStart
    /\ ext = [b \in Buffers |-> [k \in Slots |-> [first |-> 0, last |-> 0, fetch |-> FALSE]]]
    /\ throttled = 0
    /\ pending = NoPending
    /\ calls = 0
    /\ vended = [k \in Tags |-> NoId]
    /\ since = [i \in Importance |-> 0]
    /\ delivered = [i \in Importance |-> <<>>]
    /\ stamped = [k \in Tags |-> 0]

\* CircularEventBuffer::AddEvent: the new <<first, last>> timestamps.
AddEvent(first, last, ts) == <<IF first = 0 THEN ts ELSE first, ts>>

\* CircularEventBuffer::VendEventID of buffer b, handing the id to call tag.
VendEventID(b, tag) ==
    /\ lastId' = [lastId EXCEPT ![b] = counter[b]]
    /\ counter' = [counter EXCEPT ![b] = @ + 1]
    /\ vended' = [vended EXCEPT ![tag] = counter[b]]

\* BlitEvent as LogEventPrivate calls it, with mFirst false and mCurrentTime
\* the level's mLastEventTimestamp: the record gets no id and the delta
\* of ts to that time; the payload is left out.
BlitEvent(imp, size, ts, tag, currentTime) ==
    [imp |-> imp, size |-> size, delta |-> ts - currentTime, tag |-> tag]

(***************************************************************************)
(* LogEventPrivate up to its exit label: the importance check against     *)
(* mThrottled and the configuration, AddEvent when the level has no first *)
(* timestamp yet, and the write loop.  The delta is taken against         *)
(* mLastEventTimestamp of the level.  A failed write returns 0 at once.   *)
(***************************************************************************)
LogEventBegin(imp, size, ts) ==
    /\ pending = NoPending
    /\ calls < MaxCalls
    /\ imp <= GetCurrentImportance
    /\ LET ib  == ImportanceBuffer[imp]
           fl  == IF firstTs[ib] = 0 THEN AddEvent(firstTs[ib], lastTs[ib], ts)
                                     ELSE <<firstTs[ib], lastTs[ib]>>
           st0 == [buf |-> buf, firstId |-> firstId, firstTs |-> [firstTs EXCEPT ![ib] = fl[1]],
                   ext |-> ext]
           w   == WriteLoop(st0, RESERVE, size)
           ev  == BlitEvent(imp, size, ts, calls + 1, fl[2])
       IN  /\ buf' = IF w.ok THEN [w.st.buf EXCEPT ![0] = Append(@, ev)] ELSE w.st.buf
           /\ firstId' = w.st.firstId
           /\ firstTs' = w.st.firstTs
           /\ ext' = w.st.ext
           /\ lastTs' = [lastTs EXCEPT ![ib] = fl[2]]
           /\ pending' = IF w.ok THEN [tag |-> calls + 1, imp |-> imp, ts |-> ts]
                                 ELSE NoPending
    /\ calls' = calls + 1
    /\ stamped' = [stamped EXCEPT ![calls + 1] = ts]
    /\ UNCHANGED <<lastId, counter, throttled, vended, since, delivered>>

(***************************************************************************)
(* The exit of LogEventPrivate after a successful write: the importance   *)
(* is checked again, and only then VendEventID and AddEvent run.          *)
(***************************************************************************)
LogEventEnd ==
    /\ pending # NoPending
    /\ LET ib == ImportanceBuffer[pending.imp]
           fl == AddEvent(firstTs[ib], lastTs[ib], pending.ts)
       IN  IF pending.imp <= GetCurrentImportance
           THEN /\ VendEventID(ib, pending.tag)
                /\ firstTs' = [firstTs EXCEPT ![ib] = fl[1]]
                /\ lastTs' = [lastTs EXCEPT ![ib] = fl[2]]
           ELSE UNCHANGED <<lastId, counter, vended, lastTs, firstTs>>
    /\ pending' = NoPending
    /\ UNCHANGED <<buf, firstId, ext, throttled, calls, since, delivered, stamped>>

\* ThrottleLogger: __sync_add_and_fetch(&mThrottled, 1).
ThrottleLogger ==
    /\ pending = NoPending \/ ConcurrentThrottle
    /\ throttled < MaxThrottle
    /\ throttled' = throttled + 1
    /\ UNCHANGED <<logVars, pending, calls, vended, since, delivered, stamped>>

\* UnthrottleLogger.  The code does not guard mThrottled; callers are
\* assumed to pair it with a ThrottleLogger (throttled > 0).
UnthrottleLogger ==
    /\ pending = NoPending \/ ConcurrentThrottle
    /\ throttled > 0
    /\ throttled' = throttled - 1
    /\ UNCHANGED <<logVars, pending, calls, vended, since, delivered, stamped>>
(***************************************************************************)
(* RegisterEventCallbackForImportance(imp, fetch, notify, n): in the      *)
(* critical section, the first free slot of the level's buffer gets the   *)
(* next n ids of its counter (VendEventID n times) and the callback; with *)
(* no free slot the call fails with NO_MEMORY and changes nothing.        *)
(***************************************************************************)
RegisterEventCallbackForImportance(imp, n) ==
    /\ pending = NoPending
    /\ calls < MaxCalls
    /\ LET b == ImportanceBuffer[imp]
           k == GetNextAvailableExternalEvents(ext[b], firstId[b])
       IN  IF k = 0 THEN UNCHANGED <<lastId, counter, ext>>
           ELSE /\ counter' = [counter EXCEPT ![b] = @ + n]
                /\ lastId' = [lastId EXCEPT ![b] = counter[b] + n - 1]
                /\ ext' = [ext EXCEPT ![b][k] = [first |-> counter[b],
                                                  last |-> counter[b] + n - 1,
                                                  fetch |-> TRUE]]
    /\ calls' = calls + 1
    /\ UNCHANGED <<buf, firstId, firstTs, lastTs, throttled, pending, vended, since, delivered, stamped>>

\* UnregisterEventCallbackForImportance of slot k: the callbacks are
\* cleared; the ids stay external until eviction passes over them.
UnregisterEventCallbackForImportance(imp, k) ==
    /\ pending = NoPending
    /\ ext[ImportanceBuffer[imp]][k].fetch
    /\ ext' = [ext EXCEPT ![ImportanceBuffer[imp]][k].fetch = FALSE]
    /\ UNCHANGED <<buf, firstId, lastId, firstTs, lastTs, counter, throttled, pending,
                   calls, vended, since, delivered, stamped>>

\* IsEventExternal(imp, id): the slot of the level's buffer holding id, or 0.
ExtOf(imp, id) ==
    LET fb == ImportanceBuffer[imp] IN GetExternalEventsFromEventID(ext[fb], firstId[fb], id)

\* The loop at the top of CopyEventsSince: external ranges before start are
\* skipped; one at or after start ends the iteration (stop).
RECURSIVE SkipExternal(_, _, _)
SkipExternal(imp, cur, start) ==
    LET k == ExtOf(imp, cur) IN
    IF k = 0 THEN [cur |-> cur, stop |-> FALSE]
    ELSE IF cur >= start THEN [cur |-> cur, stop |-> TRUE]
    ELSE SkipExternal(imp, ext[ImportanceBuffer[imp]][k].last + 1, start)

(***************************************************************************)
(* CopyEventsSince over the elements ch[k..] of the reader's chain, cur   *)
(* being mCurrentEventID, t mCurrentTime, first mFirst, room what is left *)
(* in the writer and out the records written so far.  Elements of other   *)
(* levels only pass; an event of imp adds its delta to the time, is       *)
(* copied from start on when it fits (the writer is rolled back and the   *)
(* iteration ends when it does not) and takes the id cur.  CopyEvent      *)
(* (CopyAndAdjustDeltaTime) writes the first copied event with its id and *)
(* the absolute time t, and every later one with no id and its stored    *)
(* delta; after a copy mCurrentTime is 0 and mFirst false.                *)
(***************************************************************************)
CopyEvent(e, id, t, first) ==
    IF first THEN [tag |-> e.tag, id |-> id, ts |-> t]
    ELSE [tag |-> e.tag, id |-> NoId, ts |-> e.delta]

\* Mutant: mFirst is not cleared after a copy, so every event is written
\* with an id and the reset mCurrentTime as its absolute time.
RECURSIVE CopyEventsSince_KeepFirst(_, _, _, _, _, _, _, _, _)
CopyEventsSince_KeepFirst(imp, ch, k, cur, start, t, first, room, out) ==
    IF k > Len(ch) THEN [cur |-> cur, out |-> out]
    ELSE LET s == SkipExternal(imp, cur, start)
             e == ch[k]
         IN  IF s.stop THEN [cur |-> s.cur, out |-> out]
             ELSE IF e.imp # imp
             THEN CopyEventsSince_KeepFirst(imp, ch, k + 1, s.cur, start, t, first, room, out)
             ELSE IF s.cur < start
             THEN CopyEventsSince_KeepFirst(imp, ch, k + 1, s.cur + 1, start, t + e.delta, first, room, out)
             ELSE IF e.size > room THEN [cur |-> s.cur, out |-> out]
             ELSE CopyEventsSince_KeepFirst(imp, ch, k + 1, s.cur + 1, start, 0, first, room - e.size,
                                  Append(out, CopyEvent(e, s.cur, t + e.delta, first)))

RECURSIVE CopyEventsSince(_, _, _, _, _, _, _, _, _)
CopyEventsSince(imp, ch, k, cur, start, t, first, room, out) ==
    IF k > Len(ch) THEN [cur |-> cur, out |-> out]
    ELSE LET s == SkipExternal(imp, cur, start)
             e == ch[k]
         IN  IF s.stop THEN [cur |-> s.cur, out |-> out]
             ELSE IF e.imp # imp
             THEN CopyEventsSince(imp, ch, k + 1, s.cur, start, t, first, room, out)
             ELSE IF s.cur < start
             THEN CopyEventsSince(imp, ch, k + 1, s.cur + 1, start, t + e.delta, first, room, out)
             ELSE IF e.size > room THEN [cur |-> s.cur, out |-> out]
             ELSE CopyEventsSince(imp, ch, k + 1, s.cur + 1, start, 0, FALSE, room - e.size,
                                  Append(out, CopyEvent(e, s.cur, t + e.delta, first)))

\* The reader's chain for imp (GetEventReader, CircularEventReader): the
\* final buffer of imp and then each buffer before it.
Chain(imp) ==
    LET fb == ImportanceBuffer[imp] IN FlattenSeq([k \in 1..fb + 1 |-> buf[fb + 1 - k]])

(***************************************************************************)
(* What a reader of level imp sees: its stored events evs[k..], numbered  *)
(* as CopyEventsSince numbers them from cur on past every external range, *)
(* with their times from t on.                                            *)
(***************************************************************************)
RECURSIVE Numbered(_, _, _, _, _)
Numbered(imp, evs, k, cur, t) ==
    IF k > Len(evs) THEN <<>>
    ELSE LET c == SkipExternal(imp, cur, counter[ImportanceBuffer[imp]] + 1).cur
             u == t + evs[k].delta
         IN  <<[id |-> c, tag |-> evs[k].tag, ts |-> u]>> \o Numbered(imp, evs, k + 1, c + 1, u)

ReadView(imp) ==
    LET fb == ImportanceBuffer[imp]
    IN  Numbered(imp, SelectSeq(Chain(imp), LAMBDA e : e.imp = imp), 1, firstId[fb], firstTs[fb])

(***************************************************************************)
(* FetchEventsSince(imp) into a writer with room for budget units, from   *)
(* the subscriber's since[imp] on.  When that id is external, the slot's  *)
(* fetch callback (or, with none, the code itself) moves the id past the  *)
(* range; the platform's events are left out.  Otherwise the chain is     *)
(* copied by CopyEventsSince.  ioEventID becomes mCurrentEventID.         *)
(***************************************************************************)
\* Mutant: ioEventID is left at the last event copied instead of past it.
FetchEventsSince_ResumeAtLast(imp, budget) ==
    /\ pending = NoPending
    /\ LET fb == ImportanceBuffer[imp]
           k  == ExtOf(imp, since[imp])
           r  == CopyEventsSince(imp, Chain(imp), 1, firstId[fb], since[imp], firstTs[fb], TRUE, budget, <<>>)
       IN  IF k # 0
           THEN /\ since' = [since EXCEPT ![imp] = ext[fb][k].last + 1]
                /\ UNCHANGED delivered
           ELSE /\ since' = [since EXCEPT ![imp] = IF r.out = <<>> THEN r.cur ELSE r.cur - 1]
                /\ delivered' = [delivered EXCEPT ![imp] = @ \o r.out]
    /\ UNCHANGED <<logVars, throttled, pending, calls, vended, stamped>>

FetchEventsSince(imp, budget) ==
    /\ pending = NoPending
    /\ LET fb == ImportanceBuffer[imp]
           k  == ExtOf(imp, since[imp])
           r  == CopyEventsSince(imp, Chain(imp), 1, firstId[fb], since[imp], firstTs[fb], TRUE, budget, <<>>)
       IN  IF k # 0
           THEN /\ since' = [since EXCEPT ![imp] = ext[fb][k].last + 1]
                /\ UNCHANGED delivered
           ELSE /\ since' = [since EXCEPT ![imp] = r.cur]
                /\ delivered' = [delivered EXCEPT ![imp] = @ \o r.out]
    /\ UNCHANGED <<logVars, throttled, pending, calls, vended, stamped>>

Next ==
    \/ \E imp \in Importance, size \in Sizes, ts \in Times : LogEventBegin(imp, size, ts)
    \/ LogEventEnd
    \/ ThrottleLogger
    \/ UnthrottleLogger
    \/ \E imp \in Importance, n \in ExtCounts : RegisterEventCallbackForImportance(imp, n)
    \/ \E imp \in Importance, k \in Slots : UnregisterEventCallbackForImportance(imp, k)
    \/ \E imp \in Importance, budget \in FetchBudgets : FetchEventsSince(imp, budget)

Spec == Init /\ [][Next]_vars

--------------------------------------------------------------------------------
(***************************************************************************)
(* The log implements EventLogAbstract: the abstract log of a level is    *)
(* what its reader sees, without the event of a call that has written     *)
(* but not yet returned, and the next id is the level's counter.          *)
(***************************************************************************)
Visible(imp) ==
    LET v == ReadView(imp)
        w == IF pending # NoPending /\ pending.imp = imp THEN SubSeq(v, 1, Len(v) - 1) ELSE v
    IN  [k \in 1..Len(w) |-> [id |-> w[k].id, tag |-> w[k].tag, ts |-> w[k].ts]]

Abs == INSTANCE EventLogAbstract WITH
           CounterStart <- [i \in Importance |-> CounterStart[ImportanceBuffer[i]]],
           kept <- [i \in Importance |-> Visible(i)],
           next <- [i \in Importance |-> counter[ImportanceBuffer[i]]]

\* Every state change of LogEvent, eviction, promotion, throttling and
\* external-event registration is, seen through the readers, a logging of
\* the next id of a level with the caller's timestamp, a reservation of
\* the next ids, a discard of oldest events, or no change (spec P5, P7).
EventLogRefinement == Abs!Spec

(***************************************************************************)
(* The subscriber's reading of the records it fetched of a level: a record *)
(* with an id starts a fetch and carries its absolute time; a record       *)
(* without one is the next id, its time the previous time plus its delta.  *)
(***************************************************************************)
RECURSIVE DecodeFrom(_, _, _)
DecodeFrom(w, k, prev) ==
    IF k > Len(w) THEN <<>>
    ELSE LET r == IF w[k].id # NoId THEN [tag |-> w[k].tag, id |-> w[k].id, ts |-> w[k].ts]
                  ELSE [tag |-> w[k].tag, id |-> prev.id + 1, ts |-> prev.ts + w[k].ts]
         IN  <<r>> \o DecodeFrom(w, k + 1, r)

Decode(w) == DecodeFrom(w, 1, [tag |-> 1, id |-> NoId, ts |-> 0])

\* A subscriber that fetches with the ioEventID FetchEventsSince handed back
\* and numbers the records as CopyEvent writes them receives each event
\* under the id its LogEvent call returned, and the ids it receives of a
\* level strictly increase (spec P5).
SubscriberSeesVendedIds ==
    \A i \in Importance :
        LET d == Decode(delivered[i]) IN
        /\ \A k \in 1..Len(d) : d[k].id = vended[d[k].tag]
        /\ \A k \in 1..Len(d) - 1 : d[k].id < d[k + 1].id

\* The timestamps a subscriber rebuilds from a fetch (the absolute time of
\* the first record, then the deltas CopyEvent copies) are those the
\* LogEvent calls were given, across evictions that move
\* mFirstEventTimestamp, events skipped before ioEventID, and the reset of
\* mCurrentTime after each copy (spec P7).
SubscriberSeesLoggedTimes ==
    \A i \in Importance :
        LET d == Decode(delivered[i]) IN \A k \in 1..Len(d) : d[k].ts = stamped[d[k].tag]

================================================================================
