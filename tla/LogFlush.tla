------------------------------ MODULE LogFlush ------------------------------
(***************************************************************************)
(* The offload scheduling of LoggingManagement (LoggingManagement.cpp,     *)
(* ScheduleFlushIfNeeded, FlushHandler, SignalUploadDone), with the BDX    *)
(* offload path compiled in.  Producers on any thread log events and call  *)
(* ScheduleFlushIfNeeded, which sets mUploadRequested by compare-and-swap  *)
(* and posts LoggingFlushHandler to the Weave thread.  The Weave thread    *)
(* runs the handler from that work item or from its timer, and the BDX     *)
(* uploader reports a finished upload with SignalUploadDone.  The event    *)
(* store itself is EventLog; here a logged event is the bytes it adds to   *)
(* mBytesWritten.  With WDM the WDM offload path is compiled in as well:   *)
(* the Idle case also runs the notification engine, which moves the       *)
(* subscribers' least log position, and clears mUploadRequested.          *)
(***************************************************************************)
EXTENDS Naturals

CONSTANTS Sizes,        \* encoded lengths an event may have
          MaxBytes,     \* bound on mBytesWritten
          Threshold,    \* LoggingConfiguration::mUploadThreshold
          HasDest,      \* a destination node is configured
          WDM,          \* WEAVE_CONFIG_EVENT_LOGGING_WDM_OFFLOAD
          ByteThreshold,\* WEAVE_CONFIG_EVENT_LOGGING_BYTE_THRESHOLD
          MgrAtCreate,  \* subset of BOOLEAN: inMgr # NULL at CreateLoggingManagement
          Faults        \* subset of {"start", "timer", "work"}: calls that may fail

VARIABLES state,            \* mState
          uploadRequested,  \* mUploadRequested
          bytesWritten,     \* mBytesWritten
          work,             \* LoggingFlushHandler work items posted, not yet run
          timer,            \* the LoggingFlushHandler timer is armed
          uploading,        \* the uploader has a started upload it has not finished
          uploader,         \* mBDXUploader # NULL
          pos,              \* mBDXUploader->GetUploadPosition()
          weave,            \* "holdoff": the Weave thread is inside the Holdoff case
          mgr,              \* mExchangeMgr # NULL
          subPos            \* the subscribers' least log position (GetMinEventLogPosition)

vars == <<state, uploadRequested, bytesWritten, work, timer, uploading, uploader, pos, weave,
          mgr, subPos>>

States == {"Idle", "InProgress", "Holdoff", "Shutdown"}

TypeOK ==
    /\ state \in States
    /\ uploadRequested \in BOOLEAN
    /\ bytesWritten \in 0..MaxBytes
    /\ work \in Nat
    /\ timer \in BOOLEAN
    /\ uploading \in BOOLEAN
    /\ uploader \in BOOLEAN
    /\ pos \in 0..MaxBytes
    /\ weave \in {"free", "holdoff"}
    /\ mgr \in BOOLEAN
    /\ subPos \in 0..MaxBytes

\* The constructor: Idle, no uploader, nothing requested, nothing written;
\* the exchange manager is the one the caller passed, possibly NULL.
Init ==
    /\ state = "Idle"
    /\ uploadRequested = FALSE
    /\ bytesWritten = 0
    /\ work = 0
    /\ timer = FALSE
    /\ uploading = FALSE
    /\ uploader = FALSE
    /\ pos = 0
    /\ weave = "free"
    /\ mgr \in MgrAtCreate
    /\ subPos = 0

\* System::Layer::StartTimer of LoggingFlushHandler, with the timer armed
\* or not (armed) before the call.  A second start of the same callback
\* replaces the first; a failure is ignored by every caller.
StartTimer(armed) ==
    \/ timer' = TRUE
    \/ "timer" \in Faults /\ timer' = armed

CheckShouldRunBDX(bw) == uploader /\ bw - pos > Threshold

CheckShouldRunWDM(bw) == WDM /\ subPos + ByteThreshold < bw

\* ScheduleFlushIfNeeded(inRequestFlush), with mUploadRequested equal to
\* flag and q work items queued when it starts.  The compare-and-swap is
\* atomic; ScheduleWork's error is ignored.  With no exchange manager the
\* flag is set and cleared again (WEAVE_ERROR_INCORRECT_STATE).
ScheduleFlushIfNeeded(flag, inRequestFlush, bw, q) ==
    IF (inRequestFlush \/ CheckShouldRunBDX(bw) \/ CheckShouldRunWDM(bw)) /\ ~flag /\ mgr
    THEN /\ uploadRequested' = TRUE
         /\ \/ work' = q + 1
            \/ "work" \in Faults /\ work' = q
    ELSE /\ uploadRequested' = flag
         /\ work' = q

\* LogEvent of an event of the given size that is written and given an id:
\* mBytesWritten grows by the bytes written and the flush is scheduled,
\* urgently if the caller's options say so.  After DestroyLoggingManagement
\* LogEvent returns at once.
LogEvent(size, urgent) ==
    /\ state # "Shutdown"
    /\ bytesWritten + size <= MaxBytes
    /\ bytesWritten' = bytesWritten + size
    /\ ScheduleFlushIfNeeded(uploadRequested, urgent, bytesWritten + size, work)
    /\ UNCHANGED <<state, timer, uploading, uploader, pos, weave, mgr, subPos>>

\* SetBDXUploader: the first uploader set is kept, a later one refused.
SetBDXUploader ==
    /\ ~uploader
    /\ uploader' = TRUE
    /\ UNCHANGED <<state, uploadRequested, bytesWritten, work, timer, uploading, pos, weave,
                   mgr, subPos>>

\* SetExchangeManager, with a manager.
SetExchangeManager ==
    /\ mgr' = TRUE
    /\ UNCHANGED <<state, uploadRequested, bytesWritten, work, timer, uploading, uploader,
                   pos, weave, subPos>>

\* DestroyLoggingManagement.
DestroyLoggingManagement ==
    /\ state' = "Shutdown"
    /\ UNCHANGED <<uploadRequested, bytesWritten, work, timer, uploading, uploader, pos, weave,
                   mgr, subPos>>

\* Mutant: the WDM part of the Idle case leaves mUploadRequested set.
IdleCase_KeepRequested(armed, q) ==
    /\ IF uploader /\ HasDest
       THEN /\ state' = "InProgress"
            /\ \/ uploading' = TRUE
               \/ "start" \in Faults /\ UNCHANGED uploading
            /\ timer' = armed
       ELSE /\ IF mgr THEN StartTimer(armed) ELSE timer' = armed
            /\ UNCHANGED <<state, uploading>>
    /\ IF WDM /\ mgr
       THEN subPos' \in subPos..bytesWritten
       ELSE UNCHANGED subPos
    /\ UNCHANGED uploadRequested
    /\ work' = q
    /\ UNCHANGED weave

\* The Idle case of FlushHandler, with the timer armed or not (armed) and
\* q work items queued.  With an uploader and a destination the state
\* becomes InProgress and the upload starts (its error only logged);
\* otherwise the timer is armed for the maximum interval.  The WDM part
\* then runs the notification engine and clears mUploadRequested.
IdleCase(armed, q) ==
    /\ IF uploader /\ HasDest
       THEN /\ state' = "InProgress"
            /\ \/ uploading' = TRUE
               \/ "start" \in Faults /\ UNCHANGED uploading
            /\ timer' = armed
       ELSE /\ IF mgr THEN StartTimer(armed) ELSE timer' = armed
            /\ UNCHANGED <<state, uploading>>
    /\ IF WDM /\ mgr
       THEN /\ subPos' \in subPos..bytesWritten
            /\ uploadRequested' = FALSE
       ELSE UNCHANGED <<subPos, uploadRequested>>
    /\ work' = q
    /\ UNCHANGED weave

\* Mutant: the Holdoff case leaves mUploadRequested as it found it.
HoldoffCase_KeepRequested(armed, q) ==
    /\ state' = "Idle"
    /\ ScheduleFlushIfNeeded(uploadRequested, FALSE, bytesWritten, q)
    /\ weave' = "holdoff"
    /\ timer' = armed
    /\ UNCHANGED <<uploading, subPos>>

\* The Holdoff case up to its check of mUploadRequested (HoldoffCheck):
\* Idle again, the flag cleared and the flush scheduled if needed.
HoldoffCase(armed, q) ==
    /\ state' = "Idle"
    /\ ScheduleFlushIfNeeded(FALSE, FALSE, bytesWritten, q)
    /\ weave' = "holdoff"
    /\ timer' = armed
    /\ UNCHANGED <<uploading, subPos>>

\* FlushHandler, with the timer armed or not (armed) and q work items
\* queued when it starts; InProgress and Shutdown do nothing.
FlushHandler(armed, q) ==
    CASE state = "Idle"    -> IdleCase(armed, q)
      [] state = "Holdoff" -> HoldoffCase(armed, q)
      [] OTHER ->
            /\ timer' = armed
            /\ work' = q
            /\ UNCHANGED <<state, uploadRequested, uploading, weave, subPos>>

\* The Weave thread runs a posted LoggingFlushHandler work item.
RunWork ==
    /\ weave = "free"
    /\ work > 0
    /\ FlushHandler(timer, work - 1)
    /\ UNCHANGED <<bytesWritten, uploader, pos, mgr>>

\* The LoggingFlushHandler timer fires on the Weave thread.
TimerFires ==
    /\ weave = "free"
    /\ timer
    /\ FlushHandler(FALSE, work)
    /\ UNCHANGED <<bytesWritten, uploader, pos, mgr>>

\* The end of FlushHandler's Holdoff case: with no flush requested by now,
\* the timer is armed for the maximum upload interval.  A producer may
\* have run ScheduleFlushIfNeeded since the case began.
HoldoffCheck ==
    /\ weave = "holdoff"
    /\ weave' = "free"
    /\ IF ~uploadRequested /\ mgr THEN StartTimer(timer) ELSE UNCHANGED timer
    /\ UNCHANGED <<state, uploadRequested, bytesWritten, work, uploading, uploader, pos,
                   mgr, subPos>>

\* Mutant: SignalUploadDone enters Holdoff without arming the timer.
SignalUploadDone_NoTimer ==
    /\ weave = "free"
    /\ uploading
    /\ uploading' = FALSE
    /\ pos' \in pos..bytesWritten
    /\ IF state = "InProgress"
       THEN state' = "Holdoff" /\ UNCHANGED timer
       ELSE UNCHANGED <<state, timer>>
    /\ UNCHANGED <<uploadRequested, bytesWritten, work, uploader, weave, mgr, subPos>>

\* The uploader finishes a started upload, having offloaded the log up to
\* some position, and calls SignalUploadDone on the Weave thread, which
\* moves InProgress to Holdoff and arms the minimum-interval timer.
SignalUploadDone ==
    /\ weave = "free"
    /\ uploading
    /\ uploading' = FALSE
    /\ pos' \in pos..bytesWritten
    /\ IF state = "InProgress"
       THEN state' = "Holdoff" /\ (IF mgr THEN StartTimer(timer) ELSE UNCHANGED timer)
       ELSE UNCHANGED <<state, timer>>
    /\ UNCHANGED <<uploadRequested, bytesWritten, work, uploader, weave, mgr, subPos>>

Next ==
    \/ \E size \in Sizes, urgent \in BOOLEAN : LogEvent(size, urgent)
    \/ SetBDXUploader
    \/ SetExchangeManager
    \/ DestroyLoggingManagement
    \/ RunWork
    \/ TimerFires
    \/ HoldoffCheck
    \/ SignalUploadDone

\* The Weave thread runs every work item it is posted and every timer that
\* expires, finishes the handler it is in, and the uploader finishes an
\* upload it has started.  Producers, the application setting the uploader
\* and shutdown need never act.
Fairness ==
    /\ WF_vars(RunWork)
    /\ WF_vars(TimerFires)
    /\ WF_vars(HoldoffCheck)
    /\ WF_vars(SignalUploadDone)

Spec == Init /\ [][Next]_vars /\ Fairness

-----------------------------------------------------------------------------
\* Whenever the Weave thread is between handlers, the flush state machine
\* still has a way forward: Holdoff has its timer or a work item pending,
\* Idle with mUploadRequested set has one too (no producer can post another
\* while the flag is set), and InProgress has an upload that will call
\* SignalUploadDone.  This is about FlushHandler, ScheduleFlushIfNeeded and
\* SignalUploadDone together: a missed reset of mUploadRequested or a
\* missed timer leaves the log with no flush ever again.
WakeupPending ==
    weave = "free" =>
        /\ state = "Holdoff" => timer \/ work > 0
        /\ state = "Idle" /\ uploadRequested => timer \/ work > 0
        /\ state = "InProgress" => uploading

\* Once ScheduleFlushIfNeeded has raised mUploadRequested (the byte
\* threshold past the uploader's position was crossed, or a caller asked
\* for an urgent flush) and an uploader is set, an upload is eventually
\* running, unless the logger is shut down (spec 4.6).
FlushEventuallyStarts ==
    uploadRequested /\ uploader /\ state # "Shutdown"
        ~> uploading \/ state = "Shutdown"

\* With the WDM offload path compiled in, a raised mUploadRequested is
\* eventually cleared by FlushHandler (the Idle case, once it has run the
\* notification engine, or the Holdoff case), unless the logger is shut
\* down.  While the flag stays set every compare-and-swap of
\* ScheduleFlushIfNeeded fails, so no producer can schedule a flush.
RequestEventuallyServed ==
    uploadRequested /\ state # "Shutdown" ~> ~uploadRequested \/ state = "Shutdown"

====
