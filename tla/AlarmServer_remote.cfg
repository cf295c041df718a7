\* Two pool slots, two remote originators besides this node, two sessions
\* and two sequence numbers each (v1 alarms from one originator): enough for a full pool, eviction by
\* severity and by node id, stale and newer alarms, and v1 counters
\* inside and outside the forward window.  Every resource may fail.
CONSTANTS
    Clients = {1, 2}
    Self <- MC_Self
    Remotes <- MC_Remotes
    Sessions = {s1, s2}
    NoSession = NoSession
    AlarmStates <- MC_AlarmStates
    SevRank <- MC_SevRank
    SnBits = 3
    CtrBits = 2
    RemoteSn = {1, 2}
    MaxLocal = 0
    RefreshMsec = 30000
    GraceMsec = 30000
    MaxHops = 4
    Faults = {"buf", "ctx", "send", "timer"}
    Msgs <- MC_RemoteMsgs
SPECIFICATION Spec
SYMMETRY SessionSymmetry
INVARIANT AdmissionSafety
INVARIANT RemoteSessionsUnique
INVARIANT TimersMatchState
PROPERTY RemoteSessionProgress
