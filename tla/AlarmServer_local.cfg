\* One pool slot held by a local alarm, one remote originator whose alarms
\* compete for it; every resource failure possible except the secure RNG.
CONSTANTS
    Clients = {1}
    Self <- MC_Self
    Remotes = {2}
    Sessions = {s1, s2}
    NoSession = NoSession
    AlarmStates <- MC_AlarmStates
    SevRank <- MC_SevRank
    SnBits = 3
    CtrBits = 2
    RemoteSn = {1}
    MaxLocal = 1
    RefreshMsec = 30000
    GraceMsec = 30000
    MaxHops = 4
    Faults = {"buf", "ctx", "send", "timer"}
SPECIFICATION FairSpec
INVARIANT TypeOK
INVARIANT SentCounterCoupling
INVARIANT TimersMatchState
PROPERTY SessionSnMonotonic
PROPERTY LocalClosedOnlyByApp
PROPERTY RemoteSessionsExpire
