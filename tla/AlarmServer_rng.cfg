\* A local alarm the application keeps sending, with an RNG that may
\* fail and eventually works; no remote traffic.
CONSTANTS
    Clients = {1}
    Self <- MC_Self
    Remotes = {2}
    Sessions = {s1, s2}
    NoSession = NoSession
    AlarmStates <- MC_AlarmStates
    SevRank <- MC_SevRank
    SnBits = 3
    CtrBits = 2
    RemoteSn = {1}
    MaxLocal = 1
    RefreshMsec = 30000
    GraceMsec = 30000
    MaxHops = 4
    Faults = {"rng"}
    Msgs <- MC_NoMsgs
SPECIFICATION RetrySpec
PROPERTY LocalAlarmEventuallySent
