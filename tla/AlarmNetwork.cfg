\* One pool slot per node, so that an old session of the originator held by
\* the relay competes with its new one; two session ids; a 2-bit sequence
\* number with a 1-bit counter, so sessions renew after two sends; two
\* messages on air, enough for a copy of an old session to outlive the new
\* one; no resource faults (each is checked on one node in AlarmServer).
\* No symmetry: it is unsound with liveness.
CONSTANTS
    Clients = {1}
    Sessions = {s1, s2}
    NoSession = NoSession
    AlarmStates <- MC_AlarmStates
    SevRank <- MC_SevRank
    SnBits = 2
    CtrBits = 1
    RefreshMsec = 30000
    GraceMsec = 30000
    MaxHops = 4
    Faults = {}
    OrigId = 1
    RelayId = 2
    NetCap = 2
SPECIFICATION FairSpec
PROPERTY AlarmReachesRelay
