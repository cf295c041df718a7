\* Two mock remotes, each started with the right or a wrong proximity code,
\* a peer sending bad requests, and every send, buffer and context fault.
CONSTANTS
    r1 = r1  r2 = r2  peer = peer
    deadbeef = deadbeef  otherProx = otherProx  key1 = key1  otherKey = otherKey
    Remotes <- MC_Remotes
    Peer <- peer
    PeerMsgs <- MC_PeerMsgs
    ProxCodes <- MC_ProxCodes
    OrigProx <- deadbeef
    HushKeys <- MC_HushKeys
    OrigKey <- key1
    Faults = {"ctx", "buf", "send"}
    kMaxNumAlarmConditions = 8
SPECIFICATION FairSpec
INVARIANT DelegateOpReleased
INVARIANT HushAuthenticated
INVARIANT HushReportedOnce
PROPERTY HushExchangeCloses
