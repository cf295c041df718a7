CONSTANTS
    kMaxNumAlarmConditions = 3
    Challenge <- MC_Challenge
    ProxCodes <- MC_ProxCodes
    KeyIds <- MC_KeyIds
    Keys <- MC_Keys
    KeySizes <- MC_KeySizes
    Results <- MC_Results
    CondLists <- MC_CondLists
    BufSizes <- MC_BufSizes
    RawResponses <- MC_RawResponses
SPECIFICATION Spec
INVARIANT TypeOK
INVARIANT RequestRoundTrip
INVARIANT ResponseRoundTrip
