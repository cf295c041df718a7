CONSTANTS
    NumBuffers = 2
    Cap <- MC_Cap
    Sizes = {1, 2, 4}
    Times = {1, 2}
    ConfigImportance = 2
    CounterStart <- MC_CounterStart
    RESERVE = 1
    INCREMENT = 1
    MaxCalls = 3
    NumExt = 1
    ExtCounts = {2}
    MaxThrottle = 1
    FetchBudgets = {2}
    ConcurrentThrottle = FALSE
SPECIFICATION Spec
INVARIANT SubscriberSeesVendedIds
INVARIANT SubscriberSeesLoggedTimes
PROPERTY EventLogRefinement
