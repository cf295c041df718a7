CONSTANTS
    Sizes = {1, 2}
    MaxBytes = 6
    Threshold = 2
    HasDest = TRUE
    WDM = TRUE
    ByteThreshold = 2
    MgrAtCreate = {FALSE, TRUE}
    Faults <- MC_Faults
SPECIFICATION Spec
INVARIANT WakeupPending
PROPERTY FlushEventuallyStarts
PROPERTY RequestEventuallyServed
