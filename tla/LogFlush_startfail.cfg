CONSTANTS
    Sizes = {1, 2}
    MaxBytes = 6
    Threshold = 2
    HasDest = TRUE
    WDM = FALSE
    ByteThreshold = 2
    MgrAtCreate = {FALSE, TRUE}
    Faults <- MC_StartFails
SPECIFICATION Spec

PROPERTY FlushEventuallyStarts
