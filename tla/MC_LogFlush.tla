----------------------------- MODULE MC_LogFlush -----------------------------
EXTENDS LogFlush, TLC

\* Work items are bounded by the events logged, which MaxBytes bounds.
MC_Faults == {}

\* StartUpload may return an error.
MC_StartFails == {"start"}

=============================================================================
