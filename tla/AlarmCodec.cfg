\* Three condition slots, two condition bytes of different sources, the
\* remote-hush state, session ids and sequence numbers whose four bytes all
\* differ, and a buffer too small for two conditions beside one that fits.
\* The severity order is compared on alarms of up to two conditions (three
\* slots, AddAlarm leaving the last one empty) over smoke and CO in the
\* heads-up-1 and alarm-hushable states.
CONSTANTS
    kMaxNumAlarmConditions = 3
    CondValues = {49, 20}
    StateValues = {7}
    SessionIds = {1, 305419896}
    SeqNums = {291, 16909060}
    BufSizes = {12, 64}
    SeverityConds = {17, 20, 49, 52}
SPECIFICATION Spec
INVARIANT ParseOfPrefix
INVARIANT ReceivedSeverityAgrees
