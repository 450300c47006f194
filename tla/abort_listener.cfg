SPECIFICATION FairSpec
CONSTANTS
    e1 = e1  e2 = e2
    t1 = t1  t2 = t2
    NoEvent = NoEvent
    NoReader = NoReader
    Event = {e1, e2}
    Reader = {t1, t2}
    MaxCalls = 5
    MaxLines = 2
\* Nobody has to call or to type.
CHECK_DEADLOCK FALSE
INVARIANTS
    SingleReader
PROPERTIES
    NoLateAbort
    AbortDelivered
