CONSTANTS
    Callers = {c1, c2}
    Worker = worker
    Free = free
    MaxCalls = 3
SPECIFICATION FairSpec
\* The worker waits for ever when nobody calls any more.
CHECK_DEADLOCK FALSE
INVARIANTS
    NothingLostOrReordered
    NoLostWakeup
PROPERTIES
    NothingBegunAfterAbort
    ImplementsExecutor
