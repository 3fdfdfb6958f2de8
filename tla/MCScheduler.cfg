SPECIFICATION FairSpec
CONSTANTS
    None = None
    Threads = {t1, t2}
    Coros = {c1, c2}
    Delays = {1, 3}
    TicksPerMs = 2
    DefaultMs = 1
    IntSpan = 256
    MaxTime = 3
    MaxOps = 3
INVARIANTS NoLostWakeup NoEarlyTimer Conservation
PROPERTIES EveryCoroutineRuns StopEndsRun
CHECK_DEADLOCK FALSE
