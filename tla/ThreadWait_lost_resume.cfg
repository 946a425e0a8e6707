SPECIFICATION FairSpec
CONSTANTS
    Threads = {t1, t2, t3}
    t1 = t1
    t2 = t2
    t3 = t3
    NoThread = NoThread
    Events = {e}
    NoEvent = NoEvent
    NCPUS = 3
    MACH_ASSERT = FALSE
    Waiters = {}
    Suspenders = {t1, t2}
    Aborts <- Nobody
    MaxWork = 1
    MaxStops = 1
CHECK_DEADLOCK FALSE
PROPERTIES
    SuspendReturns
