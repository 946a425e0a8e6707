SPECIFICATION Spec
CONSTANTS
    Threads = {t1, t2}
    t1 = t1
    t2 = t2
    t3 = t3
    NoThread = NoThread
    Events = {e}
    NoEvent = NoEvent
    NCPUS = 2
    MACH_ASSERT = TRUE
    Waiters = {t1, t2}
    Suspenders = {}
    Aborts <- Nobody
    MaxWork = 1
    MaxStops = 1
CHECK_DEADLOCK FALSE
INVARIANTS
    TimeoutAssertion
