SPECIFICATION Spec
CONSTANTS
    Threads = {t1, t2}
    t1 = t1
    t2 = t2
    t3 = t3
    NoThread = NoThread
    Events = {e}
    NoEvent = NoEvent
    NCPUS = 2
    MACH_ASSERT = FALSE
    Waiters = {t1, t2}
    Suspenders = {t1, t2}
    Aborts <- Everybody
    MaxWork = 1
    MaxStops = 2
VIEW View
CONSTRAINT BeforeUnheldHalt
CHECK_DEADLOCK FALSE
INVARIANTS
    StateMatchesQueues
    HoldsBalanced
    NotWaitingWhenForced
