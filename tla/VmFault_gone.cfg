SPECIFICATION Spec
CONSTANTS
    Maps = {m1, m2, m3}
    Threads = {t1, t2}
    MaxObject = 3
    MaxWrites = 1
    MaxForks = 2
    None = None
    MaxPageOuts = 0
    MaxActors = 2
    MACH_PAGEMAP = TRUE
    SlowWakeups = FALSE
    Multiprocessor = FALSE
    ReuseAtOnce = FALSE
SYMMETRY Symmetry
CHECK_DEADLOCK FALSE
INVARIANTS
    DeletedIsUnmapped
