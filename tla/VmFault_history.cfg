SPECIFICATION Spec
CONSTANTS
    Maps = {m1, m2, m3}
    Threads = {t1}
    MaxObject = 3
    MaxWrites = 2
    MaxForks = 3
    None = None
    MaxPageOuts = 0
    MaxActors = 1
    MACH_PAGEMAP = TRUE
    SlowWakeups = FALSE
    Multiprocessor = FALSE
    ReuseAtOnce = FALSE
SYMMETRY Symmetry
CHECK_DEADLOCK FALSE
INVARIANTS
    CountsExact
PROPERTY
    Implements
