SPECIFICATION Spec
CONSTANTS
    Cprocs = {main, p1, p2, p3}
    Main = main
    Threads = {t1, t2, t3}
    Limits = {0, 2, 3}
    MaxForks <- Forks
    Jobs = {1, 2, 3}
    None = None
CHECK_DEADLOCK FALSE
INVARIANT
    FreedOnce
PROPERTIES
    Implements
