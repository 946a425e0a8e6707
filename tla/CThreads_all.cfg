SPECIFICATION Spec
CONSTANTS
    Cprocs = {p1, p2, p3}
    Waiters = {w1, w2}
    KernelThreads = {k1, k2}
    Mutexes = {m}
    Conditions = {c}
    None = None
    Main = p1
    MaxKernelThreads = 2
    QLimit = 5
    MayWire = TRUE
SYMMETRY Symmetry
CHECK_DEADLOCK FALSE
INVARIANTS
    OneThreadPerStack
    LockedMutexIsHeld
    EachCprocInOnePlace
    CountsExact
    MutexWaitersHaveWaker
    NothingLeftReady
