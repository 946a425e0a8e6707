SPECIFICATION Spec
CONSTANTS
    Objects = {o}
    Pages = {p1}
    Blocks = {1}
    Threads = {t1, t2}
    None = None
    MaxUrefs = 1
    SeqnoModulus = 2
    Versions <- TwoOfOne
    p1 = p1
    p2 = p2
    MaxQueue = 1
    MaxLives = 2
    MayFail = {}
    MayAbort = FALSE
    LateInitialize = FALSE
    SlowWriters = TRUE
VIEW View
CHECK_DEADLOCK FALSE
INVARIANTS
    NeverStale
