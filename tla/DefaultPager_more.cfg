SPECIFICATION Spec
CONSTANTS
    Objects = {o}
    Pages = {p1, p2}
    Blocks = {1}
    Threads = {t1, t2}
    None = None
    MaxUrefs = 1
    SeqnoModulus = 2
    Versions <- OneEach
    p1 = p1
    p2 = p2
    MaxQueue = 1
    MaxLives = 2
    MayFail = {TRUE}
    MayAbort = TRUE
    LateInitialize = TRUE
    SlowWriters = TRUE
VIEW View
CHECK_DEADLOCK FALSE
INVARIANTS
    PagerInv
