SPECIFICATION Spec
CONSTANTS
    Objects = {o}
    Pages = {p1, p2}
    Blocks = {1}
    Threads = {t1, t2}
    None = None
    MaxUrefs = 1
    SeqnoModulus = 2
    Versions <- OneEach
    p1 = p1
    p2 = p2
    MaxQueue = 1
    MaxLives = 2
    MayFail = {TRUE}
    MayAbort = FALSE
    LateInitialize = FALSE
    SlowWriters = FALSE
VIEW View
CHECK_DEADLOCK FALSE
INVARIANTS
    TransfersEndFirst
    NoPanic
    BlocksExact
PROPERTY
    Implements
