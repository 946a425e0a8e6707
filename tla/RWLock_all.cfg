SPECIFICATION FairSpec
CONSTANTS
    Threads = {t1, t2, t3}
    NoThread = NoThread
    MaxWork = 4
    MaxNest = 1
    RecursiveAfterUpgrade = FALSE
INVARIANTS
    TypeOK
    MutualExclusion
    ReadCountExact
    NoLostWakeup
PROPERTIES
    Implements
    UpgradeCompletes
