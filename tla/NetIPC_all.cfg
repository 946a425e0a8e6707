SPECIFICATION Spec
CONSTANTS
    a = a
    b = b
    Nodes = {a, b}
    Load <- BothWays
    MaxPages <- OnePage
    Booted = {a, b}
    NetSize = 2
VIEW View
CHECK_DEADLOCK FALSE
INVARIANTS
    NoPanic
    Watched
PROPERTIES
    Implements
