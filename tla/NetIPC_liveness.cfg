SPECIFICATION FairSpec
CONSTANTS
    a = a
    b = b
    Nodes = {a, b}
    Load <- OneWay
    MaxPages <- OnePage
    Booted = {a}
    NetSize = 2
CHECK_DEADLOCK FALSE
PROPERTY EverythingArrives
