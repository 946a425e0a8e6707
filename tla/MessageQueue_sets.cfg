SPECIFICATION Spec
CONSTANTS
    Threads = {s1, r1}
    NoThread = NoThread
    Senders = {s1}
    Receivers = {r1}
    Ports = {p1, p2}
    NoPort = NoPort
    Psets = {ps1}
    NoPset = NoPset
    Messages = {m1, m2}
    NoMessage = NoMessage
    Large = {}
    MaxQlimit = 1
    QlimitDefault = 1
    Options = {"timed", "always"}
    SeqnoLimit = 2
SYMMETRY Symmetry
VIEW View
CHECK_DEADLOCK FALSE
INVARIANTS
    QueueInv
    MessagesWhereReceived
    MsgcountExact
PROPERTIES
    Implements
