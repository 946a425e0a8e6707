SPECIFICATION Spec
CONSTANTS
    Threads = {r1, s1}
    NoThread = NoThread
    Senders = {s1}
    Receivers = {r1}
    Ports = {p1}
    NoPort = NoPort
    Psets = {ps1}
    NoPset = NoPset
    Messages = {m1}
    NoMessage = NoMessage
    Large = {}
    MaxQlimit = 1
    QlimitDefault = 1
    Options = {"timed", "poll", "always"}
    SeqnoLimit = 2
SYMMETRY Symmetry
CHECK_DEADLOCK FALSE
INVARIANTS
    NoPanic
