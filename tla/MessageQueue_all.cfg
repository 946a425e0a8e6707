SPECIFICATION Spec
CONSTANTS
    Threads = {r1, s1, s2}
    NoThread = NoThread
    Senders = {s1, s2}
    Receivers = {s2, r1}
    Ports = {p1}
    NoPort = NoPort
    Psets = {ps1}
    NoPset = NoPset
    Messages = {m1, m2}
    NoMessage = NoMessage
    Large = {m2}
    MaxQlimit = 1
    QlimitDefault = 1
    Options = {"timed", "always"}
    SeqnoLimit = 2
SYMMETRY Symmetry
VIEW View
CHECK_DEADLOCK FALSE
INVARIANTS
    MessagesWhereReceived
    MsgcountExact
    EachMessageOnce
    FreeSlotsPromised
    NoMessagePassedOver
    WaitersListed
PROPERTIES
    Implements
