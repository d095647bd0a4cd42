CONSTANTS
    Programs = {"msgq", "pmsg", "unix", "inet", "inetbuf", "inetlib",
                "ucase", "i6ucase", "usxfr", "abstract", "epoll",
                "simple", "sync", "lswc", "double",
                "test0", "test1", "glob", "popen", "relay", "script",
                "goodinit", "semwait", "line", "linebuf"}
    Runs = {c1, c2, c3}
    MaxFaults = 1
    Pids = {p1, p2}
    Lengths = {0, 2}
    QueueMax = 2
    MaxFds = 1
    NoOne = NoOne
    EchoMsgs = 2
    EchoQueue = 2
    LongMsgs = {2}
    Pollers = {d1, d2}
    PollMsgs = 2
    MaxEvents = 3
    NKids = 3
    PipeItems = 2
    PipeCap = 1
    NQueues = 2
    RelayMsgs = 3
    RelayCap = 3
    TypedMax = 4
    PtyCap = 1
    SemMax = 1
    SemTries = 2
    InputMax = 4
    SizeMax = 3
    LineBufMax = 2
SPECIFICATION Spec
INVARIANTS
    NumbersInOrder
    DataWhole
    WaitedFor

    
CHECK_DEADLOCK FALSE
