CONSTANTS
    Programs = {"sync", "both", "zombie", "pingpong", "quit", "rtsigs", "rtdone", "fetch", "reap", "system", "notify", "sigwait",
                "selfpipe", "pollpipe", "sigio"}
    NChildren = 3
    MaxSent = 3
    MaxRounds = 3
    MaxMsgs = 4
    PipeRoom = 1
SPECIFICATION Spec
INVARIANTS
    NobodyGoesEarly
    NoMissedNotice
    SystemReturnsStatus
PROPERTIES
    ProgramsEnd
CHECK_DEADLOCK FALSE
