CONSTANTS
    r1 = r1
    r2 = r2
    Readers = {r1, r2}
    NBytes = 3
    BufSize = 2
    Programs = {"svshm", "flags", "file", "posix"}
    SharedBy = {"svshm", "file", "posix"}
    MaxSessions = 2
    MaxKills = 2
SPECIFICATION Spec
INVARIANTS
    RemovalIsLast
    PrefixAcrossRestarts
    OneTurnAcrossRestarts
    TurnsAreSingle
CHECK_DEADLOCK FALSE
