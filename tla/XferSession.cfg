CONSTANTS
    r1 = r1
    Readers = {r1}
    NBytes = 4
    BufSize = 2
    Programs = {"svshm", "flags", "file", "posix"}
    SharedBy = {}
    MaxSessions = 1
    MaxKills = 0
SPECIFICATION Spec
INVARIANTS
    TypeOK
    TotalsAgree
PROPERTIES
    ImplementsBlockCopy
    TurnsFollowInit
    BothFinish
