CONSTANTS
    r1 = r1
    r2 = r2
    Readers = {r1, r2}
    NBytes = 2
    BufSize = 1
    Programs = {"flags"}
    SharedBy = {"flags"}
    MaxSessions = 1
    MaxKills = 0
SPECIFICATION Spec
INVARIANTS
    OneTurn
CHECK_DEADLOCK FALSE
