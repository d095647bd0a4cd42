CONSTANTS
    NThreads = 3
    Programs = {"condvar", "polling", "multijoin", "incr", "incr_mutex", "once", "cleanup"}
    MaxSpurious = 1
    MaxUnits = 2
    Loops = 3
SPECIFICATION Spec
INVARIANTS
    TypeOK
    UnitsConserved
    ConsumedAtExit
    NoLostWakeup
    JoinsCounted
    CountedAtExit
    InitOnce
    CleanupLeavesFree
PROPERTIES
    ProgramsFinish
CHECK_DEADLOCK FALSE
