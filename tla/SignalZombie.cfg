CONSTANTS
    Programs = {"zombie"}
    NChildren = 1
    MaxSent = 0
    MaxRounds = 1
    MaxMsgs = 0
    PipeRoom = 1
SPECIFICATION Spec
INVARIANTS
    ZombieWhenViewed
CHECK_DEADLOCK FALSE
