CONSTANTS
    Programs = {"svmsg", "daemon", "guarded", "posix"}
    MaxRuns = 2
    Pids = {1, 2}
    Sizes = {0, 3}
    Chunk = 2
    QueueMsgs = 1
    ServerMsgs = 1
    MaxStarts = 2
    MaxFaults = 1
SPECIFICATION Spec
INVARIANTS
    OwnBlocksInOrder
    WholeFileReported
    DeniedByTimeout
CHECK_DEADLOCK FALSE
