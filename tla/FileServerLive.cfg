CONSTANTS
    Programs = {"svmsg", "guarded", "posix"}
    MaxRuns = 2
    Pids = {1}
    Sizes = {3}
    Chunk = 2
    QueueMsgs = 1
    ServerMsgs = 1
    MaxStarts = 1
    MaxFaults = 1
SPECIFICATION Spec
PROPERTIES
    ClientsEnd
    WorkersEnd
CHECK_DEADLOCK FALSE
