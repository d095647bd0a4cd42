CONSTANTS
    c1 = c1
    Clients = {c1}
    Lens = {1}
    Servers = {"term"}
    MaxRuns = 2
    MaxStarts = 1
    MaxKills = 0
    MaxSignals = 1
    MaxBare = 0
SPECIFICATION Spec
PROPERTIES
    TermStops
CHECK_DEADLOCK FALSE
