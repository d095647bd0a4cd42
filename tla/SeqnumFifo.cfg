CONSTANTS
    c1 = c1
    c2 = c2
    Clients = {c1, c2}
    Lens = {2, 1000}
    Servers = {"plain", "saved", "term"}
    MaxRuns = 3
    MaxStarts = 2
    MaxKills = 1
    MaxSignals = 1
    MaxBare = 1
SPECIFICATION Spec
INVARIANTS
    NumbersAreUnique
    ReplyFitsRequest
PROPERTIES
    ImplementsNumberService
    ClientsServed
CHECK_DEADLOCK FALSE
