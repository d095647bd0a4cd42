CONSTANTS
    r1 = r1
    Reader = r1
    Readers = {r1}
    NBytes = 6
    BufSize = 3
SPECIFICATION Spec
INVARIANTS
    TypeOK
    OutputIsPrefix
    ExitAfterAllWritten
PROPERTIES
    ImplementsBlockCopy
    EventuallyExits
