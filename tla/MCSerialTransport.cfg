\* A ring of three slots that wraps around more than once.
CONSTANTS
    Capacity = 3
    Byte = {0, 1}
    MaxBytes = 7
SPECIFICATION FairSpec
INVARIANTS
    TypeOK
    NothingLost
PROPERTIES
    ImplementsQueue
    BytesWritten
