\* One subdirectory and the root, pages of one to three entries.
CONSTANTS
    a = a
    b = b
    c = c
    huge = huge
    Names = {a, b, c, huge}
    Size <- Sizes
    RecordMax = 4
    PageSpace = 4
    CursorEnd = 3
    Batch = 2
    Root = root
    Subdirectories = {sub}
    Directories <- Small
    MaxChanges = 1
SPECIFICATION FairSpec
INVARIANTS
    TypeOK
    SubdirectoriesListed
PROPERTY
    WalksEnd
