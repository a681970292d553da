\* Nobody changes the directories.
CONSTANTS
    a = a
    b = b
    c = c
    huge = huge
    Names = {a, b, c, huge}
    Size <- Sizes
    RecordMax = 4
    PageSpace = 4
    CursorEnd = 7
    Batch = 2
    Root = root
    Subdirectories = {sub}
    Directories <- Ordinary
    MaxChanges = 0
SPECIFICATION Spec
INVARIANT
    RootListed
