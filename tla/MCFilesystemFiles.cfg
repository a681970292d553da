SPECIFICATION FairSpec
CONSTANTS
    Inodes <- InodeSet
    Names = {"a", "b"}
    Root = "root"
    Outside = "outside"
    Trees <- SmallTrees
    Paths <- SomePaths
    Moves <- SomeMoves
    Writes <- SomeWrites
    Contents <- Rewrites
    ReadMax = 2
    SizeMax = 3
    Source <- Bytes3
    WriteMax = 3
    Target <- AB
    MaxChanges = 2
    MaxCalls = 1
    MaxLosses = 1
INVARIANTS TypeOK ActsOnPaths Confined Transferred
PROPERTY TransfersEnd
CHECK_DEADLOCK FALSE
