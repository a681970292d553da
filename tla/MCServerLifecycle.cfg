\* All small files, both transports, every failure; a client connects
\* or accept fails.
CONSTANTS
    MaxPort = 3
    DefaultSystem = "sys"
    Numbers <- NumberOf
    LongWords = {"long"}
    PayloadMin = 7
    PayloadMax = 8
    PayloadDefault = 8
    IntRange = 256
    NULL = NULL
    Libraries = {"sys", "both", "nostart", "nostop"}
    WithStart = {"sys", "both", "nostop"}
    WithStop = {"sys", "both", "nostart"}
    Files <- SmallFiles
SPECIFICATION ConnectedSpec
INVARIANTS
    TypeOK
    HandlesBalanced
    RegistryMatchesLoader
    StopsMirrorStarts
    CleanExit
    RunsTheFile
PROPERTY
    SignalEndsServer
