\* A termination signal delivered twice.
CONSTANTS
    MaxPort = 2
    DefaultSystem = "sys"
    Numbers <- NumberOf
    LongWords = {"long"}
    PayloadMin = 7
    PayloadMax = 8
    PayloadDefault = 8
    IntRange = 256
    NULL = NULL
    Libraries = {"sys", "both", "nostart", "nostop"}
    WithStart = {"sys", "both", "nostop"}
    WithStop = {"sys", "both", "nostart"}
    Files <- SerialFile
SPECIFICATION Spec
INVARIANT
    TeardownNotCutShort
