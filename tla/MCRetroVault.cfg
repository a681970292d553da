SPECIFICATION FairSpec
CONSTANTS
    Ends <- EndsOf
    Lower <- LowerOf
    Words <- WordsOf
    SafeTexts <- Safe
    Null = Null
    Wrong = Wrong
    Bad = Bad
    CursorEnd = 12
    RecordMax = 15
    IdMax = 1
    LabelMax = 3
    FormatMax = 1
    YearMax = 9
    CountMax = 2
    SizeUnknown = 15
    Word64 = 256
    PathMax = 9
    Documents <- SomeDocuments
    Lengths <- FileLengths
    Walks <- SomeWalks
    OtherRequests <- SomeOthers
    Rooms = {13}
    DataMax = 2
    Results = {"ok", "error", "too_large"}
    Codes = {200, 404, 409}
    CacheSeconds = 1
    Start = 10
    MaxTicks = 1
    MaxEvents = 2
INVARIANTS TypeOK WalkComplete DownloadIntact Fresh
PROPERTY WalksEnd
