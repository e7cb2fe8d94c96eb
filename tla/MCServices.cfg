SPECIFICATION MCSpec
CONSTANTS
    Keep = 1
    CollectCap = 2
    MaxKeys = 4
    MaxTime = 2
    MaxChmods = 1
    Urns = {"u"}
    Bases = {"b1", "b2"}
    Urls = {"r1", "r2"}
    Ttl = 2
    MaxChanges = 2
    MaxClock = 3
    Documents <- MCDocuments
    Lists <- MCLists
    Arguments <- MCArguments
    Responses <- MCResponses
    Ips = {"i", "j", "k"}
    LockSlots = 2
    MaxFails = 2
    RateSlots = 2
    Rpm = 2
    Window = 2
    TokenCap = 2
    MaxNow = 4
    MaxTokens = 3
    MaxCrashes = 2
    MaxOwner = 3
    Requests <- MCRequests
    BufSize = 3
    BodyMax = 5
    ChunkSize = 2
    AnswerLens = {1, 3}
    FileLen = 3
    MaxRequests = 3
    MaxRuns = 2
    MaxText = 7
    MaxBytes = 3
    Attempts = 3
    Asked = {0, 1, 9}
    BaseWait = 1
    LeastWait = 1
    WaitCap = 3
    Countries = {"A", "B"}
    Holidays <- MCHolidays
    DayLen = 2
    YearLen = 2
    WxTtl = 1
    HyTtl = 3
    MaxCtxTime = 4
    Names = {"s", "t"}
    EditMax = 2
    AnswerMax = 3
    CacheMax = 3
    Size <- MCSize
    JsonSize <- MCJson
    MaxEdits = 4
    Unit = 4
    Fine = 2
    Files <- MCFiles
    Saves <- MCSaves
    MaxSaves = 2
INVARIANTS
    SignsMatching
    PublishedKept
    NeverToRevoked
    AddressCurrent
    ThrottleHolds
    TokensKept
    OneWholeDispatch
    NothingLeft
    ReplyWhole
    ContextRight
    CacheFresh
    NeverCut
PROPERTIES
    PatchRight
\* Every part does a bounded number of things.
CHECK_DEADLOCK FALSE
