SPECIFICATION MCSpec
CONSTANTS
    RxMax = 2
    Shapes <- MCShapes
    MaxMsgs = 2
    MaxFaults = 2
    MaxOrders = 1
    BackoffMax = 3
    Kinds = {"text", "stranger", "anonymous", "other"}
    MaxUpdates = 3
    MaxRestarts = 2
INVARIANTS
    NoSplice
    NothingMissed
    HandledOnce
PROPERTIES
    InboxKept
    DiscordReconnects
    LaterHandled
\* Both channels may have nothing left to do.
CHECK_DEADLOCK FALSE
