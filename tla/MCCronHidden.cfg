SPECIFICATION LoopSpec
CONSTANTS
    MaxJobs = 2
    OfferTrack = 2
    Window = 1
    MaxLate = 1
    Period = 1
    Snooze = 2
    MaxCreates = 2
    MaxRestarts = 0
    ExplicitIds = FALSE
PROPERTIES
    NotHidden
