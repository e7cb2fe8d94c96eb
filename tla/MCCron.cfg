SPECIFICATION FairSpec
CONSTANTS
    MaxJobs = 2
    OfferTrack = 1
    Window = 1
    MaxLate = 1
    Period = 1
    Snooze = 2
    MaxCreates = 2
    MaxRestarts = 1
    ExplicitIds = FALSE
INVARIANTS
    ReminderKept
PROPERTIES
    AdvanceOnlyFired
    EventuallyFired
