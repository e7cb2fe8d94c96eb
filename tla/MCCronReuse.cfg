SPECIFICATION Spec
CONSTANTS
    MaxJobs = 1
    OfferTrack = 2
    Window = 2
    MaxLate = 1
    Period = 2
    Snooze = 3
    MaxCreates = 2
    MaxRestarts = 0
    ExplicitIds = TRUE
INVARIANTS
    ReminderKept
