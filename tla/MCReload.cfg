SPECIFICATION FairSpec
CONSTANTS
    MaxHups = 2
    MaxPuts = 1
    MaxEdits = 1
    SavesOverlap = FALSE
INVARIANTS
    NoUseAfterFree
    LiveAgree
    PutApplied
PROPERTIES
    HupHonoured
    Terminates
