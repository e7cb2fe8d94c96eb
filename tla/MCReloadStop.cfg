SPECIFICATION Spec
CONSTANTS
    MaxHups = 0
    MaxPuts = 1
    MaxEdits = 0
    SavesOverlap = TRUE
INVARIANTS
    FreedOnce
