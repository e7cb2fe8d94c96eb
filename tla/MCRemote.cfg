SPECIFICATION MCSpec
CONSTANTS
    Chains <- MCChains
    Known <- MCKnown
    Local = "local"
    Interval = 2
    Reprobe = 2
    MaxFlips = 2
    Nodes = {"a", "b"}
    Outsiders <- MCOutsiders
    Trusted = {"a", "b"}
    MaxPosts = 2
    MaxOutside = 1
INVARIANTS
    OwnSession
PROPERTIES
    RecoversInTheEnd
    LocalServes
    TurnsEnd
\* The process may stop, and there are only so many requests.
CHECK_DEADLOCK FALSE
