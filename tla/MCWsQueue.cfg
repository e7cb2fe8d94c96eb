SPECIFICATION Spec
CONSTANTS
    MaxConnections = 2
    MaxQueue = 2
    Texts = {t1, t2}
    MaxConnIds = 2
    MaxSends = 3
    MaxReceives = 3
SYMMETRY TextSymmetry
INVARIANTS
    NoOrphanFrames
    InOrder
    NoLostWakeup
    NoLateCancel
