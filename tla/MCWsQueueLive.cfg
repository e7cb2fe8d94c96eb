SPECIFICATION FairSpec
CONSTANTS
    MaxConnections = 2
    MaxQueue = 2
    Texts = {t1}
    MaxConnIds = 3
    MaxSends = 2
    MaxReceives = 0
PROPERTIES
    EventuallyWritten
    GatewayStops
