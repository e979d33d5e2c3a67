SPECIFICATION Spec

CONSTANTS
    f1 = f1
    f2 = f2
    NoFilter = NoFilter
    Filters <- OneFilter
    QoS = 0
    MaxHandlers = 2
    MaxPacketId = 2
    SignedChar = FALSE
    SubackCodes <- GrantOrRefuse
    MaxCalls = 3
    MaxPushes = 0

INVARIANT HandlersIndexedByTopic
