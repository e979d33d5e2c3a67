SPECIFICATION Spec

CONSTANTS
    f1 = f1
    f2 = f2
    NoFilter = NoFilter
    Filters <- OneFilter
    QoS = 1
    MaxHandlers = 2
    MaxPacketId = 2
    SignedChar = TRUE
    SubackCodes <- GrantOrRefuse
    MaxCalls = 3
    MaxPushes = 1

INVARIANT HandlersWereGranted
