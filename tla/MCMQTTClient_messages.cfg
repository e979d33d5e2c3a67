SPECIFICATION FairSpec

CONSTANTS
    f1 = f1
    f2 = f2
    NoFilter = NoFilter
    Filters <- OneFilter
    QoS = 2
    MaxHandlers = 2
    MaxPacketId = 2
    SignedChar = FALSE
    SubackCodes <- GrantQoS2
    MaxCalls = 2
    MaxPushes = 2

INVARIANT EveryMessageAccounted
INVARIANT DeliveredInOrder
INVARIANT AckAfterDelivery
PROPERTY CallsReturn
PROPERTY LossNoticed
