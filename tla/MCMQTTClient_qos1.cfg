SPECIFICATION Spec

CONSTANTS
    f1 = f1
    f2 = f2
    NoFilter = NoFilter
    Filters <- TwoFilters
    QoS = 1
    MaxHandlers = 2
    MaxPacketId = 2
    SignedChar = FALSE
    SubackCodes <- GrantOrRefuse
    MaxCalls = 4
    MaxPushes = 1

SYMMETRY Symmetry

INVARIANT OnlyLateAcksMismatch
INVARIANT ConnectedIsAccepted
INVARIANT NoOrphanConnection
INVARIANT HandlersWereGranted
INVARIANT SubscribedHasHandler
