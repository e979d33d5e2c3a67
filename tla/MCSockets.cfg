CONSTANTS
    t = t
    u = u
    v = v
    Process = Process
    Free = Free
    NULL = NULL
    Instances <- MCInstances
    TlsInstances <- MCTlsInstances
    MaxDescriptor = 3
SPECIFICATION Spec
INVARIANTS
    OwnConnection
    OnlyZeroIsStolen
PROPERTY
    OrphansWereConnected
CHECK_DEADLOCK FALSE
