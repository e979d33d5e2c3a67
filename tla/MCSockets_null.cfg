CONSTANTS
    t = t
    u = u
    v = v
    Process = Process
    Free = Free
    NULL = NULL
    Instances <- MCInstances
    TlsInstances <- MCTlsInstances
    MaxDescriptor = 2
SPECIFICATION Spec
INVARIANT
    ProcessEventReturns
CHECK_DEADLOCK FALSE
