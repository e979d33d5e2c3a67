SPECIFICATION Spec

CONSTANTS
    QoS = 1
    Commands <- FirstTwo
    MaxHandlers = 2
    MaxCalls = 2
    MaxPushes = 2

INVARIANT HandlersSeeTheirMessage
