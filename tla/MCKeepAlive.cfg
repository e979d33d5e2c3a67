SPECIFICATION Spec
CONSTANTS
    Interval = 5
    Period = 2
    Wait = 3
    Timeout = 3
    MinRead = 1
    Stall = 2
    MaxJump = 2
    MaxMissed = 2
    MaxAwaited = 12
INVARIANTS
    StaysAlive
    ReturnsInTime
