SPECIFICATION FairSpec

CONSTANTS
    r1 = r1
    r2 = r2
    NoRef = NoRef
    Refs <- TwoRefs
    MaxEvents = 4

INVARIANTS
    NoInstanceLeaks
    HandlesFollowUser
    ConnectedIsServiced
    DownStopsSession

PROPERTY NewInstanceStarts
