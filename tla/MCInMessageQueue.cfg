SPECIFICATION ListFairSpec

CONSTANTS
    Lengths <- ShortAndLong
    NoMessage = NoMessage
    MaxInList = 3
    ResponseSize = 6
    MaxArrivals = 6

INVARIANTS
    NoNodeLeaks

PROPERTIES
    IsDropOldestQueue
    EverythingLeaves
