SPECIFICATION PacketSpec
CONSTANTS
    Lengths <- MCLengths
    Packets <- MCPackets
    Margins <- MCMargins
    TopicFilters <- MCTopicFilters
    MaxCount = 1
    Stale <- MCStale
INVARIANTS
    WrittenIsRead
    StaysInBuffer
    DeliveredByLevels
CHECK_DEADLOCK FALSE
