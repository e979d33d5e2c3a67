SPECIFICATION PacketSpec
CONSTANTS
    Lengths <- MCLengths
    Packets <- MCPackets
    Margins <- MCMargins
    TopicFilters <- MCTopicFilters
    MaxCount = 1
    Stale <- MCStale
INVARIANT CutIsRefused
CHECK_DEADLOCK FALSE
