CONSTANTS
    Base = 2
    Sizes <- EverySize
    MaxPackets = 2
SPECIFICATION FairSpec
INVARIANTS
    InSync
PROPERTIES
    WholeUnlessCutInLength
    IsPacketStream
    EofNoticed
