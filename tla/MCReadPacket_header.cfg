CONSTANTS
    Base = 2
    Sizes <- EverySize
    MaxPackets = 2
SPECIFICATION Spec
INVARIANT
    HeaderIsHeader
