CONSTANTS
    Packets <- MCPackets
    MinSize = 1
    Mtu = 3
    Chunk = 4
    MaxPayload = 2
    SeqMod = 2
    MaxSends = 3
    MaxBreaks = 1
SPECIFICATION Spec
INVARIANTS
    TypeOK
    NothingSwallowed
    HalvesMatch
PROPERTIES
    TakesWhatWasSent
