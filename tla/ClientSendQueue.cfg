SPECIFICATION FairSpec
CONSTANTS
    MaxPackets = 6
    MinGrow = 3
INVARIANTS
    SentInOrder
    NeverTwice
PROPERTY EveryPacketSent
