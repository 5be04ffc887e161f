SPECIFICATION FairSpec
CONSTANTS
    BufferSize = 12
    HeaderSize = 2
    MaxPacketSize = 3
    ReadSize = 6
    Lengths = {2, 3}
    Packets = 6
    Streams <- MCStreams
    Garbage <- MCGarbage
INVARIANTS
    TypeOK
    FramesInOrder
    RefusedOnlyLong
    DrainedBeforeReceive
PROPERTY EveryFrameHandled
