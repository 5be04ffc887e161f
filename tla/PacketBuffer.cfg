SPECIFICATION Spec
CONSTANTS
    Size = 5
    HeaderLen = 2
    Lengths = {2, 3}
    MaxChunk = 3
    Packets = 3
    Clears = 1
    Word = 256
INVARIANTS
    TypeOK
    PacketsInOrder
    OverrunOnlyWhenFull
    NothingLeftAtRest
