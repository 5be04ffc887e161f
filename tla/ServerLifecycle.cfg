SPECIFICATION FairSpec
CONSTANTS
    Worker = {w1, w2, w3}
    MaxClient = 2
    MaxIo = 4
INVARIANTS
    TypeOK
    OnlyLeftoversDangle
PROPERTY DestroyThreadReturns
