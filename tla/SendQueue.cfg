SPECIFICATION FairSpec
CONSTANTS
    Worker = {w1, w2, w3}
    MaxMsg = 4
INVARIANTS
    TypeOK
    CompletionIsFront
    NoUseAfterFree
    NoLostSend
PROPERTIES
    StreamSpec
    EveryMessageSent
