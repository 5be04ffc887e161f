SPECIFICATION FairSpec
CONSTANTS
    Slot = {c1, c2}
    Worker = {w1, w2, w3}
    ReuseWait = 1
    MaxNow = 2
    MaxRecv = 2
    MaxSend = 1
INVARIANTS
    TypeOK
    OneReceiver
    SlotTakenOnce
PROPERTY ClosedSessionTornDown
