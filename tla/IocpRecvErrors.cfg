SPECIFICATION FairSpec
CONSTANTS
    Slot = {c1}
    Worker = {w1, w2}
    ReuseWait = 1
    MaxNow = 2
    MaxRecv = 1
    MaxSend = 0
PROPERTY RecvErrorDisconnects
