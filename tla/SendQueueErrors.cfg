SPECIFICATION FairSpec
CONSTANTS
    Worker = {w1, w2}
    MaxMsg = 2
PROPERTY SocketErrorDisconnects
