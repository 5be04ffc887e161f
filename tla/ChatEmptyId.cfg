SPECIFICATION Spec
CONSTANTS
    Slot = {c1, c2, c3}
    NoSlot = NoSlot
    Id = {"", "kim", "lee"}
    NoId = ""
    InitialId = {"kim"}
    Pw = {"pw9", "pw10"}
    NoPw = "NoPw"
    Truncated <- MCTruncated
    Room = {0}
    RoomNumber <- MCRoomNumber
    NoRoom <- MCNoRoom
    mMaxUserCount = 1
SYMMETRY MCSymmetry
INVARIANT NoDoubleLogin
