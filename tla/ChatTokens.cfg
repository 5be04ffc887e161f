SPECIFICATION TokenFairSpec
CONSTANTS
    Slot = {c1}
    NoSlot = NoSlot
    Id = {"", "kim"}
    NoId = ""
    InitialId = {"kim"}
    Pw = {"pw"}
    NoPw = "NoPw"
    Truncated <- MCTruncated
    Room = {0}
    RoomNumber <- MCRoomNumber
    NoRoom <- MCNoRoom
    mMaxUserCount = 1
    MaxClicks = 6
    MaxDrops = 1
CHECK_DEADLOCK FALSE
PROPERTY LobbyAnswered
