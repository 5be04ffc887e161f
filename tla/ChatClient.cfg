SPECIFICATION SysSpec
CONSTANTS
    Slot = {c1, c2}
    NoSlot = NoSlot
    Id = {"", "kim", "lee"}
    NoId = ""
    InitialId = {"kim", "lee"}
    Pw = {"pw"}
    NoPw = "NoPw"
    Truncated <- MCTruncated
    Room = {0}
    RoomNumber <- MCRoomNumber
    NoRoom <- MCNoRoom
    mMaxUserCount = 2
    MaxClicks = 6
    MaxDrops = 1
SYMMETRY MCSymmetry
CHECK_DEADLOCK FALSE
INVARIANTS
    SysTypeOK
    NoNullRoom
    ButtonsMatchState
    CompanionsShown
    NobodyElseShown
PROPERTY OutsidersSilent
