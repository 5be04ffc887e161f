SPECIFICATION Spec
CONSTANTS
    Slot = {c1, c2, c3}
    NoSlot = NoSlot
    Id = {"", "kim", "lee"}
    NoId = ""
    InitialId = {"kim", "lee"}
    Pw = {"pw9", "pw10"}
    NoPw = "NoPw"
    Truncated <- MCTruncated
    Room = {0, 1}
    RoomNumber <- MCRoomNumber
    NoRoom <- MCNoRoom
    mMaxUserCount = 2
SYMMETRY MCSymmetry
INVARIANTS
    TypeOK
    LoginExclusive
    DirectoryLive
    RoomCapacity
    OneRoom
    ListMatchesAcks
    LoggedInRegistered
PROPERTIES
    ChatReachesRoom
