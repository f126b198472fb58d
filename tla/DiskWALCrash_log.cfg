SPECIFICATION FairSpec
CONSTANTS
    SegCap = 2
    MaxSize = 3
    Messages = 4
    Halts = 2
    Tears = {"append", "remove", "offset", "power", "write"}
    Cut = Cut
    Torn = Torn
INVARIANTS TypeOK
PROPERTIES  AllRead RoomAgain
CHECK_DEADLOCK FALSE
