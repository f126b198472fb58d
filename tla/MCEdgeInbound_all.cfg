SPECIFICATION FairSpec
CONSTANTS
    Producers = {"p", "q"}
    Count <- PQ
    Sizes = {1, 2}
    Types = {"memory", "disk", "overflow"}
    Strategies = {"block", "drop_newest", "drop_oldest"}
    Kinds = {"transform", "sink"}
    Limits = {0, 2}
    SegCap = 1
    MaxSize = 2
    Cut = Cut
    Torn = Torn
    NoMsg = NoMsg
INVARIANTS OnePlace AckedWhenGone FIFO NewestSurvive
PROPERTIES Arrives DrainStops
CHECK_DEADLOCK FALSE
