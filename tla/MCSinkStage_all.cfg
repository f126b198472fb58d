SPECIFICATION FairSpec
CONSTANTS
    Messages = 3
    IngressSize = 1
    Settings <- Mixed
    Collector = Collector
INVARIANTS OnePlace AckTruth Ordered
PROPERTIES Handled StopEnds
CHECK_DEADLOCK FALSE
