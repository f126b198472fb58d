SPECIFICATION Spec
CONSTANTS
    Messages = 2
    Ids = {0, 1}
    MaxInflight = 1
    OutSize = 1
    NoMsg = NoMsg
    Source = "kafka"
    Sink = "sink"
    MaxSessions = 2
INVARIANTS OnePlace CommitTruth StopOrder
PROPERTIES Redelivered StopEnds
CHECK_DEADLOCK FALSE
