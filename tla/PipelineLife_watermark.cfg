SPECIFICATION Spec
CONSTANTS
    Messages = 2
    Ids = {0, 1}
    MaxInflight = 2
    OutSize = 1
    NoMsg = NoMsg
    Source = "kafka"
    Sink = "sink"
    MaxSessions = 1
INVARIANT LowWatermark
CHECK_DEADLOCK FALSE
