SPECIFICATION Spec
CONSTANTS
    Sources = {"s"}
    Transforms = {}
    Sinks = {"k1", "k2"}
    Edges = {"e1", "e2"}
    From <- FanFrom
    To <- FanTo
    Conditional = {"e2"}
    Required = {"e1", "e2"}
    Strategy <- Mixed
    Size <- Ones
    Slack = 0
    ErrorMode <- ModesIgnore
    Workers = {"src", "w1", "w2"}
    Home <- FanHome
    Forwarders = {"f1", "f2"}
    Over <- OverEdges
    Ids = {1, 2}
    Feed <- FeedS
    Copies = {}
    MaxInflight = 2
    CanStop = TRUE
    NoMsg = NoMsg
    NoOne = NoOne
INVARIANTS AckOnce InflightAccounting
PROPERTY KeepsContract
