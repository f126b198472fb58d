SPECIFICATION Spec
CONSTANTS
    Sources = {"s"}
    Transforms = {}
    Sinks = {"k1", "k2"}
    Edges = {"e1", "e2"}
    From <- FanFrom
    To <- FanTo
    Conditional = {"e2"}
    Required = {"e1", "e2"}
    Strategy <- Block
    Size <- Ones
    Slack = 0
    ErrorMode <- ModesPropagate
    Workers = {"src", "w1", "w2"}
    Home <- FanHome
    Forwarders = {}
    Over <- OverEdges
    Ids = {1, 2, 3}
    Feed <- FeedS
    Copies = {}
    MaxInflight = 1
    CanStop = FALSE
    NoMsg = NoMsg
    NoOne = NoOne
INVARIANT InflightLimit
