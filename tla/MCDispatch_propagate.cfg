SPECIFICATION Spec
CONSTANTS
    Sources = {"s"}
    Transforms = {"t"}
    Sinks = {"k1", "k2"}
    Edges = {"e1", "e2", "e3"}
    From <- ForkFrom
    To <- ForkTo
    Conditional = {"e3"}
    Required = {"e1", "e2", "e3"}
    Strategy <- Block
    Size <- Ones
    Slack = 0
    ErrorMode <- ModesPropagate
    Workers = {"src", "wt", "w1", "w2"}
    Home <- SplitHome
    Forwarders = {}
    Over <- OverEdges
    Ids = {1, 2}
    Feed <- FeedS
    Copies = {}
    MaxInflight = 1
    CanStop = TRUE
    NoMsg = NoMsg
    NoOne = NoOne
PROPERTY Completion
