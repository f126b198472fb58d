SPECIFICATION Spec
CONSTANTS
    Sources = {"s"}
    Transforms = {"t"}
    Sinks = {"k1", "k2"}
    Edges = {"e1", "e2", "e3"}
    From <- SplitFrom
    To <- SplitTo
    Conditional = {"e2", "e3"}
    Required = {"e1", "e2"}
    Strategy <- Block
    Size <- Ones
    Slack = 0
    ErrorMode <- ModesIgnore
    Workers = {"src", "wt", "wu", "w1", "w2"}
    Home <- SplitHome
    Forwarders = {}
    Over <- OverEdges
    Ids = {1}
    Feed <- FeedS
    Copies = {"c1", "c2"}
    MaxInflight = 1
    CanStop = FALSE
    NoMsg = NoMsg
    NoOne = NoOne
INVARIANTS NoEarlyAck BranchAccounting ErrorReported
PROPERTY MeetsContract
