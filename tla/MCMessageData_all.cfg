SPECIFICATION Spec
CONSTANTS
    Branches = {"b1", "b2"}
    Root = "root"
    Paths <- MCPaths
INVARIANTS Isolated OwnFields
