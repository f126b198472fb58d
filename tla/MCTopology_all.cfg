SPECIFICATION Spec
CONSTANTS
    Steps = {"s", "x", "y", "z", "k"}
    Ids <- MCIds
    SinkOf <- MCSinkOf
    Configs <- MCConfigs
INVARIANTS VerdictRight WorkersShared
