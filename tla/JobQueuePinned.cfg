\* A job pinned to one of two nodes.
CONSTANTS
    Nodes = {1, 2}
    Jobs = {j1}
    MaxFanout = 1
    PerNodeLimit = 1
    MaxReported = 0
    EmbeddingModels = {m1}
    Kinds = {"other"}
    Pins = {1}
SPECIFICATION Spec
INVARIANT PinnedStaysOnNode
CHECK_DEADLOCK FALSE
