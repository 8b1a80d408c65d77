\* Four jobs compete for the two permits of one node.
CONSTANTS
    Nodes = {1}
    Jobs = {j1, j2, j3, j4}
    MaxFanout = 1
    PerNodeLimit = 2
    MaxReported = 0
    EmbeddingModels = {m1}
    Kinds = {"other"}
    Pins = {}
SYMMETRY JobSymmetry
SPECIFICATION Spec
INVARIANTS SlotInvariant SlotsAccounted NoLostWakeup
CHECK_DEADLOCK FALSE
