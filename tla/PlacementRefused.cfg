\* Two nodes and three layers are enough for a refusal with room to spare.
CONSTANTS
    Nodes = {1, 2}
    Speeds = {1, 3}
    Readings <- MCReadings
    TotalLayers = 3
    LayerSize = 2
    Overhead = 1
SPECIFICATION Spec
INVARIANT RefusedOnlyWithoutSlack
CHECK_DEADLOCK FALSE
