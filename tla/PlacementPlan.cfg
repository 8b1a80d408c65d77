\* Three nodes, uncalibrated, slow or fast, share five layers of two units each.
CONSTANTS
    Nodes = {1, 2, 3}
    Speeds = {0, 1, 3}
    Readings <- MCReadings
    TotalLayers = 5
    LayerSize = 2
    Overhead = 1
SPECIFICATION FairSpec
INVARIANTS PlanInvariant PlanFits RepairGoesAllTheWay
PROPERTIES RepairNeverOverloads PlanAnswers
CHECK_DEADLOCK FALSE
