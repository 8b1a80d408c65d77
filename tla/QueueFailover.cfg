\* One job of two shards, pinned or not, two nodes that fail, refuse, come and
\* go, and close() at any moment, under the fairness of the event loop.
CONSTANTS
    Nodes = {1, 2}
    Jobs = {j1}
    MaxFanout = 2
    PerNodeLimit = 1
    MaxReported = 1
    EmbeddingModels = {m1, m2}
    Kinds = {"search", "other"}
    Pins = {2}
SPECIFICATION FairSpec
INVARIANTS AtMostTwicePerNode AssignedCoversDispatch VerdictIsRight SettledIsQuiet OneTerminalEvent
PROPERTIES ImplementsLedger
CHECK_DEADLOCK FALSE
