\* Two nodes with two samples each, a history of one, and two changes; two nodes
\* that change three times, or one job with two requests for it at a time, and one
\* broken connection, lost request or restart of ctl; every number of tasks up to
\* seven for up to three nodes, and every content of two disks of up to three
\* documents, with ties and mixed models.
CONSTANTS
    Nodes = {n1, n2}
    HistoryLimit = 1
    MaxSamples = 2
    MaxChurn = 2
    Slots = {s1, s2}
    MaxChanges = 3
    MaxDrops = 1
    MaxRefresh = 1
    Workers = {1, 2, 3}
    Searched = {1, 2}
    Paths = {1, 2, 3}
    Scores = {1, 2}
    Models = {"a", "b"}
    Limits = {0, 1}
    DefaultLimit = 2
    MaxTasks = 7
    MaxFanout = 3
    MaxMoves = 1
SPECIFICATION Spec
INVARIANTS CtlInvariant ResultsAreRight
PROPERTIES EachEventOnce PollingGoesOn FeedConverges
CHECK_DEADLOCK FALSE
