\* One node, the interval (2 s), miss count (3) and sweep period (1 s) of the code.
CONSTANTS
    Nodes = {n1}
    Hosts = {h1, h2}
    Interval = 2
    MissedOffline = 3
    SweepPeriod = 1
    SweepLag = 3
    MaxClock = 20
    MaxEvents = 6
SYMMETRY Symmetry
SPECIFICATION Spec
INVARIANTS RegistryInvariant SilenceIsNoticed EventsInvariant
PROPERTIES OfflineIsDeserved
CHECK_DEADLOCK FALSE
