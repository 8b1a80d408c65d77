\* The installed unit with five command lines; three changes of membership, and one
\* restart of ctl, failed request, crash, download or signal.
CONSTANTS
    Nodes = {1, 2}
    HeadId = 2
    Hosts = {1, 2}
    Arguments <- MCArguments
    MinWorkers = 0
    PollTimes = {2, 7}
    Debounce = 5
    MaxChanges = 3
    HeadFaults = 1
SPECIFICATION HeadSpec
INVARIANTS HeadInvariant
PROPERTIES FlapsAreIgnored FollowsMembership
