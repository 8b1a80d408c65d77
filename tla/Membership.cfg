\* One agent; three disturbances of any kind, so that up to two requests it gave
\* up on, or removals, race with its current one.
CONSTANTS
    Nodes = {1}
    Slots = {1, 2, 3}
    Secrets = {1, 2, 3, 4, 5, 6}
    MaxFaults = 3
SPECIFICATION FairSpec
INVARIANTS MembershipInvariant
PROPERTIES Rejoins
