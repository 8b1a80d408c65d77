\* One control plane, every environment of a node, two faults, and outputs of
\* llama-bench of up to two rows in any order.
CONSTANTS
    Addresses = {"head"}
    Speeds = {0, 1, 2}
    MaxRows = 2
    MaxLosses = 2
SPECIFICATION StartSpec
INVARIANTS StartInvariant
PROPERTIES ComesUp
CHECK_DEADLOCK FALSE
