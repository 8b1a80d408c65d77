\* Two prompts of two turns with up to two concurrent calls, and a history cut to
\* two messages; two pool prompts over up to two nodes, with two faults.
CONSTANTS
    Calls <- MCCalls
    MaxCalls = 2
    MaxTurns = 2
    MaxHistory = 2
    MaxPrompts = 2
    MaxNodes = 2
    MaxFanout = 16
    NumPrompts = 2
    NumNodes = 2
    Ceiling = 1
    DispatchTimeout = 2
    Margin = 1
    MaxFaults = 2
SPECIFICATION Spec
INVARIANTS LoopInvariant PoolInvariant
PROPERTIES RepeatsStayHome EveryPromptEnds
