\* Two requests that may overlap and two deaths or restarts of servers in one life
\* of the agent, in every configuration.  A server takes no time, one unit or three:
\* at three, a GET of the health has run out of time in every phase, a POST is
\* accepted later than the margin allows for, and a generation is at its timeout.
\* Two refreshes and a search over two files that change twice, where a file of
\* size 2 is too large to be read, but one that grows to it is counted as 2; up to
\* three bytes on each stream through pipes of one, read in chunks of two, with
\* caps of zero, below a chunk, between chunks and above everything.
CONSTANTS
    Modes = {"endpoint", "model", "neither"}
    Requests = {q1, q2}
    ReadyTimeout = 2
    Pause = 1
    HealthTimeout = 1
    RequestTimeout = 3
    Margin = 4
    Times = {0, 1, 3}
    MaxFaults = 2
    MaxJobs = 2
    MaxStarts = 1
    NumFiles = 2
    Sizes = {1, 2}
    MaxFileBytes = 1
    MaxFiles = 2
    MaxBytes = 2
    Dimensions = {1, 2}
    Refreshers = {r1, r2}
    Searchers = {s1}
    MaxCalls = 2
    MaxWrites = 2
    Timeouts = {0, 1, 2}
    MaxTimeout = 1
    Caps = {0, 1, 3, 6, 7}
    MaxCap = 6
    MaxOutput = 3
    PipeSize = 1
    ChunkSize = 2
SPECIFICATION Spec
INVARIANTS InferenceInvariant NodeAnswersFirst IndexInvariant SandboxInvariant
PROPERTIES NeverGoesBack EveryRequestEnds
CHECK_DEADLOCK FALSE
