------------------------------- MODULE MCNode -------------------------------
(***************************************************************************)
(* The services of a node for TLC: its inference, its document index and   *)
(* its sandbox.  They share no state, so a behaviour is one of one         *)
(* service, and the others rest in an initial state.                       *)
(***************************************************************************)
EXTENDS Naturals, Sequences

CONSTANTS
    Modes, Requests, ReadyTimeout, Pause, HealthTimeout, RequestTimeout, Margin, Times,
    MaxFaults, MaxJobs, MaxStarts,                                               \* LocalInference
    NumFiles, Sizes, MaxFileBytes, MaxFiles, MaxBytes, Dimensions,
    Refreshers, Searchers, MaxCalls, MaxWrites,                                  \* FileIndex
    Timeouts, MaxTimeout, Caps, MaxCap, MaxOutput, PipeSize, ChunkSize           \* Sandbox

VARIABLES
    part,
    mode, installed, agent, rpc, proc, remote, ready, req, answer,
    faults, jobs, starts,                                                        \* LocalInference
    disk, documents, indexedBytes, indexReady, generation, refreshLock, stage,
    observed, walk, indexAnswer, spc, snapshot, found, calls, writes,            \* FileIndex
    execution, request, child, plan, written, pipe, gathered, reader, kept,
    truncated, timedOut, execAnswer, audit                                       \* Sandbox

Inference == INSTANCE LocalInference
Index == INSTANCE FileIndex
Exec == INSTANCE Sandbox

ASSUME NodeConstants ==
    Inference!InferenceAssumption /\ Index!IndexAssumption /\ Exec!SandboxAssumption

inferenceVars == <<mode, installed, agent, rpc, proc, remote, ready, req, answer,
                   faults, jobs, starts>>
indexVars == <<disk, documents, indexedBytes, indexReady, generation, refreshLock, stage,
               observed, walk, indexAnswer, spc, snapshot, found, calls, writes>>
execVars == <<execution, request, child, plan, written, pipe, gathered, reader, kept,
              truncated, timedOut, execAnswer, audit>>

\* The initial state a service rests in while another one is looked at.  Only a
\* node with a model asks whether there is a server to start; the rpc-server, which
\* knows nothing of requests, is looked at beside that server and on its own.
Rests(p, state) == IF part = p THEN TRUE ELSE state

Init ==
    /\ part \in {"inference", "index", "exec"}
    /\ Rests("inference", mode = "neither")
    /\ Rests("inference", installed = [x \in {"rpc", "server"} |-> FALSE])
    /\ Rests("index", disk = [f \in Index!Files |-> [size |-> Index!NoFile, version |-> 0]])
    /\ Rests("exec", request = CHOOSE r \in Exec!Request : TRUE)
    /\ Rests("exec", plan = [amount |-> [s \in Exec!Streams |-> 0], ends |-> TRUE])
    /\ Inference!Init /\ Index!Init /\ Exec!Init
    /\ mode # "model" => ~installed["server"]
    /\ mode = "endpoint" => ~installed["rpc"]
    /\ mode = "model" => installed["rpc"]

Next ==
    \/ part = "inference" /\ Inference!Next /\ UNCHANGED <<part, indexVars, execVars>>
    \/ part = "index" /\ Index!Next /\ UNCHANGED <<part, inferenceVars, execVars>>
    \/ part = "exec" /\ Exec!Next /\ UNCHANGED <<part, inferenceVars, indexVars>>

\* The fairness of every service, as in its FairSpec.
Spec ==
    /\ Init /\ [][Next]_<<part, inferenceVars, indexVars, execVars>>
    /\ WF_inferenceVars(part = "inference" /\ Inference!StopChildren)
    /\ \A r \in Requests : WF_inferenceVars(part = "inference" /\ Inference!Step(r))
    /\ \A t \in Refreshers : WF_indexVars(part = "index" /\ Index!Working(t))
    /\ WF_execVars(part = "exec" /\ Exec!Parent) /\ WF_execVars(part = "exec" /\ Exec!Command)
    /\ WF_execVars(part = "exec" /\ ~plan.ends /\ Exec!Expire)
    /\ \A s \in Exec!Streams : WF_execVars(part = "exec" /\ Exec!Threads(s))

\* No child outlives the agent, errors are blamed on the right side, and the dead
\* are not waited for (lifespan, await_ready, complete).
InferenceInvariant == Inference!InferenceInvariant
\* The node answers before the controller gives up on it (await_ready, complete).
NodeAnswersFirst == Inference!NodeAnswersFirst
\* The index is within its caps, can be searched, and is new to whoever asked for
\* it (refresh, search).
IndexInvariant == Index!IndexInvariant
\* The index never goes back to an older version of a file (refresh_lock).
NeverGoesBack == Index!NeverGoesBack
\* What is answered about a command is true (execute, drain).
SandboxInvariant == Exec!SandboxInvariant
\* Every inference request and shutdown, every refresh and every execution ends
\* (infer, lifespan, refresh, execute).
EveryRequestEnds == Inference!EverythingEnds /\ Index!RefreshEnds /\ Exec!EveryExecutionEnds
=============================================================================
