------------------------------ MODULE MCAgent ------------------------------
(***************************************************************************)
(* The two parts of the agent for TLC: the conversation loop and the       *)
(* clients that wait for jobs.  They share no state, so a behaviour is one *)
(* of either, and the other part rests in an initial state.                *)
(***************************************************************************)
EXTENDS Naturals, Sequences

CONSTANTS
    Calls, MaxCalls, MaxTurns, MaxHistory, MaxPrompts, MaxNodes, MaxFanout,      \* AgentLoop
    NumPrompts, NumNodes, Ceiling, DispatchTimeout, Margin, MaxFaults            \* AskPool

VARIABLES
    part,
    browser, pc, turn, conversation, start, running, seen, outcome, avail,
    prompts, headFailed, trips, earlier,                                         \* AgentLoop
    nodes, job, on, tried, attempt, client, waited, delayed, faults              \* AskPool

\* A read, a tool of two requests, one with bad arguments, a fan-out, and a call
\* that is not JSON.
Call(tool, args) == [tool |-> tool, args |-> args]
MCCalls == {Call("cluster_status", "good"), Call("search_files", "good"), Call("run_command", "bad"),
            Call("ask_pool", "good"), Call("ask_pool", "notjson")}

Loop == INSTANCE AgentLoop
Pool == INSTANCE AskPool

ASSUME AgentConstants == Loop!AgentAssumption /\ Pool!PoolAssumption

loopVars == <<browser, pc, turn, conversation, start, running, seen, outcome, avail,
              prompts, headFailed, trips, earlier>>
poolVars == <<nodes, job, on, tried, attempt, client, waited, delayed, faults>>

Init ==
    /\ part \in {"loop", "pool"}
    /\ IF part = "loop" THEN nodes = <<>> ELSE avail = 0
    /\ Loop!Init /\ Pool!Init

Next ==
    \/ part = "loop" /\ Loop!Next /\ UNCHANGED <<part, poolVars>>
    \/ part = "pool" /\ Pool!Next /\ UNCHANGED <<part, loopVars>>

\* The fairness of AgentLoop's FairSpec.
Spec == Init /\ [][Next]_<<part, loopVars, poolVars>> /\ WF_loopVars(part = "loop" /\ Loop!Step)

\* The head gets a well-formed exchange, and only its own failure ends the
\* conversation (ask, call_tool).
LoopInvariant == Loop!LoopInvariant
\* A question of an earlier turn does not go to the cluster again (ask).
RepeatsStayHome == Loop!RepeatsStayHome
\* Every prompt is answered (ask).
EveryPromptEnds == Loop!EveryPromptEnds
\* A client is patient with one attempt, bounded in time and told the truth
\* (ask_pool, submit_and_wait).
PoolInvariant == Pool!PoolInvariant
=============================================================================
