-------------------------------- MODULE MCCtl --------------------------------
(***************************************************************************)
(* Parts of the control plane for TLC: the samples it keeps, the feed to a *)
(* dashboard, and the payloads and results of shards.  They share no       *)
(* state, so a behaviour is one of one part, and the others rest in an     *)
(* initial state.  The feed is looked at twice: with changes of membership *)
(* and no job, and with one job and a membership that rests.  So are the   *)
(* shards: tasks dealt out to many nodes, and searches merged from few.    *)
(***************************************************************************)
EXTENDS Naturals, Sequences

CONSTANTS
    Nodes,                                                                       \* Telemetry, Feed
    HistoryLimit, MaxSamples, MaxChurn,                                          \* Telemetry
    Slots, MaxChanges, MaxDrops, MaxRefresh,                                     \* Feed
    Workers, Searched, Paths, Scores, Models, Limits, DefaultLimit,
    MaxTasks, MaxFanout, MaxMoves                                                \* ShardResults

VARIABLES
    part,
    state, taken, beat, latest, samples, errors, task, polled, reply, churn,     \* Telemetry
    members, events, job, jobEvents, cycle, lastTopology, lastRegistry, lastQueue,
    channel, nodes, shown, jobsRef, fetch, got, changes, drops, refreshes,       \* Feed
    online, disk, embedder, kind, limit, tasks, chunks, selected, node, attempted,
    answers, lost, result                                                        \* ShardResults

Samples == INSTANCE Telemetry
NodeFeed == INSTANCE Feed WITH Removals <- TRUE, Submits <- {}
JobFeed == INSTANCE Feed WITH Removals <- FALSE, Submits <- BOOLEAN, MaxChanges <- 0
Results == INSTANCE ShardResults WITH Nodes <- Workers

ASSUME CtlConstants ==
    /\ Samples!TelemetryAssumption /\ NodeFeed!FeedAssumption /\ JobFeed!FeedAssumption
    /\ Results!ShardAssumption /\ Searched \subseteq Workers

samplesVars == <<state, taken, beat, latest, samples, errors, task, polled, reply, churn>>
feedVars == <<members, events, job, jobEvents, cycle, lastTopology, lastRegistry, lastQueue,
              channel, nodes, shown, jobsRef, fetch, got, changes, drops, refreshes>>
resultsVars == <<online, disk, embedder, kind, limit, tasks, chunks, selected, node, attempted,
                 answers, lost, result>>

Init ==
    /\ part \in {"samples", "node feed", "job feed", "split", "merge"}
    /\ Samples!Init /\ NodeFeed!Init
    /\ CASE part = "merge" -> online = Searched /\ tasks = 0
         [] part = "split" -> online = Workers /\ kind = "exec"
         [] OTHER -> online = {} /\ kind = "exec" /\ tasks = 0
    /\ Results!Init

Next ==
    \/ part = "samples" /\ Samples!Next /\ UNCHANGED <<part, feedVars, resultsVars>>
    \/ part = "node feed" /\ NodeFeed!Next /\ UNCHANGED <<part, samplesVars, resultsVars>>
    \/ part = "job feed" /\ JobFeed!Next /\ UNCHANGED <<part, samplesVars, resultsVars>>
    \/ part \in {"split", "merge"} /\ Results!Next /\ UNCHANGED <<part, samplesVars, feedVars>>

Feeding == part \in {"node feed", "job feed"}

\* The fairness of Telemetry and of Feed, as in their FairSpecs.
Spec ==
    /\ Init /\ [][Next]_<<part, samplesVars, feedVars, resultsVars>>
    /\ WF_samplesVars(part = "samples" /\ Samples!Poll)
    /\ WF_feedVars(Feeding /\ JobFeed!Advance) /\ WF_feedVars(Feeding /\ JobFeed!SendFeed)
    /\ WF_feedVars(Feeding /\ JobFeed!Connect) /\ WF_feedVars(Feeding /\ JobFeed!HandleFrame)
    /\ WF_feedVars(Feeding /\ JobFeed!Render)
    /\ WF_feedVars(Feeding /\ JobFeed!RefreshStale)
    /\ \A s \in Slots : WF_feedVars(Feeding /\ (JobFeed!ServeJob(s) \/ JobFeed!JobArrives(s)))

\* A frame of samples agrees with itself, what is on its way to a dashboard is what
\* it did not get yet, and a verdict is that of the answers (record, remove, frame,
\* send_feed, _run_job).
CtlInvariant ==
    Samples!SamplesInvariant /\ NodeFeed!FeedInvariant /\ Results!ShardInvariant

\* Payloads are dealt out completely, and the merged hits are the best of all,
\* of one model (_split_payload, _merge_search_results).
ResultsAreRight == Results!ResultsAreRight
\* Polling goes on until it is closed (_run).
PollingGoesOn == Samples!PollingGoesOn
\* Over one connection every event arrives once and in order (send_feed).
EachEventOnce == NodeFeed!EachEventOnce
\* The dashboard ends up showing every member in its state and no finished job
\* as running (handleFrame, staleInterval).
FeedConverges == NodeFeed!MembersAreCurrent /\ JobFeed!NotRunningForGood
=============================================================================
