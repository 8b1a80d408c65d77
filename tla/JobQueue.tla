------------------------------ MODULE JobQueue ------------------------------
(***************************************************************************)
(* The controller's job queue, ctl/queue.py: class JobQueue.               *)
(*                                                                         *)
(* A submitted job is split into shards; one asyncio task runs the job     *)
(* (_run_job) and one runs each shard (_run_shard).  A shard asks a node   *)
(* for an answer at most twice, then moves to the best node it has not     *)
(* given up on, until one answers, one rejects it, or none is left.  A     *)
(* semaphore per node limits how many requests that node has at a time.    *)
(*                                                                         *)
(* All of this runs on ONE event loop, so a task is interrupted only where *)
(* it awaits: inside the semaphore and inside the POST.  The variable      *)
(* "loop" names the shard that runs between two awaits; no other task      *)
(* steps meanwhile.  The registry is written by other threads (heartbeats, *)
(* the sweep, DELETE /nodes), so which nodes are usable may change at any  *)
(* moment, also between two steps of the running shard.                    *)
(***************************************************************************)
EXTENDS Integers, FiniteSets, Sequences

CONSTANTS
    Nodes,            \* node ids; compared with <, as the ranking does
    Jobs,             \* the ids submit may hand out
    Kinds,            \* the kinds of job submitted: "search", "other"
    Pins,             \* the nodes a caller may ask for by name
    MaxFanout,        \* bound on the shards of one job
    PerNodeLimit,     \* JobQueue(per_node_limit=...)
    MaxReported,      \* bound on the jobs_running a node reports
    EmbeddingModels   \* the models search answers may name

ASSUME NodesAssumption == Nodes \subseteq Nat /\ IsFiniteSet(Nodes)
ASSUME JobsAssumption ==
    IsFiniteSet(Jobs) /\ Kinds \subseteq {"search", "other"} /\ Pins \subseteq Nodes
ASSUME BoundsAssumption ==
    /\ MaxFanout \in Nat \ {0}
    /\ PerNodeLimit \in Nat \ {0}      \* queue.py: per_node_limit <= 0 is refused
    /\ MaxReported \in Nat

NoNode == -1
NoShard == <<>>
Shards == Jobs \X (1..MaxFanout)
JobOf(s) == s[1]

VARIABLES
    \* the registry as the queue reads it
    usable,      \* nodes registered and neither joining nor offline
    \* one record per job
    status,      \* Job.status, "none" before submit
    kind,        \* "search", whose results are merged, or "other"
    pinned,      \* Job.node_id, NoNode when the caller named none
    fanout,      \* self.fanouts
    assigned,    \* self.assigned_nodes
    ended,       \* the job's asyncio task is over
    cancelled,   \* close() has called task.cancel() on it
    terminal,    \* the job's completed / failed / cancelled events, in order
    \* one shard task per element of Shards
    pc,          \* where the task is
    node,        \* node_id of _run_shard
    attempt,     \* attempt of _run_shard
    attempted,   \* attempted of _run_shard
    model,       \* the embedding model its answer names
    dispatched,  \* "dispatched" events per shard and node
    \* shared by all tasks
    inFlight,    \* self.in_flight
    permits,     \* asyncio.Semaphore._value of every node
    waiters,     \* asyncio.Semaphore._waiters, first come first served
    loop,        \* the shard task that runs between two awaits
    closed       \* self.closed

jobVars == <<status, kind, pinned, fanout, assigned, ended, cancelled, terminal>>
shardVars == <<pc, node, attempt, attempted, model, dispatched>>
semVars == <<permits, waiters>>
vars == <<usable, jobVars, shardVars, inFlight, semVars, loop, closed>>

\* none: no task yet; created: gather made it; acquire, holding, reassign: it
\* runs; queued, granted: it awaits the semaphore; posting: it awaits the POST
PCs == {"none", "created", "acquire", "queued", "granted", "holding",
        "posting", "reassign", "ok", "failed", "cancelled"}
Over == {"ok", "failed", "cancelled"}
Running == {"acquire", "holding", "reassign"}
Holders == {"granted", "holding", "posting"}      \* tasks that own a permit
Settled == {"done", "failed"}
NoModel == "none"

TypeOK ==
    /\ usable \subseteq Nodes
    /\ status \in [Jobs -> {"none", "queued", "running"} \cup Settled]
    /\ kind \in [Jobs -> {"search", "other"}]
    /\ pinned \in [Jobs -> Nodes \cup {NoNode}]
    /\ fanout \in [Jobs -> 0..MaxFanout]
    /\ assigned \in [Jobs -> SUBSET Nodes]
    /\ ended \in [Jobs -> BOOLEAN]
    /\ cancelled \in [Jobs -> BOOLEAN]
    /\ terminal \in [Jobs -> Seq({"completed", "failed", "cancelled"})]
    /\ pc \in [Shards -> PCs]
    /\ node \in [Shards -> Nodes \cup {NoNode}]
    /\ attempt \in [Shards -> 0..1]
    /\ attempted \in [Shards -> SUBSET Nodes]
    /\ model \in [Shards -> EmbeddingModels \cup {NoModel}]
    /\ dispatched \in [Shards -> [Nodes -> Nat]]
    /\ inFlight \in [Nodes -> Nat]
    /\ permits \in [Nodes -> 0..PerNodeLimit]
    /\ waiters \in [Nodes -> Seq(Shards)]
    /\ loop \in Shards \cup {NoShard}
    /\ closed \in BOOLEAN

Init ==
    /\ usable \in SUBSET Nodes
    /\ status = [j \in Jobs |-> "none"]
    /\ kind = [j \in Jobs |-> "other"]
    /\ pinned = [j \in Jobs |-> NoNode]
    /\ fanout = [j \in Jobs |-> 0]
    /\ assigned = [j \in Jobs |-> {}]
    /\ ended = [j \in Jobs |-> FALSE]
    /\ cancelled = [j \in Jobs |-> FALSE]
    /\ terminal = [j \in Jobs |-> <<>>]
    /\ pc = [s \in Shards |-> "none"]
    /\ node = [s \in Shards |-> NoNode]
    /\ attempt = [s \in Shards |-> 0]
    /\ attempted = [s \in Shards |-> {}]
    /\ model = [s \in Shards |-> NoModel]
    /\ dispatched = [s \in Shards |-> [n \in Nodes |-> 0]]
    /\ inFlight = [n \in Nodes |-> 0]
    /\ permits = [n \in Nodes |-> PerNodeLimit]
    /\ waiters = [n \in Nodes |-> <<>>]
    /\ loop = NoShard
    /\ closed = FALSE

ShardsOf(j) == {s \in Shards : JobOf(s) = j /\ s[2] <= fanout[j]}
Idle == loop = NoShard

-----------------------------------------------------------------------------
(* Ranking nodes: least loaded first, ties by id. *)

\* Load is what the node's last metrics reported plus what the queue itself
\* has in flight there.  "reported" is whatever the heartbeats last wrote.
RankedBefore(m, n, reported) ==
    LET load(x) == reported[x] + inFlight[x] IN
    \/ load(m) < load(n)
    \/ load(m) = load(n) /\ m < n

\* The first k of _ranked_nodes(), as a function from shard index to node.
TopRanked(k, reported) ==
    {sel \in [1..k -> usable] :
        /\ \A i, h \in 1..k : i < h => RankedBefore(sel[i], sel[h], reported)
        /\ \A n \in usable \ {sel[i] : i \in 1..k} :
               \A i \in 1..k : RankedBefore(sel[i], n, reported)}

\* replacements[0] of _ranked_nodes(exclude=attempted).
BestReplacement(n, s, reported) ==
    /\ n \in usable \ attempted[s]
    /\ \A m \in (usable \ attempted[s]) \ {n} : RankedBefore(n, m, reported)

Reports == [Nodes -> 0..MaxReported]

-----------------------------------------------------------------------------
(* asyncio.Semaphore, as _request uses it. *)

\* locked() looks at every future that is not cancelled, so also at that of a
\* waiter that was granted its permit and has not run yet.
Waiting(n) == {waiters[n][i] : i \in DOMAIN waiters[n]}
NeverLocked(n) == FALSE          \* mutant: no "async with semaphore"
Locked(n) ==
    \/ permits[n] = 0
    \/ \E t \in Waiting(n) : pc[t] = "granted" \/ ~cancelled[JobOf(t)]

\* The waiters whose future is not done: neither granted nor cancelled.
Wakeable(n) == {t \in Waiting(n) : pc[t] = "queued" /\ ~cancelled[JobOf(t)]}
AheadOf(n, t, u) ==
    \E i, h \in DOMAIN waiters[n] : i < h /\ waiters[n][i] = t /\ waiters[n][h] = u

\* deque.remove
Without(queue, t) ==
    LET at == CHOOSE i \in DOMAIN queue : queue[i] = t IN
    [i \in 1..(Len(queue) - 1) |-> IF i < at THEN queue[i] ELSE queue[i + 1]]

Smallest(a, b) == IF a <= b THEN a ELSE b

\* _wake_up_next, at most "most" times: shard s puts "freed" permits back, goes
\* on to control state "to", and permits pass to the first waiters in the queue.
WakeUp(n, s, to, freed, most) ==
    \E woken \in SUBSET Wakeable(n) :
        /\ Cardinality(woken) = Smallest(Smallest(permits[n] + freed, most),
                                         Cardinality(Wakeable(n)))
        /\ \A t \in woken, u \in Wakeable(n) \ woken : AheadOf(n, t, u)
        /\ permits' = [permits EXCEPT ![n] = @ + freed - Cardinality(woken)]
        /\ pc' = [t \in Shards |-> IF t = s THEN to
                                   ELSE IF t \in woken THEN "granted" ELSE pc[t]]

\* release() wakes one; the end of acquire() wakes as many as there are permits.
Release(n, s, to) == WakeUp(n, s, to, 1, 1)
LeaveQueueSilently(n, s, to, freed) ==      \* mutant: wakes nobody
    /\ WakeUp(n, s, to, freed, 0)
    /\ waiters' = [waiters EXCEPT ![n] = Without(@, s)]
LeaveQueueStaying(n, s, to, freed) ==       \* mutant: stays in the deque
    /\ WakeUp(n, s, to, freed, permits[n] + freed)
    /\ UNCHANGED waiters
LeaveQueue(n, s, to, freed) ==
    /\ WakeUp(n, s, to, freed, permits[n] + freed)
    /\ waiters' = [waiters EXCEPT ![n] = Without(@, s)]

-----------------------------------------------------------------------------
(* submit, and the job's own task *)

\* submit() awaits nothing, so it is one step.  A refused call (closed, no
\* usable node, fan-out larger than the pool) changes nothing.
Submit(j, k, pin, count, reported) ==
    /\ Idle
    /\ ~closed
    /\ status[j] = "none"
    /\ IF pin # NoNode
       THEN pin \in usable /\ count = 1
       ELSE count <= Cardinality(usable)
    /\ \E selected \in (IF pin # NoNode THEN {[i \in 1..1 |-> pin]}
                                        ELSE TopRanked(count, reported)) :
           /\ assigned' = [assigned EXCEPT ![j] = {selected[i] : i \in 1..count}]
           /\ node' = [s \in Shards |-> IF JobOf(s) = j /\ s[2] <= count
                                        THEN selected[s[2]] ELSE node[s]]
    /\ status' = [status EXCEPT ![j] = "queued"]
    /\ kind' = [kind EXCEPT ![j] = k]
    /\ pinned' = [pinned EXCEPT ![j] = pin]
    /\ fanout' = [fanout EXCEPT ![j] = count]
    /\ UNCHANGED <<usable, ended, cancelled, terminal, pc, attempt, attempted,
                   model, dispatched, inFlight, semVars, loop, closed>>

StartsAnyway(j) == status[j] = "queued" /\ ~ended[j]   \* mutant: close() spares it
MayStart(j) == status[j] = "queued" /\ ~ended[j] /\ ~cancelled[j]

\* The job task's first step: running, "started", and gather makes one task per
\* shard; those start later, in any order the loop finds them ready.
StartJob(j) ==
    /\ Idle
    /\ MayStart(j)
    /\ status' = [status EXCEPT ![j] = "running"]
    /\ pc' = [s \in Shards |-> IF s \in ShardsOf(j) THEN "created" ELSE pc[s]]
    /\ UNCHANGED <<usable, kind, pinned, fanout, assigned, ended, cancelled,
                   terminal, node, attempt, attempted, model, dispatched,
                   inFlight, semVars, loop, closed>>

\* mutant: gather without return_exceptions, over at the first failure
GatherRaises(j) ==
    \/ \A s \in ShardsOf(j) : pc[s] \in Over
    \/ \E s \in ShardsOf(j) : pc[s] = "failed"
GatherOver(j) == \A s \in ShardsOf(j) : pc[s] \in Over

\* _merge_search_results raises when answers name two embedding models.
MergeNeverFails(j) == FALSE      \* mutant: hits of two models ranked together
MergeFails(j) ==
    /\ kind[j] = "search"
    /\ Cardinality({model[s] : s \in {t \in ShardsOf(j) : pc[t] = "ok"}}
                       \ {NoModel}) > 1

Errors(j) == (\E s \in ShardsOf(j) : pc[s] # "ok") \/ MergeFails(j)

\* gather returned: collect results and errors, merge a search, settle.
FinishJob(j) ==
    /\ Idle
    /\ status[j] = "running" /\ ~cancelled[j]
    /\ GatherOver(j)
    /\ status' = [status EXCEPT ![j] = IF Errors(j) THEN "failed" ELSE "done"]
    /\ terminal' = [terminal EXCEPT ![j] =
                        Append(@, IF Errors(j) THEN "failed" ELSE "completed")]
    /\ ended' = [ended EXCEPT ![j] = TRUE]
    /\ UNCHANGED <<usable, kind, pinned, fanout, assigned, cancelled, shardVars,
                   inFlight, semVars, loop, closed>>

-----------------------------------------------------------------------------
(* One shard: _run_shard and _request *)

\* Entering "async with semaphore", on the task's first step or from the retry
\* loop.  A free semaphore does not suspend the task.
Acquire(s) ==
    LET n == node[s] IN
    /\ \/ pc[s] = "created" /\ Idle /\ ~cancelled[JobOf(s)]
       \/ pc[s] = "acquire" /\ loop = s
    /\ IF Locked(n)
       THEN /\ waiters' = [waiters EXCEPT ![n] = Append(@, s)]
            /\ pc' = [pc EXCEPT ![s] = "queued"]
            /\ loop' = NoShard
            /\ UNCHANGED permits
       ELSE /\ permits' = [permits EXCEPT ![n] = @ - 1]
            /\ pc' = [pc EXCEPT ![s] = "holding"]
            /\ loop' = s
            /\ UNCHANGED waiters
    /\ UNCHANGED <<usable, jobVars, node, attempt, attempted, model, dispatched,
                   inFlight, closed>>

\* A waiter that was handed the permit runs on.
Granted(s) ==
    /\ Idle
    /\ pc[s] = "granted" /\ ~cancelled[JobOf(s)]
    /\ LeaveQueue(node[s], s, "holding", 0)
    /\ loop' = s
    /\ UNCHANGED <<usable, jobVars, node, attempt, attempted, model, dispatched,
                   inFlight, closed>>

\* _profile(node_id) after the semaphore: the node may have gone meanwhile.
Dispatch(s) ==
    LET n == node[s] IN
    /\ loop = s /\ pc[s] = "holding"
    /\ n \in usable
    /\ inFlight' = [inFlight EXCEPT ![n] = @ + 1]
    /\ dispatched' = [dispatched EXCEPT ![s][n] = @ + 1]
    /\ pc' = [pc EXCEPT ![s] = "posting"]
    /\ loop' = NoShard
    /\ UNCHANGED <<usable, jobVars, node, attempt, attempted, model, semVars,
                   closed>>

\* The "finally" of _request.
KeepFlight(n) == UNCHANGED inFlight     \* mutant: the slot is not given back
EndFlight(n) == inFlight' = [inFlight EXCEPT ![n] = IF @ > 0 THEN @ - 1 ELSE 0]

\* What _run_shard does with a retryable failure of node n: try the same node
\* once more, and after the second failure give it up.  The task keeps the loop.
NeverGivesUp(s) == attempted[s]          \* mutant: no attempted.add
GivenUp(s) == IF attempt[s] = 0 THEN attempted[s] ELSE attempted[s] \cup {node[s]}
AttemptFailed(s) ==
    LET again == attempt[s] = 0 IN
    /\ Release(node[s], s, IF again THEN "acquire" ELSE "reassign")
    /\ attempt' = [attempt EXCEPT ![s] = IF again THEN 1 ELSE @]
    /\ attempted' = [attempted EXCEPT ![s] = GivenUp(s)]
    /\ loop' = s

\* NodeUnavailableError: nothing was sent, the attempt counts all the same.
Unavailable(s) ==
    /\ loop = s /\ pc[s] = "holding"
    /\ node[s] \notin usable
    /\ AttemptFailed(s)
    /\ UNCHANGED <<usable, jobVars, node, model, dispatched, inFlight, waiters,
                   closed>>

\* A 5xx, a transport error, the timeout, a body that is not JSON or says
\* "ok": false.
RequestFailed(s) ==
    /\ Idle
    /\ pc[s] = "posting" /\ ~cancelled[JobOf(s)]
    /\ EndFlight(node[s])
    /\ AttemptFailed(s)
    /\ UNCHANGED <<usable, jobVars, node, model, dispatched, waiters, closed>>

\* An answer, or a 4xx (NodeRejectedError), ends the shard.
RequestAnswered(s, outcome, m) ==
    /\ Idle
    /\ pc[s] = "posting" /\ ~cancelled[JobOf(s)]
    /\ kind[JobOf(s)] # "search" \/ outcome # "ok" => m = NoModel
    /\ EndFlight(node[s])
    /\ Release(node[s], s, outcome)
    /\ model' = [model EXCEPT ![s] = m]
    /\ UNCHANGED <<usable, jobVars, node, attempt, attempted, dispatched,
                   waiters, loop, closed>>

AssignUnseen(j, n) == UNCHANGED assigned   \* mutant: assigned_nodes not updated
Assign(j, n) == assigned' = [assigned EXCEPT ![j] = @ \cup {n}]

\* Move to the best node this shard has not given up on ...
Reassign(s, reported) ==
    /\ loop = s /\ pc[s] = "reassign"
    /\ \E n \in Nodes :
           /\ BestReplacement(n, s, reported)
           /\ node' = [node EXCEPT ![s] = n]
           /\ Assign(JobOf(s), n)
    /\ attempt' = [attempt EXCEPT ![s] = 0]
    /\ pc' = [pc EXCEPT ![s] = "acquire"]
    /\ UNCHANGED <<usable, status, kind, pinned, fanout, ended, cancelled,
                   terminal, attempted, model, dispatched, inFlight, semVars,
                   loop, closed>>

\* ... or fail with "exhausted available nodes".
Exhausted(s) ==
    /\ loop = s /\ pc[s] = "reassign"
    /\ usable \subseteq attempted[s]
    /\ pc' = [pc EXCEPT ![s] = "failed"]
    /\ loop' = NoShard
    /\ UNCHANGED <<usable, jobVars, node, attempt, attempted, model, dispatched,
                   inFlight, semVars, closed>>

-----------------------------------------------------------------------------
(* close(), and what task.cancel() does to each task *)

Close ==
    /\ Idle
    /\ ~closed
    /\ closed' = TRUE
    /\ cancelled' = [j \in Jobs |-> status[j] # "none" /\ ~ended[j]]
    /\ UNCHANGED <<usable, status, kind, pinned, fanout, assigned, ended,
                   terminal, shardVars, inFlight, semVars, loop>>

\* A task cancelled before its first step never enters _run_job: the job keeps
\* its status and no event is emitted; _task_finished returns early.
CancelUnstarted(j) ==
    /\ Idle
    /\ cancelled[j] /\ status[j] = "queued" /\ ~ended[j]
    /\ ended' = [ended EXCEPT ![j] = TRUE]
    /\ UNCHANGED <<usable, status, kind, pinned, fanout, assigned, cancelled,
                   terminal, shardVars, inFlight, semVars, loop, closed>>

\* gather passes the cancellation to the shard tasks; each gives back what it
\* holds: its place in the queue, its permit, its in-flight slot.
CancelShard(s) ==
    LET n == node[s] IN
    /\ Idle
    /\ cancelled[JobOf(s)]
    /\ CASE pc[s] = "created" ->
              pc' = [pc EXCEPT ![s] = "cancelled"] /\ UNCHANGED <<semVars, inFlight>>
         [] pc[s] = "queued" ->
              LeaveQueue(n, s, "cancelled", 0) /\ UNCHANGED inFlight
         [] pc[s] = "granted" ->
              LeaveQueue(n, s, "cancelled", 1) /\ UNCHANGED inFlight
         [] pc[s] = "posting" ->
              /\ Release(n, s, "cancelled")
              /\ EndFlight(n)
              /\ UNCHANGED waiters
         [] OTHER -> FALSE
    /\ UNCHANGED <<usable, jobVars, node, attempt, attempted, model, dispatched,
                   loop, closed>>

\* mutant: _task_finished does not look at finished.cancelled()
CancelJobTwice(j) ==
    /\ Idle
    /\ cancelled[j] /\ status[j] = "running"
    /\ GatherOver(j)
    /\ status' = [status EXCEPT ![j] = "failed"]
    /\ terminal' = [terminal EXCEPT ![j] = @ \o <<"cancelled", "failed">>]
    /\ ended' = [ended EXCEPT ![j] = TRUE]
    /\ UNCHANGED <<usable, kind, pinned, fanout, assigned, cancelled, shardVars,
                   inFlight, semVars, loop, closed>>

\* The job task sees CancelledError once all its shard tasks are over.
CancelJob(j) ==
    /\ Idle
    /\ cancelled[j] /\ status[j] = "running"
    /\ GatherOver(j)
    /\ status' = [status EXCEPT ![j] = "failed"]
    /\ terminal' = [terminal EXCEPT ![j] = Append(@, "cancelled")]
    /\ ended' = [ended EXCEPT ![j] = TRUE]
    /\ UNCHANGED <<usable, kind, pinned, fanout, assigned, cancelled, shardVars,
                   inFlight, semVars, loop, closed>>

-----------------------------------------------------------------------------
(* The registry, written by other threads. *)

NodeUsable(n) ==
    /\ n \notin usable
    /\ usable' = usable \cup {n}
    /\ UNCHANGED <<jobVars, shardVars, inFlight, semVars, loop, closed>>

NodeLost(n) ==
    /\ n \in usable
    /\ usable' = usable \ {n}
    /\ UNCHANGED <<jobVars, shardVars, inFlight, semVars, loop, closed>>

-----------------------------------------------------------------------------
JobStep(j) == StartJob(j) \/ FinishJob(j) \/ CancelUnstarted(j) \/ CancelJob(j)

RequestEnds(s) ==
    \/ RequestFailed(s)
    \/ \E o \in {"ok", "failed"}, m \in EmbeddingModels \cup {NoModel} :
           RequestAnswered(s, o, m)

ShardStep(s) ==
    \/ Acquire(s)
    \/ Granted(s)
    \/ Dispatch(s)
    \/ Unavailable(s)
    \/ RequestEnds(s)
    \/ \E reported \in Reports : Reassign(s, reported)
    \/ Exhausted(s)
    \/ CancelShard(s)

Next ==
    \/ \E j \in Jobs, k \in Kinds, pin \in Pins \cup {NoNode},
          count \in 1..MaxFanout, reported \in Reports :
              Submit(j, k, pin, count, reported)
    \/ \E j \in Jobs : JobStep(j)
    \/ \E s \in Shards : ShardStep(s)
    \/ Close
    \/ \E n \in Nodes : NodeUsable(n) \/ NodeLost(n)

\* The event loop runs every ready task, and every POST ends: the client has a
\* timeout for each kind.  Nothing obliges anyone to submit, to close or a node
\* to come or go.
Fairness ==
    /\ \A j \in Jobs : WF_vars(JobStep(j))
    /\ \A s \in Shards : WF_vars(ShardStep(s))

Spec == Init /\ [][Next]_vars
FairSpec == Spec /\ Fairness

-----------------------------------------------------------------------------
(* Properties *)

HoldersAt(n) == {s \in Shards : node[s] = n /\ pc[s] \in Holders}
PostingAt(n) == {s \in Shards : node[s] = n /\ pc[s] = "posting"}

\* No path through _request (answer, rejection, failure, unavailable node,
\* cancellation in the queue, after the grant or inside the POST) loses or
\* invents a semaphore permit or an in_flight slot: a leaked permit would block
\* the node for ever, a spare one would overload it, and a wrong in_flight
\* count would misrank it in _ranked_nodes.
SlotsAccounted ==
    \A n \in Nodes :
        /\ permits[n] + Cardinality(HoldersAt(n)) = PerNodeLimit
        /\ inFlight[n] = Cardinality(PostingAt(n))

\* A shard never sleeps beside a free permit, unless a waiter that was already
\* granted its own is about to run and to wake it (the end of acquire()).
NoLostWakeup ==
    \A n \in Nodes :
        permits[n] > 0 /\ Wakeable(n) # {} =>
            \E t \in Waiting(n) : pc[t] = "granted"

\* A shard is sent to one node at most twice, and never again to a node it has
\* given up, whatever the registry says of that node meanwhile (_run_shard:
\* range(2) and "attempted").
AtMostTwicePerNode ==
    \A s \in Shards, n \in Nodes :
        /\ dispatched[s][n] <= 2
        /\ n \in attempted[s] /\ node[s] = n => pc[s] \in {"reassign"} \cup Over
        /\ n \notin attempted[s] /\ n # node[s] => dispatched[s][n] = 0

\* assigned_nodes in the job's response names every node that may have received
\* a part of the payload, after any number of reassignments.
AssignedCoversDispatch ==
    \A s \in Shards :
        {n \in Nodes : dispatched[s][n] > 0} \subseteq assigned[JobOf(s)]

\* "done" says that every shard got an answer, and that a search was merged
\* from answers of one embedding model; a job that is neither cancelled nor
\* free of errors is "failed".
VerdictIsRight ==
    \A j \in Jobs :
        /\ status[j] = "done" =>
              /\ \A s \in ShardsOf(j) : pc[s] = "ok"
              /\ kind[j] = "search" =>
                    \A s, t \in ShardsOf(j) :
                        \/ model[s] = NoModel \/ model[t] = NoModel
                        \/ model[s] = model[t]
        /\ status[j] = "failed" /\ terminal[j] = <<"failed">> => Errors(j)

\* A job whose task is over, settled or cancelled before it started, has no
\* shard left in a queue, with a permit or in a POST.
SettledIsQuiet ==
    \A j \in Jobs :
        ended[j] => \A s \in Shards : JobOf(s) = j =>
                        /\ pc[s] \in Over \cup {"none"}
                        /\ \A n \in Nodes : s \notin Waiting(n)

\* The feed says once how a job ended, and says what GET /jobs/{id} says.
OneTerminalEvent ==
    \A j \in Jobs :
        CASE status[j] = "done" -> terminal[j] = <<"completed">>
          [] status[j] = "failed" -> terminal[j] \in {<<"failed">>, <<"cancelled">>}
          [] OTHER -> terminal[j] = <<>>

\* The queue implements the ledger its callers see: whatever nodes come, go and
\* refuse, every accepted job gets one verdict and keeps it, and only close()
\* before the job's first step leaves it "queued" (submit, _run_job, close).
Ledger == INSTANCE JobLedger WITH open <- ~closed
ImplementsLedger == Ledger!Spec

\* tests/test_queue.py, test_pinned_job_uses_only_requested_node: a job pinned
\* to a node is sent to that node only.
PinnedStaysOnNode ==
    \A s \in Shards :
        pinned[JobOf(s)] # NoNode =>
            \A n \in Nodes \ {pinned[JobOf(s)]} : dispatched[s][n] = 0

-----------------------------------------------------------------------------
(* The inductive invariant behind SlotsAccounted. *)

\* The loop is held by the one shard that is between two awaits.
LoopOwner == \A s \in Shards : pc[s] \in Running <=> loop = s

\* A semaphore's queue holds exactly the shards that wait for its node, once.
QueuesMatch ==
    /\ \A n \in Nodes : \A i \in DOMAIN waiters[n] :
          /\ node[waiters[n][i]] = n
          /\ pc[waiters[n][i]] \in {"queued", "granted"}
          /\ \A h \in DOMAIN waiters[n] : waiters[n][i] = waiters[n][h] => i = h
    /\ \A s \in Shards : pc[s] \in {"queued", "granted"} => s \in Waiting(node[s])

\* A shard has a node from submit on, and a task only once its job runs.
Placed ==
    \A s \in Shards :
        /\ pc[s] # "none" \/ s[2] <= fanout[JobOf(s)] => node[s] \in Nodes
        /\ status[JobOf(s)] \in {"none", "queued"} => pc[s] = "none"

\* Every permit and every in-flight slot has its owner; inductive.
SlotInvariant == TypeOK /\ LoopOwner /\ QueuesMatch /\ Placed /\ SlotsAccounted

-----------------------------------------------------------------------------
(* The inductive invariant behind the job's outcome, on top of SlotInvariant. *)

Trying == {"acquire", "queued", "granted", "holding", "posting"}

\* What "attempt" and "attempted" say of the requests that were sent: a shard
\* without a first step sent none, one that tries a node has sent it at most as
\* many as it counts, and one that looks for another node gave up the last.
TriesMatch ==
    \A s \in Shards :
        /\ pc[s] \in {"none", "created"} =>
              /\ attempt[s] = 0 /\ attempted[s] = {}
              /\ \A n \in Nodes : dispatched[s][n] = 0
        /\ pc[s] \in Trying =>
              /\ node[s] \notin attempted[s]
              /\ dispatched[s][node[s]] <= attempt[s] + (IF pc[s] = "posting" THEN 1 ELSE 0)
        /\ pc[s] = "reassign" => node[s] \in attempted[s]

\* What a job's status, its task and close() say of one another, and that its
\* shards are those of its fan-out, each at a node the job names.
JobsMatch ==
    /\ \A j \in Jobs :
          /\ status[j] \in {"none", "running"} => ~ended[j]
          /\ status[j] \in Settled => ended[j]
          /\ cancelled[j] => closed /\ status[j] # "none"
          /\ closed /\ status[j] # "none" /\ ~ended[j] => cancelled[j]
          /\ status[j] = "none" => fanout[j] = 0
    /\ \A s \in Shards :
          /\ pc[s] # "none" => s[2] <= fanout[JobOf(s)]
          /\ s[2] <= fanout[JobOf(s)] => node[s] \in assigned[JobOf(s)]

\* What a caller and the nodes see of a job, with the bookkeeping that makes it
\* so; inductive together with SlotInvariant.
OutcomeInvariant ==
    /\ JobsMatch /\ TriesMatch
    /\ AtMostTwicePerNode /\ AssignedCoversDispatch
    /\ VerdictIsRight /\ SettledIsQuiet /\ OneTerminalEvent
    /\ NoLostWakeup

=============================================================================
