# A verification project for DAIN

DAIN pools a few machines behind a control plane (`ctl/`): node agents (`node/`)
join it, a scheduler (`sched/`) places the layers of a model on them, a head
process (`scripts/serve_head.py`, `infer/`) serves the model, a job queue fans
work out to the nodes, and an agent layer with a dashboard (`agent/`) uses it all.
This directory holds TLA+ models of that code, the TLC runs that check them and
proofs for TLAPS. `PROJECT.json` maps each definition to the lines it models.

    tlc -workers 2 -config QueueFailover.cfg MCJobQueue
    tlapm JobQueueProofs.tla

## Inventory

| component | state | operations | talks to |
|---|---|---|---|
| job queue `ctl/queue.py` | jobs, events, assigned nodes, in-flight counts, one semaphore per node, tasks | submit, _run_job, _run_shard, _request, close | reads the registry; POSTs to nodes; events go to the feed |
| registry `ctl/registry.py` | a record per node, an event list | register, heartbeat, sweep, remove | handlers' threads and the sweep task share it under a lock |
| join auth `ctl/auth.py`, `node/auth.py` | challenges, one token per node | issue_challenge, complete_join, validate_token, revoke | called by the handlers |
| handlers `ctl/main.py` | none of their own | join, challenge, heartbeat, delete, jobs, plan, feed | call registry, auth, telemetry, queue, scheduler in separate locked steps |
| telemetry `ctl/telemetry.py` | latest sample, history and poll error per node | poll_once, record, remove, frame | polls nodes; read by the feed |
| scheduler `sched/` | none: a function of profiles, metrics and model | plan, _assign_by_speed, _repair, fits, predict_tok_s | called by GET /api/plan |
| node agent `node/dain_node.py` | token, registered, child processes | heartbeat_loop, join_pool, send_heartbeat, job routes | ctl over HTTP |
| node start `main()`, `node/discovery.py`, `node/bench.py` | endpoint found, measured speeds | main, consider, calibrate, advertise | mDNS, llama-bench, then the pool |
| node services `node/infer.py, index.py, sandbox.py` | llama-server child and readiness; documents and generation; a running container | start/stop/complete; refresh/search; run | node routes |
| head launcher `scripts/serve_head.py`, `infer/launch.py` | llama-server child, membership it was started for, debounce timer | watch loop, plan_command, signal handler | polls ctl |
| agent `agent/*.py` | a conversation, cache of seen calls | submit_and_wait, ask_pool, ask | ctl's job API |
| dashboard `FeedProvider.tsx` | nodes, jobs, metrics folded from the feed | handleFrame, refreshJob, reconnect | /feed, /api/jobs |

What is hard here. *Concurrency*: the queue's tasks interleave at every await of
one event loop while other threads change the registry; handlers are sequences of
separately locked steps. *Failure*: nodes fail, refuse and vanish between
selection and dispatch; requests are lost or answered late; ctl keeps everything
in memory and may restart. *Cancellation*: close() hits a shard while it waits for
a permit, has just been granted one, or has a request out. *Time*: the offline
decision compares against a clock read before the lock; tokens and challenges
expire. *Arithmetic*: rounding shares of layers, one layer at least for each node.

What makes each correct: the queue gives every accepted job one right verdict,
never loses a permit or a wake-up and bounds its retries; the registry retires
exactly the silent nodes and its events tell the truth; an accepted plan puts each
layer on one node that can hold it; an agent always finds its way back into the
pool; the head runs on the current membership; the
agent gives up on no job that will still be done; the dashboard converges to ctl's
state. `PROJECT.json` lists the hazards line by line.

## Modules

**JobQueue** (`ctl/queue.py`). One shard task per (job, index) with a program
counter: `created`, `acquire`, `queued`, `granted`, `holding`, `posting`,
`reassign`, and the outcomes. Actions are the stretches of code between two
awaits, and within such a stretch the steps at which another thread's change of
the registry can matter; the variable `loop` names the shard that runs, so no
other task steps until it awaits. `permits` and `waiters` model
`asyncio.Semaphore` of Python 3.12 (external): a release hands the permit to the
first waiter, a granted waiter that is cancelled returns it and wakes the next.
`Submit`, `StartJob`, `FinishJob` are `submit` and `_run_job`; `Acquire`,
`Granted`, `Dispatch`, `Unavailable`, `RequestFailed`, `RequestAnswered`,
`Reassign`, `Exhausted` are `_request` and `_run_shard`; `Close`,
`CancelUnstarted`, `CancelShard`, `CancelJob` are `close()` and what the
cancellation does at each await; `NodeUsable` and `NodeLost` are the registry's
writers. Payloads and answers are reduced to what decides the verdict: answered,
failed or rejected, and the embedding model a search answer names.

**JobLedger** is the abstract specification of the queue: what a caller of the job
API sees. An accepted job starts and gets one verdict that stays; after shutdown
nothing starts. `JobQueue!ImplementsLedger` is the refinement, with `open` mapped
to `~closed`; TLC checks it with its fairness.

**NodeRegistry** (`ctl/registry.py`, `monitor_heartbeats`, `seed_registry`). Per
node: state, host, last heartbeat, missed count, whether heartbeats are required,
whether metrics came, and its events. `sweep` is two actions, `SweepReadClock`
before the lock and `SweepMark` under it. Time is in seconds; `Tick` does not pass
a sweep that is due, nor a sweep that has waited `SweepLag` for the lock.

**PlacementPlan** (`sched/plan.py`, `sched/cost.py`). Each turn of the two loops is
an action (`AssignNext`; `RepairMove`, `RepairSpin`), then `RepairEnd` and
`Conclude`. Ids are numbers since the code orders nodes by id. The code compares
floating-point figures of memory: here a layer takes `LayerSize` units, and a
rounding exactly halfway may go either way.

**Membership** (`node/dain_node.py` heartbeat loop, `ctl/auth.py`, handlers of
`ctl/main.py`, what `ctl/telemetry.py` remembers). A request is a slot with the
step its handler has reached; an agent that gave up on a request leaves it running.
Nonces and tokens are opaque and only compared. `Disturbance` collects losses,
delays, restarts of either side, expiries, a retirement by the sweep, and DELETEs.

**Telemetry** (`ctl/telemetry.py`). The polling task (`PollOnce` over the
reachable nodes, `PollNode`, and `Gathered` and `RecordPoll` when all have answered), heartbeats and removals
between any two of its steps. A sample is its place in the order in which its node
took them, so that an older one is seen to overwrite a newer one.

**Feed** (`send_feed` of `ctl/main.py`, `FeedProvider.tsx`). Both ends of the
WebSocket: the cycle that sends the topology and then the events, each read at its
own moment; a channel that may break; the dashboard's fold, its requests for a job,
which are answered late and in any order, with a 404 or not at all, its reconnect and
its timer. Callbacks see the jobs of the last render (`jobsRef`). `Restart` empties
ctl's registry, queue and sockets; a job it forgot is one it answers 404 for. What is
promised is stated as a comparison of the dashboard's state with ctl's once the
system has come to rest.

**HeadWatch** (`scripts/serve_head.py`, `infer/launch.py`). The launcher with each
request to ctl, each wait, the stop and the start of llama-server as steps; around
it membership, addresses, a restart of ctl after which the workers come back one by
one, failures, signals, and the systemd unit, which starts the launcher again and
ends its control group with it. Arguments are the command lines that select a path
in the code. Shares are named after the node they were computed for, so that a share
given to another machine is seen.

**NodeStart** (`main()` of `node/dain_node.py`, `node/discovery.py`,
`node/bench.py`). One supervised process from its start to its registration, in any
environment file; mDNS advertisements of control planes and of other nodes, and the
callback that asks each whether it is one; which rows of llama-bench count.

**LocalInference** (`node/infer.py`, the lifespan and `/infer`). The children of the
agent and the requests that wait for readiness and for an answer, with the time
each has used: a GET or a POST may take its timeout in every phase, whether it
succeeds or fails. **FileIndex** (`node/index.py`, `/index`, `/search`): the refresh
file by file under its lock, with the generation noted before the lock, against
files that change and searches on a snapshot. **Sandbox** (`node/sandbox.py`,
`/exec`): one command, two pipes, two readers and the capped collector they share,
the wait with its timeout, kill and audit line; bytes are numbered, so that what is
kept can be compared with what was written. Each has, next to its properties, the
part of its invariant that makes them inductive (`RequestsMatch`, `WalksMatch`,
`BytesStayInOrder` and `StepsAgree`).

**AgentLoop** (`agent/service.py`, `loop.py`, `tools.py`). The conversation loop with
the concurrent tool calls of a turn, each one or two requests to ctl, the cache of
answered questions and the trimmed history the page sends back. The model's answers
are arbitrary. **AskPool** (`agent/client.py`, `fanout.py`, with the part of
`ctl/queue.py` that decides how long a job takes): clients that poll with a deadline
against attempts that time out, are retried and wait for slots, in ticks.

**ShardResults** (`_split_payload` and `_merge_search_results` of `ctl/queue.py`, the
ranking of `node/index.py`). What JobQueue leaves out of payloads and answers: tasks
dealt out to shards and hits merged from the nodes' own best, in any pool of nodes
(`online`), compared with the definition of "the best of all documents".

How they compose: Membership puts agent, auth, registry and telemetry together at
the level of requests; AskPool and HeadWatch contain the part of ctl their subject
depends on; Feed has both sides of its connection. Where two modules meet, the
header says which of them has the detail.

**JobQueueProofs**, **NodeRegistryProofs**, **MembershipProofs**,
**PlacementPlanProofs**, **NodeProofs**, **AgentProofs** and **CtlProofs** hold the
theorems (below), **InductionFacts** the lemmas on minima, sorting and sums they
share. **MCNode**, **MCAgent** and **MCCtl** put modules into one run that share no state: a behaviour is one of one
part, chosen at the start, while the others rest, and each property is that of its
part. They repeat the fairness of the parts' FairSpecs, restricted to the part that
runs. **MCNodeStart** and **MCHeadWatch** instantiate their module with names of their
own, so that NodeProofs can speak of everything that runs on a node. The other
**MC...** modules only add symmetry sets and values for TLC.
Operators marked "mutant" are plausible bugs next to the definition they change; no
specification uses them.

## Runs

| run | instance | shows |
|---|---|---|
| queue_contention | 4 jobs, 1 node, 2 permits, close() | permits and in-flight counts add up; no shard sleeps beside a free permit; the proof's inductive invariant |
| queue_failover | 1 job of 2 shards, pinned or not, 2 nodes, search or other, close(), fair | at most two tries per node, assigned_nodes covers every dispatch, the verdict is right and told once, a settled job is quiet, every accepted job settles; the ledger is implemented |
| queue_pinned (violation) | 1 pinned job, 2 nodes | a pinned job is moved to another node |
| registry | 1 node, 2 hosts, the code's 2 s, 3 misses, 1 s | the offline decision is neither early nor late; events tell membership and alternate |
| placement | 3 nodes, 3 speeds, 5 memory sizes, 5 layers, fair | an accepted plan is a partition, fits, and its split follows; repair never overloads, uses its chances, ends |
| placement_refused (violation) | 2 nodes, 3 layers | a refusal for memory with room to spare |
| membership | 1 agent, 3 slots, 3 disturbances, fair | the agent always becomes a member again |
| head_watch | a head and a worker with 2 addresses, 5 command lines, 3 changes, 1 fault or signal, fair | the launcher compares with what it started; shares stay with their machines; flaps it sees are ignored; the server ends up over exactly the listed machines |
| node_start | every environment, 2 losses, up to 2 rows, fair | the node finds the right control plane, reports only what it measured, and comes into the pool |
| node_services, inference | 2 requests, 2 faults, 3 configurations, fair | children end with the agent, the node answers before the controller gives up if the server accepts its POST in time, an exited server is reported at once, 422 is for the caller's mistakes |
| node_services, index | 2 refreshes, 1 search, 2 files, 2 writes, fair | caps hold, the index never goes back, searches compare vectors of one length, statistics are new, every refresh is answered |
| node_services, sandbox | 3 bytes a stream, pipes of 1, chunks of 2, 5 caps, fair | the beginning of each stream is kept within the cap, truncated is said when true, the execution ends and logs once |
| agent, loop | 2 prompts of 2 turns of up to 2 calls, fair | calls are answered in order, repeats stay home, only the head ends a conversation, every prompt ends |
| agent, pool | 2 prompts, 2 nodes, 2 faults | a client outlasts one attempt, ends in bounded time and reports its own job's fate |
| ctl, samples | 2 nodes, 2 samples, history of 1, 2 changes, fair | a frame agrees with itself; polling goes on until it is closed |
| ctl, feed | 2 nodes and 3 changes, or 1 job and 2 requests; 1 broken connection, lost request or restart of ctl; fair | each event once per connection; every member ends up shown in its state; a job ctl knows as finished does not stay shown as running |
| ctl, shards | up to 7 tasks on 3 nodes; 2 nodes of up to 3 documents, 2 scores, 2 models | each task goes to one shard, none is empty, the load is even; what is merged is the best of all, of one embedding model |

Most modules have one invariant that is a conjunction of named parts, the type
invariant among them (`SlotInvariant`, `RegistryInvariant`, `PlanInvariant`,
`HeadInvariant`, `IndexInvariant`, `SandboxInvariant`, `PoolInvariant` and so on);
each part is stated and explained where it is defined, and has a mutant of its own
in `PROJECT.json`. `ImplementsLedger` carries the queue's liveness: the ledger's
fairness says that every accepted job is started and settled. `EveryRequestEnds`
and `FeedConverges` join the liveness of the parts of their runs.

A violation run is a disagreement between the code and a line of its docs, comments
or tests; `findings` in `PROJECT.json` quotes that line.

Why the bounds are enough. Contention for a permit needs a holder, a granted
waiter and one behind it beside a free permit: four jobs on two permits have all of
them. Failover needs a node to give up on and one to go to; two shards give the
partial failures. The registry treats nodes independently, so one node shows all
its histories; 20 s hold three offline periods and six events every kind of event.
Three nodes are a first, a middle and a last one for the planner's loops, and five
layers of two units make shares and budgets that do not divide. In `membership`
two abandoned requests or removals race with the current one. A head that is compared
with the wrong membership needs one change to start over and one to miss; three
changes have both. The head is not the first node by id, so shares in the planner's
order are in the wrong one. Seconds of the launcher keep the code's
values: polls of 2 s, or 7 s when a request is slow, and a debounce of 5 s between
them. Two requests for a job overtake each other; two calls of a turn are the first
and the repeated one. In AskPool the ticks keep the order the code asserts (node
ceiling < dispatch timeout < polling deadline). In `LocalInference` a request to a
server takes no time, one unit or three: a poll that begins just before the deadline
can take three phases of one unit, a generation its whole timeout of three, and the
margin is exactly the poll and the pause after it, so that a dispatch timeout without
its margin is passed (mutant `NoMargin`). The run leaves out that a
llama-server is installed on a node whose configuration does not start one, and looks
at an agent without an rpc-server only where no backend is configured (`MCNode!Init`);
the theorems hold without these restrictions. The second refresh waits, and two
writes change a file before and after it is read; a file beyond the size limit can
only come in by growing between stat and read. Pipes smaller than a chunk block
the command, and the caps are zero, inside the first chunk, between chunks, exactly
everything and above the maximum. Three documents on a disk and limits of one and two
cut hits off, and two scores give ties; five tasks on three shards are the first
number that slices deal out unevenly. `MaxClock`,
`MaxEvents`, `MaxReported`, `MaxFanout`, `MaxFaults`, `Slots`, `Secrets`,
`MaxChanges`, `MaxChurn`, `MaxLosses`, `MaxPrompts`, `MaxWrites`, `MaxOutput`, `MaxRows`,
`MaxTasks`, `MaxMoves` and their like are bounds of the models only. Where a cfg turns deadlock checking off, the system may
stop: every job is settled, plan() has returned, or the clock's bound is reached.

Fairness. The event loop runs a task that can run, httpx answers or times out
every request (queue timeouts are finite), so shard, job and cancellation steps are
weakly fair; the registry's changes are not fair. plan() is one call. In
`Membership` agent loops and handler threads are weakly fair and the disturbances
are not; they are finitely many in each behaviour, which makes "for good" in
`Rejoins` meaningful: in reality a token expires every five minutes and the
property says that each time the agent is back before long.

In the other modules likewise: what the event loop, a thread or a timer of the code
drives is weakly fair, what the world does is not. HeadWatch: the launcher's steps,
systemd's relaunch, and workers' heartbeats and rejoining.
AgentLoop: the whole step, since every request of the client times out. FileIndex:
the threads of a refresh. LocalInference: requests have a timeout at every await and
every phase.
Sandbox: parent, readers and command are scheduled; the timeout is relied on only
for a command that never ends by itself. Feed: the sending cycle, the socket, the
reconnect timer, the page's renders, the stale timer and the dashboard's requests,
of which finitely many fail. Telemetry: the
polling task. NodeStart: main() goes on and systemd starts it again; an advertised
control plane is heard, not always but again and again (strong fairness), because
each start listens for three seconds.

## Proofs

Each theorem holds for every value of the constants that satisfies the ASSUMEs:
any finite sets of nodes and jobs, any number of files, requests and bytes, any
limits, intervals and timeouts. The argument is the same everywhere. A module's
invariant is a conjunction of what is promised and of the bookkeeping that makes it
inductive; the runs check the same conjunction. There is one lemma per action, an
action that touches one node, request, shard or stream is reduced to what it does to
that one, and the theorem puts initial states and steps together.

**Job queue.** `SlotsAreOwned`, `SlotsAreAccounted` and `TypeCorrect`
(JobQueueProofs): `Spec => []SlotInvariant`, and from it `SlotsAccounted` and
`TypeOK`. That permits add up is not inductive: releasing hands a permit to the first
waiter, so one must know that the waiters' queue of a node holds exactly the shards
that wait for that node, without repetition (`QueuesMatch`), that only the running
shard is at a running step (`LoopOwner`), and that a shard with a permit has a node
(`Placed`). The counting is by lemmas on the cardinality of a set that gains, loses
or keeps one shard.

`OutcomeIsRight` (JobQueueProofs too) proves `OutcomeInvariant`, which is inductive
together with `SlotInvariant`, and from it `RetriesAreBounded`, `AssignedIsComplete`,
`VerdictsAreRight`, `SettledJobsAreQuiet`, `EndIsToldOnce` and, the freedom from lost
wake-ups, `NobodyOversleeps`. `TriesMatch` ties the number of
requests to a node to the attempt counter and to the nodes given up; `JobsMatch` ties
status, task and close() of a job together. A wake-up is lost only if a permit becomes
free while the first waiter sleeps, so each action that adds a permit is shown to wake
or to have nobody to wake. `QueueKeepsTheLedger` is the safety half of the
refinement: every step of the queue is a step of JobLedger or leaves it alone
(`Spec => Ledger!Safety`).

**Registry.** `SweepsAreInTime`, `SilenceIsBounded`, `RetirementIsDeserved`,
`RegistryTypeCorrect`, `EventsAreFaithful`. The inductive `RegistryInvariant` says that
clock readings are late by a bounded time (`SweepInTime`) and that every watched node
had been heard from when the last sweep judged it (`SweptOver`); a lemma on integer
division turns "k whole intervals" into a bound on time. For the events, the last
word of a log is shown to be what an appended event makes it.

**Membership.** `MembershipIsSafe`: an agent that counts itself registered holds a
token. The induction needs that an agent waits for a request of its own that is still
under way, and that requests carry the secret of their step (`CallsMatch`), although
handlers outlive the agent's patience and both sides restart.

**Planner.** `PlanIsWellFormed` (`PlanInvariant`), `EveryLayerOnce`,
`AcceptedPlansFit`, `HardStopIsFarEnough`, `RepairIsSafe`. The first
loop never gives out more layers than are left, however the shares round, and its last
node takes the rest, so from then on the counts add up to `TotalLayers`
(`LayersAccounted`); a turn of repair takes one layer off the overloaded nodes unless
it spins on a node with a single one, so there are at most `TotalLayers` useful turns
(`RepairPaysOff`), which is why the hard stop is far enough.
`PlanIsWellFormed` has the hypothesis `TotalLayers < Scale`: shares are rounded to
`Scale` units, and a layer of a larger model could round to a share of zero. The code
rounds to four decimals, so it holds of every model of fewer than 10000 layers.

**Head launcher** (NodeProofs). `HeadIsConsistent` (`HeadInvariant`) and `FlapsDoNotRestart`. A
command is the one of the members it was made for (`StartedAsPlanned`), and the clock
of a change never runs ahead of the time since the running membership was last seen
(`ClocksAgree`).

**Node services** (NodeProofs, over MCNode; the services share no state, so a step of
the node is a step or a stutter of each service). `InferenceIsSafe` and
`NodeAnswersInTime`: a request's time is bounded at each of its steps, and a dead
supervised server stays dead until the request is answered (`RequestsMatch`). The
poll that begins last begins before the deadline and takes a `HealthTimeout` in each
phase, and what is left of the margin is for connecting and writing the POST; that
the margin is no shorter than a poll and its pause is assumed (60 s against 6.5 s).
`IndexIsSafe` and `IndexNeverGoesBack`: whoever walks holds the lock, and what it has
read of a file is between the version published and the one on disk (`WalksMatch`);
so what it publishes is not older than what it replaces. `SandboxIsSafe`: the bytes
of a stream are, in this order, kept, lost, with the reader and in the pipe, and none
is lost before the cap is reached (`BytesStayInOrder`); so what is kept is a beginning
whichever reader takes the last of the room.

**Node start** (NodeProofs). `StartIsSafe` (`StartInvariant`): the endpoint is that of
a control plane, and the profile holds a speed only where it was measured. Before a
step has run, what it will find is blank (`StartsBlank`), so nothing is left over from
a run that systemd ended; and the speed of a phase is that of its last row, a row that
llama-bench printed for that phase.

**Agent** (AgentProofs, over MCAgent). `LoopIsSafe` (`LoopInvariant`): the answers of a
turn are those of its calls and in their order, whichever call ends first, because a
call keeps its place from the model's message to the tool messages. `NoQuestionTwice`
(`RepeatsStayHome`): a question answered in an earlier turn is in the cache, and the
cache outlives the turns. `PoolIsSafe` (`PoolInvariant`): an attempt that did not have to
wait is at least as old as the client's wait for it (`ClientMatchesJob`), so that a
client that gives up has outlasted what an attempt may take; and prompts are dealt out
over nodes in order, so that a prompt that finds its machine taken shares it with one
that was moved there.

**Control plane** (CtlProofs, over MCCtl). `CtlIsSafe` (`CtlInvariant`). *Samples*: the
latest sample is the last of its history, which is no longer than its limit, and the
answers a poll collects are of its own cycle (`AnswersAreOfThisCycle`), although
heartbeats and removals come in between. *Feed*: the events in the channel are those
after the last one the dashboard got, up to the last one sent, without gap or
repetition (`OnTheirWay`, `NothingIsSkipped`), although more are added between the
topology and the events; `EventsArriveOnce` (`EachEventOnce`) follows, as the next
frame is the next event. *Shards*: `ResultsAreBest` (`ResultsAreRight`). Task t goes to
shard t modulo the number of shards: by lemmas on quotients every task has one shard
and one place there, and the shards' counts differ by one at most. For a search it is
shown that merging the best of each node gives the best of all documents: a hit that a
node cut off is ranked below as many hits as the limit says, and those come before it
in the merged ranking too (`OneRanking`: the node's order and the merged one agree on
the hits of a node). What "the best `limit` of a finite set" has to satisfy is proved
for any strict order (`BestComeFirst`, `BestAreFew`, `BestAreFull`).

**InductionFacts.** The library's induction theorems take a property as a parameter,
which the provers cannot instantiate. Here induction is stated with a set in its place
(a set of numbers has a smallest one, every subset of a finite set is reached by
adding members one by one). That is enough to prove that a finite set of numbers can be listed in order
(the workers of HeadWatch) and how `SumFunctionOnSet` changes when an argument is
added or one value is (the layers of a plan, the bytes of an index).

Only model-checked: liveness (`PlanAnswers`, `Rejoins`, `FollowsMembership`,
`ComesUp`, `EveryRequestEnds`, `EveryPromptEnds`, `PollingGoesOn`, `FeedConverges`)
and the ledger's fairness in `ImplementsLedger`: fairness and ENABLED are out of the
prover's reach. Every invariant and every action property that a passing run checks
is stated by a theorem. MCNode, MCAgent and MCCtl have theorems about their own
`Spec`, whose safety part is that of the modules they put together.

## What the models say of some comments

Some lines of the repository promise more than the code does. Two have a run of
their own (queue_pinned, placement_refused). The others follow from the modules in a
few steps, and the properties above are worded so that they claim what does hold:

- `serve_head.py:412` logs "membership settled": the debounce counts from the first
  difference (`changedFor` in HeadWatch), so a second change just before it runs out
  restarts the head at once.
- `serve_head.py:13`, ctl stays "restartable without killing inference": a poll of a
  restarted ctl lists too few nodes, and when the workers take longer than the
  debounce to join again the head is restarted; `FollowsMembership` says it recovers.
- `--placement` with `--exclude`: ctl plans over all nodes, the launcher refuses the
  plan at every start; `FollowsMembership` leaves these command lines out.
- `loop.py:140`, no second trip for the same question: true across turns
  (`RepeatsStayHome`), not for two equal calls of one turn, which run concurrently.
- `fanout.py`, "one per node, wrapping when short": a prompt waits at first only for a
  machine that took over another prompt's job (`NoPromptWaitsAtFirst`).
- `client.py:46`, no timeout for a job that will still succeed: true of one attempt
  (`PatientWithOneAttempt`), not of a retry or of a wait for a slot.
- `infer.py:228`, "block until llama-server answers": readiness is remembered, so
  after a restart of an external server requests go to it while it loads.
- `index.py:196`: a refresh that waited returns the walk of another one. Its index
  was published after the call (`StatsAreNew`), its files may have been read before.
- `FeedProvider.tsx:12`, "the current picture": a removed node's event makes a card
  again, and the answer to a submission can replace a later status.
  `MembersAreCurrent` and `NotRunningForGood` are what remains. A job that was running
  when ctl was restarted stays shown as running for good: ctl has forgotten it, and
  `refreshJob` leaves a job as it was when the answer is a 404.
- `queue.py:31`, a dispatch timeout "must EXCEED the node's own ceiling": httpx applies
  `REQUEST_TIMEOUT_S` to connecting, writing and reading each, so a server that is slow
  to accept the POST takes the node past it. `NodeAnswersFirst` excepts such requests.
- `types.ts:19`, samples of "RIGHT NOW": a poll is recorded when its slowest node has
  answered and may replace a newer heartbeat; a poll begun before a removal puts the
  removed node back into the frame.
- `dain_node.py:437`: a join refused for an expired or forgotten challenge is logged
  as a wrong secret. `dain_node.py:126`: the address is looked up once, and may be
  the loopback address when the network is down. `dain_node.py:216`, "never fatal":
  a model below a directory that may not be searched ends every start, which is the
  exception `ComesUp` makes.
- `README.md:301`, every machine searches its own disk: a shard whose node failed
  moves to a node that is searched already, and the failed one's disk is left out.

## Not modelled

- Signatures and the HMAC: all parties are assumed to know the secret.
- The GGUF memory estimates, the model ladder and the predicted speed
  (`infer/memory.py`, `infer/spec.py`, `sched/cost.py` partly): arithmetic over
  tables and file headers, without state; the planner takes a layer's size as given.
- The mock control plane and the scheduler demo: fixed sample data.
- Fabric, model and agent scripts: command-line tools that download, check and print.
- Metrics and flow frames of the feed, the llama-server's samples in the telemetry,
  the pages of the dashboard: rendered, never decided upon.
- The sandbox's rules about names, options and paths, the validation of a /bench
  payload, tokenisation and snippets of the index: string handling.
- A start of the agent that fails after its children were started (`lifespan`).
- Errors of a poll that are recorded after their node was removed: `FrameIsWhole`
  compares the latest sample with the history only.
- A control plane that comes back at another address while an agent serves: the
  agent asks the old one for ever, by design of `main()`.
- Formatting and log lines; the order of registry events across nodes; JSON and HTTP
  status codes beyond the cases the code tells apart.

## Plan

1. Done: JobQueue, JobLedger, NodeRegistry, PlacementPlan, Membership and the
   proofs above.
2. Done: HeadWatch; Feed; AgentLoop and AskPool; Telemetry and ShardResults;
   FileIndex, LocalInference and Sandbox; NodeStart.
3. Done: proofs of the queue, the registry, membership, the planner, the head
   launcher, the node's start and services, the agent, and the control plane's
   samples, feed and results: all safety that the runs check.
4. Left: the parts listed under "Not modelled". Of these the predicted speed of a
   plan and the memory estimates are functions that a reference definition could be
   written for.
