-------------------------------- MODULE Feed --------------------------------
(***************************************************************************)
(* The live feed: send_feed of ctl/main.py on one side of a WebSocket,     *)
(* the dashboard's FeedProvider.tsx on the other.                          *)
(*                                                                         *)
(* A cycle of send_feed sends the topology if it differs from the last one *)
(* sent, then the registry's and the queue's events since the last one.    *)
(* The dashboard merges frames, and the answers of its own requests, in    *)
(* the order in which they arrive.  The connection may break and is made   *)
(* again, requests may fail, and ctl may be restarted, which forgets the   *)
(* job.  Metrics frames, and node_id and flow of jobs, are left out.       *)
(***************************************************************************)
EXTENDS Naturals, Sequences, SequencesExt

CONSTANTS
    Nodes,
    Slots,         \* requests of the dashboard in progress, at most
    Removals,      \* whether nodes may be deleted
    Submits,       \* whether the job is submitted from this dashboard
    MaxChanges,    \* changes of membership, at most
    MaxDrops,      \* broken connections, failed requests and restarts of ctl, at most
    MaxRefresh     \* refreshJob for a new job, at most

FeedAssumption ==
    /\ Removals \in BOOLEAN /\ Submits \subseteq BOOLEAN
    /\ MaxChanges \in Nat /\ MaxDrops \in Nat /\ MaxRefresh \in Nat

VARIABLES
    members, events,     \* the registry: state of every node, and the nodes of its events
    job, jobEvents,      \* the queue: status of the one job, and the statuses in its events
    cycle,               \* where send_feed is
    lastTopology, lastRegistry, lastQueue,   \* its local variables
    channel,             \* frames on their way
    nodes, shown,        \* the dashboard: its nodes, and its status of the job
    jobsRef,             \* that status as its callbacks see it, a render behind
    fetch,               \* its requests for the job
    got,                 \* sequence numbers of the last events it got
    changes, drops, refreshes

ctl == <<members, events, job, jobEvents>>
sender == <<cycle, lastTopology, lastRegistry, lastQueue>>
dashboard == <<nodes, shown, jobsRef, fetch, got>>
bounds == <<changes, drops, refreshes>>
vars == <<ctl, sender, channel, dashboard, bounds>>

States == {"idle", "offline"}
NoNode == "absent"
Status == {"absent", "queued", "running", "done"}
\* What ctl knows of the job: it may also have known it before it was restarted.
JobStates == Status \cup {"forgotten"}
Nothing == [n \in Nodes |-> NoNode]
Frames ==
    [type : {"topology"}, content : [Nodes -> States \cup {NoNode}]]
        \cup [type : {"registry"}, content : [sequence : Nat, event : Nodes]]
        \cup [type : {"queue"}, content : [sequence : Nat, event : Status]]

TypeOK ==
    /\ members \in [Nodes -> States \cup {NoNode}]
    /\ events \in Seq(Nodes) /\ jobEvents \in Seq(Status)
    /\ job \in JobStates /\ cycle \in {"closed", "opens", "topology", "registry", "queue"}
    /\ lastTopology \in [Nodes -> States \cup {NoNode}]
    /\ lastRegistry \in 0..Len(events) /\ lastQueue \in 0..Len(jobEvents)
    /\ nodes \in [Nodes -> States \cup {NoNode, "no state"}]
    /\ shown \in Status /\ jobsRef \in Status
    /\ fetch \in [Slots -> {"none", "asked"} \cup Status]
    /\ got \in [registry : 0..Len(events), queue : 0..Len(jobEvents)]
    /\ changes \in 0..MaxChanges /\ drops \in 0..MaxDrops /\ refreshes \in 0..MaxRefresh

Init ==
    /\ members = Nothing /\ events = <<>> /\ job = "absent" /\ jobEvents = <<>>
    /\ cycle = "closed" /\ lastTopology = Nothing /\ lastRegistry = 0 /\ lastQueue = 0
    /\ channel = <<>> /\ nodes = Nothing /\ shown = "absent" /\ jobsRef = "absent"
    /\ fetch = [s \in Slots |-> "none"] /\ got = [registry |-> 0, queue |-> 0]
    /\ changes = 0 /\ drops = 0 /\ refreshes = 0

(***************************************************************************)
(* The control plane                                                       *)
(***************************************************************************)

\* A node joins or comes back, goes offline, or is removed; each leaves an event.
Change(n) ==
    /\ changes < MaxChanges /\ changes' = changes + 1
    /\ \/ members[n] # "idle" /\ members' = [members EXCEPT ![n] = "idle"]
       \/ members[n] = "idle" /\ members' = [members EXCEPT ![n] = "offline"]
       \/ Removals /\ members[n] # NoNode /\ members' = [members EXCEPT ![n] = NoNode]
    /\ events' = Append(events, n)
    /\ UNCHANGED <<job, jobEvents, sender, channel, dashboard, drops, refreshes>>

\* The job is submitted, here or elsewhere.  The answer to the one who submits it
\* here is on its way.
Submit ==
    /\ job = "absent" /\ job' = "queued" /\ jobEvents' = <<"queued">>
    /\ \E here \in Submits :
           IF here THEN \E s \in Slots : fetch[s] = "none" /\ fetch' = [fetch EXCEPT ![s] = "queued"]
           ELSE UNCHANGED fetch
    /\ UNCHANGED <<members, events, sender, channel, nodes, shown, jobsRef, got, bounds>>

\* The queue starts and completes it; an event carries the status it led to.
Advance ==
    /\ \/ job = "queued" /\ job' = "running" /\ jobEvents' = Append(jobEvents, "running")
       \/ job = "running" /\ job' = "done" /\ jobEvents' = Append(jobEvents, "done")
    /\ UNCHANGED <<members, events, sender, channel, dashboard, bounds>>

\* ctl keeps everything in memory.  Its sockets close before the queue does, so
\* what becomes of the job is not sent; a request it has not answered fails.
Restart ==
    /\ drops < MaxDrops /\ drops' = drops + 1
    /\ members' = Nothing /\ events' = <<>> /\ jobEvents' = <<>>
    /\ job' = IF job = "absent" THEN "absent" ELSE "forgotten"
    /\ cycle' = "closed" /\ lastTopology' = Nothing /\ lastRegistry' = 0 /\ lastQueue' = 0
    /\ channel' = <<>> /\ got' = [registry |-> 0, queue |-> 0]
    /\ fetch' = [s \in Slots |-> IF fetch[s] = "asked" THEN "none" ELSE fetch[s]]
    /\ UNCHANGED <<nodes, shown, jobsRef, changes, refreshes>>

(***************************************************************************)
(* send_feed                                                               *)
(***************************************************************************)
Frame(type, content) == [type |-> type, content |-> content]

Open ==
    /\ cycle = "opens" /\ cycle' = "topology"
    /\ channel' = Append(channel, Frame("topology", members))
    /\ lastTopology' = members /\ lastRegistry' = 0 /\ lastQueue' = 0
    /\ UNCHANGED <<ctl, dashboard, bounds>>

\* mutant: the topology is sent only when the socket opens.
SentAtOpening == FALSE
TopologyChanged == members # lastTopology

SendTopology ==
    /\ cycle = "topology" /\ cycle' = "registry"
    /\ channel' = IF TopologyChanged THEN Append(channel, Frame("topology", members)) ELSE channel
    /\ lastTopology' = members
    /\ UNCHANGED <<ctl, lastRegistry, lastQueue, dashboard, bounds>>

\* mutant: the event at the sequence number is sent again.
EventsFrom(history, sequence) == IF sequence = 0 THEN 1 ELSE sequence
\* The first of the events after a sequence number.
EventsAfter(history, sequence) == sequence + 1

FramesOf(type, history, sequence) ==
    LET first == EventsAfter(history, sequence) IN
    [i \in 1..(Len(history) + 1 - first) |->
        Frame(type, [sequence |-> first + i - 1, event |-> history[first + i - 1]])]

\* The events are read at once and then sent one by one.
SendRegistryEvents ==
    /\ cycle = "registry" /\ cycle' = "queue"
    /\ channel' = channel \o FramesOf("registry", events, lastRegistry)
    /\ lastRegistry' = Len(events)
    /\ UNCHANGED <<ctl, lastTopology, lastQueue, dashboard, bounds>>

\* Then the cycle waits.
SendQueueEvents ==
    /\ cycle = "queue" /\ cycle' = "topology"
    /\ channel' = channel \o FramesOf("queue", jobEvents, lastQueue)
    /\ lastQueue' = Len(jobEvents)
    /\ UNCHANGED <<ctl, lastTopology, lastRegistry, dashboard, bounds>>

(***************************************************************************)
(* FeedProvider                                                            *)
(***************************************************************************)

\* connect, and the timer that calls it after onclose.
Connect ==
    /\ cycle = "closed" /\ cycle' = "opens"
    /\ channel' = <<>> /\ got' = [registry |-> 0, queue |-> 0]
    /\ UNCHANGED <<ctl, lastTopology, lastRegistry, lastQueue, nodes, shown, jobsRef, fetch, bounds>>

\* What was on its way is lost.
Drop ==
    /\ cycle # "closed" /\ drops < MaxDrops /\ drops' = drops + 1
    /\ cycle' = "closed" /\ channel' = <<>>
    /\ UNCHANGED <<ctl, lastTopology, lastRegistry, lastQueue, dashboard, changes, refreshes>>

GotTopology(content) ==
    /\ nodes' = content /\ UNCHANGED <<shown, fetch, got, refreshes>>

\* An event carries no state; a node that is not there is made up from it.
Merged(n) == IF nodes[n] = NoNode THEN "no state" ELSE nodes[n]

GotRegistryEvent(content) ==
    /\ nodes' = [nodes EXCEPT ![content.event] = Merged(content.event)]
    /\ got' = [got EXCEPT !.registry = content.sequence]
    /\ UNCHANGED <<shown, fetch, refreshes>>

\* refreshJob begins.
Ask == \E s \in Slots : fetch[s] = "none" /\ fetch' = [fetch EXCEPT ![s] = "asked"]

\* A job that is new to the callbacks is also fetched.
GotQueueEvent(content) ==
    /\ shown' = content.event
    /\ got' = [got EXCEPT !.queue = content.sequence]
    /\ IF jobsRef = "absent" /\ refreshes < MaxRefresh /\ \E s \in Slots : fetch[s] = "none"
       THEN Ask /\ refreshes' = refreshes + 1
       ELSE UNCHANGED <<fetch, refreshes>>
    /\ UNCHANGED nodes

HandleFrame ==
    /\ channel # <<>> /\ channel' = Tail(channel)
    /\ LET frame == Head(channel) IN
       \/ frame.type = "topology" /\ GotTopology(frame.content)
       \/ frame.type = "registry" /\ GotRegistryEvent(frame.content)
       \/ frame.type = "queue" /\ GotQueueEvent(frame.content)
    /\ UNCHANGED <<ctl, sender, jobsRef, changes, drops>>

\* The effect that writes jobsRef, after a render.
Render ==
    /\ jobsRef # shown /\ jobsRef' = shown
    /\ UNCHANGED <<ctl, sender, channel, nodes, shown, fetch, got, bounds>>

\* mutant: the timer looks for another name of the status.
StaleWhenStarted == jobsRef = "started"
Stale == jobsRef = "running"

\* The interval timer, whatever it asked before.
RefreshStale ==
    /\ Stale /\ Ask
    /\ UNCHANGED <<ctl, sender, channel, nodes, shown, jobsRef, got, bounds>>

\* GET /api/jobs/{id} is served; "absent" is the 404 for a job ctl does not know.
ServeJob(s) ==
    /\ fetch[s] = "asked"
    /\ fetch' = [fetch EXCEPT ![s] = IF job = "forgotten" THEN "absent" ELSE job]
    /\ UNCHANGED <<ctl, sender, channel, nodes, shown, jobsRef, got, bounds>>

\* The answer arrives: upsertJob from refreshJob or seedJob.  An answer that is
\* not ok leaves the job as it was.
JobArrives(s) ==
    /\ \/ fetch[s] \in Status \ {"absent"} /\ shown' = fetch[s]
       \/ fetch[s] = "absent" /\ UNCHANGED shown
    /\ fetch' = [fetch EXCEPT ![s] = "none"]
    /\ UNCHANGED <<ctl, sender, channel, nodes, jobsRef, got, bounds>>

\* A network error: the request or its answer is lost, and so is the patch.
FetchFails(s) ==
    /\ fetch[s] # "none" /\ fetch' = [fetch EXCEPT ![s] = "none"]
    /\ drops < MaxDrops /\ drops' = drops + 1
    /\ UNCHANGED <<ctl, sender, channel, nodes, shown, jobsRef, got, changes, refreshes>>

----------------------------------------------------------------------------
SendFeed == Open \/ SendTopology \/ SendRegistryEvents \/ SendQueueEvents

Next ==
    \/ \E n \in Nodes : Change(n)
    \/ Submit \/ Advance \/ Restart \/ SendFeed \/ Connect \/ Drop
    \/ HandleFrame \/ Render \/ RefreshStale
    \/ \E s \in Slots : ServeJob(s) \/ JobArrives(s) \/ FetchFails(s)

Spec == Init /\ [][Next]_vars

\* The cycle repeats, the socket delivers, the page renders, the timers fire and
\* requests are answered; connections, requests and ctl fail finitely often, and
\* jobs end.
FairSpec ==
    /\ Spec /\ WF_vars(Advance) /\ WF_vars(SendFeed) /\ WF_vars(Connect)
    /\ WF_vars(HandleFrame) /\ WF_vars(Render) /\ WF_vars(RefreshStale)
    /\ \A s \in Slots : WF_vars(ServeJob(s) \/ JobArrives(s))

(***************************************************************************)
(* Properties                                                              *)
(***************************************************************************)

\* The events of a type that are on their way are those between the last one the
\* dashboard got and the last one sent, in their order.
OnTheirWay(type, first, last) ==
    LET Of == {i \in DOMAIN channel : channel[i].type = type} IN
    /\ first <= last + 1
    /\ \A i \in Of : channel[i].content.sequence \in first..last
    /\ \A s \in first..last : \E i \in Of : channel[i].content.sequence = s
    /\ \A i, j \in Of : i < j => channel[i].content.sequence < channel[j].content.sequence

\* A new connection starts from nothing, and an open one has every event the
\* dashboard did not get yet (send_feed, connect).
NothingIsSkipped ==
    /\ channel \in Seq(Frames)
    /\ job = "absent" => jobEvents = <<>>
    /\ cycle \in {"closed", "opens"} => channel = <<>>
    /\ cycle = "opens" => got.registry = 0 /\ got.queue = 0
    /\ cycle \notin {"closed", "opens"} =>
          /\ OnTheirWay("registry", got.registry + 1, lastRegistry)
          /\ OnTheirWay("queue", got.queue + 1, lastQueue)

FeedInvariant == TypeOK /\ NothingIsSkipped

\* Over one connection every event arrives once and in order, although more are
\* added while a cycle sends (events_after, the sequence numbers of send_feed).
EachEventOnce ==
    [][cycle' \notin {"opens", "closed"} /\ channel # <<>> /\ channel' = Tail(channel) =>
           LET frame == Head(channel) IN
           /\ frame.type = "registry" => frame.content.sequence = got.registry + 1
           /\ frame.type = "queue" => frame.content.sequence = got.queue + 1]_vars

\* Once membership is quiet the dashboard shows every member in its state,
\* through broken connections, replayed events and restarts of ctl.
MembersAreCurrent ==
    <>[](\A n \in Nodes : members[n] # NoNode => nodes[n] = members[n])

\* A job that ctl knows as finished is not shown as running for good, even when
\* an old answer overwrites what the feed said or requests about it fail
\* (staleInterval, refreshJob).  One that a restart made ctl forget may be: every
\* request for it gets a 404, which leaves it as it was.
NotRunningForGood == <>[](job = "done" => shown # "running")
=============================================================================
