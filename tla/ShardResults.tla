---------------------------- MODULE ShardResults ----------------------------
(***************************************************************************)
(* What the shards of one job are given and what becomes of their answers: *)
(* _split_payload and _merge_search_results of ctl/queue.py, over the      *)
(* ranking of node/index.py.                                               *)
(*                                                                         *)
(* Module JobQueue has how shards are run.  Here a shard answers from the  *)
(* node it is on or moves to another one; the load that ranks nodes is     *)
(* arbitrary, and the pool stays as it is.  Sorting hits and keeping the   *)
(* first of them is keeping the best, a set.                               *)
(***************************************************************************)
EXTENDS Naturals, Sequences, SequencesExt, FiniteSets, Functions

CONSTANTS
    Nodes, Paths, Scores,   \* ordered by <, as the code compares them
    Models,                 \* embedding models
    Limits,                 \* the payload.limit of a search; 0 when it has none
    DefaultLimit,           \* what both sides take then
    MaxTasks,               \* bound on payload.tasks
    MaxFanout,
    MaxMoves                \* bound on the shards that change nodes

ShardAssumption ==
    /\ IsFiniteSet(Nodes) /\ IsFiniteSet(Paths) /\ Nodes \cup Paths \cup Scores \cup Limits \subseteq Nat
    /\ {DefaultLimit, MaxFanout} \subseteq Nat \ {0}
    /\ MaxTasks \in Nat /\ MaxMoves \in Nat

VARIABLES
    online,     \* the nodes in the pool
    disk,       \* how well the indexed paths of every node match the query
    embedder,   \* the embedding model of every node
    kind, limit,
    tasks,      \* payload.tasks
    chunks,     \* what every shard is given, the payload when it has no tasks
    selected,   \* the nodes the shards were first assigned to
    node,       \* where every shard is now
    attempted,  \* the nodes a shard has given up on
    answers,    \* every shard's answer: {} while it has none
    lost,       \* shards that were rejected or found no node to go to
    result      \* the best hits, and the status of the job

vars == <<online, disk, embedder, kind, limit, tasks, chunks, selected, node, attempted,
          answers, lost, result>>
given == <<online, disk, embedder, kind, limit, tasks>>

Disks == UNION {[indexed -> Scores] : indexed \in SUBSET Paths}
Hits == [score : Scores, node : Nodes, path : Paths, shard : 1..MaxFanout]
Shards == DOMAIN selected

TypeOK ==
    /\ online \subseteq Nodes /\ disk \in [online -> Disks] /\ embedder \in [online -> Models]
    /\ kind \in {"search", "exec"} /\ limit \in Limits \cup {0} /\ tasks \in 0..MaxTasks
    /\ selected \in Seq(online) /\ Len(selected) <= MaxFanout
    /\ chunks \in [Shards -> Seq(1..tasks)] /\ node \in [Shards -> online]
    /\ attempted \in [Shards -> SUBSET online] /\ answers \in [Shards -> SUBSET online]
    /\ lost \subseteq Shards
    /\ result \in [status : {"queued", "done", "failed"}, hits : SUBSET Hits]

Init ==
    /\ online \in SUBSET Nodes
    /\ \/ /\ kind = "search" /\ limit \in Limits /\ tasks = 0
          /\ disk \in [online -> Disks] /\ embedder \in [online -> Models]
       \/ /\ kind = "exec" /\ limit = 0 /\ tasks \in 0..MaxTasks
          /\ disk = [n \in online |-> <<>>] /\ \E m \in Models : embedder = [n \in online |-> m]
    /\ chunks = <<>> /\ selected = <<>> /\ node = <<>> /\ attempted = <<>> /\ answers = <<>>
    /\ lost = {} /\ result = [status |-> "queued", hits |-> {}]

(***************************************************************************)
(* submit                                                                  *)
(***************************************************************************)
\* mutant: one slice after the other, the last one takes what is left
Slices(fanout) ==
    LET count == IF fanout < tasks THEN fanout ELSE tasks
        size == tasks \div count
    IN  [i \in 1..count |->
            [k \in 1..(IF i = count THEN tasks - (count - 1) * size ELSE size) |->
                (i - 1) * size + k]]

\* task number t goes to shard t modulo the number of shards
RoundRobin(fanout) ==
    LET count == IF fanout < tasks THEN fanout ELSE tasks
        length(i) == (tasks - i) \div count + 1
    IN  [i \in 1..count |-> [k \in 1..length(i) |-> i + (k - 1) * count]]

\* a payload without tasks goes to every shard as it is
SplitPayload(fanout) ==
    IF tasks > 0 THEN RoundRobin(fanout) ELSE [i \in 1..fanout |-> <<>>]

\* the least loaded nodes, one for each shard; too few of them is an error
Submit(fanout) ==
    LET split == SplitPayload(fanout)
        count == Len(split)
    IN  /\ selected = <<>> /\ count <= Cardinality(online)
        /\ \E chosen \in {s \in [1..count -> online] : IsInjective(s)} :
              /\ selected' = chosen /\ node' = chosen
        /\ chunks' = split
        /\ attempted' = [i \in 1..count |-> {}] /\ answers' = [i \in 1..count |-> {}]
        /\ UNCHANGED <<given, lost, result>>

(***************************************************************************)
(* _run_shard                                                              *)
(***************************************************************************)
Pending(i) == i \in Shards \ lost /\ answers[i] = {}

Answer(i) ==
    /\ Pending(i)
    /\ answers' = [answers EXCEPT ![i] = {node[i]}]
    /\ UNCHANGED <<given, chunks, selected, node, attempted, lost, result>>

Moves == {m \in Shards \X online : m[2] \in attempted[m[1]]}

\* a node that failed twice is given up for one this shard has not tried
Move(i) ==
    LET tried == attempted[i] \cup {node[i]} IN
    /\ Pending(i) /\ Cardinality(Moves) < MaxMoves
    /\ attempted' = [attempted EXCEPT ![i] = tried]
    /\ IF tried = online
       THEN lost' = lost \cup {i} /\ node' = node
       ELSE lost' = lost /\ \E n \in online \ tried : node' = [node EXCEPT ![i] = n]
    /\ UNCHANGED <<given, chunks, selected, answers, result>>

\* a 4xx, such as the 409 of a node without an index, ends the shard
Reject(i) ==
    /\ Pending(i) /\ lost' = lost \cup {i}
    /\ UNCHANGED <<given, chunks, selected, node, attempted, answers, result>>

(***************************************************************************)
(* search on a node, and the merge                                         *)
(***************************************************************************)
\* better score, then node, then path
Before(g, h) ==
    \/ g.score > h.score
    \/ g.score = h.score /\ g.node < h.node
    \/ g.score = h.score /\ g.node = h.node /\ g.path < h.path

Limit == IF limit = 0 THEN DefaultLimit ELSE limit

OnDisk(n) == {[score |-> disk[n][p], node |-> n, path |-> p] : p \in DOMAIN disk[n]}

\* mutant: a node sends its lowest paths
FirstPaths(n) == {d \in OnDisk(n) : Cardinality({e \in OnDisk(n) : e.path < d.path}) < Limit}

\* LocalFileIndex.search
Search(n) ==
    {d \in OnDisk(n) :
        Cardinality({e \in OnDisk(n) : \/ e.score > d.score
                                       \/ e.score = d.score /\ e.path < d.path}) < Limit}

Answered == {i \in Shards : answers[i] # {}}

MergedHits ==
    UNION {{[score |-> d.score, node |-> d.node, path |-> d.path, shard |-> i] :
               d \in Search(node[i])} : i \in Answered}

\* the sort is stable, so of two equal hits the one of the earlier shard is first
MergeSearchResults ==
    {h \in MergedHits :
        Cardinality({g \in MergedHits : \/ Before(g, h)
                                        \/ ~Before(h, g) /\ g.shard < h.shard}) < Limit}

\* mutant: scores of different models are merged
AnyModels == TRUE

OneModel == Cardinality({embedder[node[i]] : i \in Answered}) <= 1

\* _run_job, when all its shards are over
Finish ==
    /\ selected # <<>> /\ \A i \in Shards : ~Pending(i)
    /\ result.status = "queued"
    /\ result' = [status |-> IF lost = {} /\ (kind = "search" => OneModel) THEN "done" ELSE "failed",
                  hits |-> IF kind = "search" /\ OneModel THEN MergeSearchResults ELSE {}]
    /\ UNCHANGED <<given, chunks, selected, node, attempted, answers, lost>>

Next ==
    \/ \E fanout \in 1..MaxFanout : Submit(fanout)
    \/ \E i \in 1..MaxFanout : Answer(i) \/ Move(i) \/ Reject(i)
    \/ Finish

Spec == Init /\ [][Next]_vars

(***************************************************************************)
(* Properties                                                              *)
(***************************************************************************)
\* Every task is given to exactly one shard, no shard is sent out without
\* work, no shard has two tasks more than another, and a shard keeps the order.
TasksAreDealtOut ==
    selected # <<>> /\ tasks > 0 =>
        /\ \A t \in 1..tasks :
              Cardinality({p \in Shards \X (1..tasks) : /\ p[2] <= Len(chunks[p[1]])
                                                        /\ chunks[p[1]][p[2]] = t}) = 1
        /\ \A i, j \in Shards : Len(chunks[i]) > 0 /\ Len(chunks[i]) <= Len(chunks[j]) + 1
        /\ \A i \in Shards : \A k \in 2..Len(chunks[i]) : chunks[i][k - 1] < chunks[i][k]

Kept == {[score |-> h.score, node |-> h.node, path |-> h.path] : h \in result.hits}

\* Although every node only sends its own best hits, what the caller gets are
\* the best of all documents of all nodes that answered: each hit is on the
\* disk it names, and a document that is left out ranks behind every hit of a
\* full list.
MergedAreTheBest ==
    result.status # "queued" /\ kind = "search" /\ OneModel =>
        LET all == UNION {OnDisk(node[i]) : i \in Answered} IN
        /\ Kept \subseteq all
        /\ \A d \in all \ Kept :
              /\ Cardinality(result.hits) = Limit
              /\ \A e \in Kept : \/ e.score > d.score
                                 \/ e.score = d.score /\ e.node < d.node
                                 \/ e.score = d.score /\ e.node = d.node /\ e.path < d.path

\* Scores of different embedding models are never ranked against each other.
OneModelPerRanking ==
    \A g, h \in result.hits : embedder[g.node] = embedder[h.node]

\* The work is what the payload was split into, and the verdict, once there is
\* one, is that of the answers: nothing changes any more.  The others rest on it.
VerdictStands ==
    /\ selected # <<>> => \E fanout \in 1..MaxFanout : chunks = SplitPayload(fanout)
    /\ result.status = "queued" => result.hits = {}
    /\ result.status # "queued" =>
          /\ selected # <<>> /\ \A i \in Shards : ~Pending(i)
          /\ result.hits = IF kind = "search" /\ OneModel THEN MergeSearchResults ELSE {}

ShardInvariant == TypeOK /\ VerdictStands

\* A job's payload is dealt out completely, and what is merged from the shards'
\* answers is a ranking of one model and the best of all (_split_payload,
\* _merge_search_results).
ResultsAreRight == TasksAreDealtOut /\ MergedAreTheBest /\ OneModelPerRanking
=============================================================================
