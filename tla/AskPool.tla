------------------------------ MODULE AskPool ------------------------------
(***************************************************************************)
(* Clients that wait for jobs: submit_and_wait of agent/client.py and      *)
(* ask_pool of agent/fanout.py, which runs one of them per prompt, against *)
(* the part of ctl/queue.py that decides how long a job takes.             *)
(*                                                                         *)
(* Time is counted in ticks.  The queue gives an attempt DispatchTimeout   *)
(* ticks, tries a node twice and then the next one, and makes a job wait   *)
(* for a free slot of its node first.  The client polls every tick and     *)
(* gives up after job_deadline_s.  JobQueue has the queue's own steps.     *)
(***************************************************************************)
EXTENDS Naturals, Sequences, FiniteSets

CONSTANTS
    NumPrompts,
    NumNodes,
    Ceiling,           \* a node answers or fails within this, if it answers at all
    DispatchTimeout,   \* DEFAULT_TIMEOUTS_S
    Margin,            \* POLL_MARGIN_S
    MaxFaults          \* silent nodes, unreachable or restarted ctl, at most

Prompts == 1..NumPrompts
Nodes == 1..NumNodes

\* "node ceiling < queue dispatch timeout < agent polling deadline"
PoolAssumption ==
    /\ NumPrompts \in Nat \ {0} /\ NumNodes \in Nat \ {0} /\ MaxFaults \in Nat
    /\ Ceiling \in Nat /\ DispatchTimeout \in Nat /\ Margin \in Nat \ {0}
    /\ Ceiling < DispatchTimeout

VARIABLES
    nodes,      \* available_nodes, when ask_pool asked
    job,        \* the queue's record of every prompt's job
    on,         \* the node that is tried, or waited for
    tried,      \* attempts on that node, and nodes given up
    attempt,    \* ticks of the current attempt
    client,     \* where every _one is
    waited,     \* ticks since its job was submitted
    delayed,    \* the job waited for a slot or was tried again
    faults

queue == <<job, on, tried, attempt, delayed>>
vars == <<nodes, queue, client, waited, faults>>

Deadline == DispatchTimeout + Margin

TypeOK ==
    /\ nodes \in Seq(Nodes)
    /\ job \in [Prompts -> {"none", "waiting", "running", "silent", "done", "failed", "lost"}]
    /\ on \in [Prompts -> Nodes \cup {0}]
    /\ tried \in [Prompts -> [times : 0..1, nodes : SUBSET Nodes]]
    /\ attempt \in [Prompts -> 0..DispatchTimeout]
    /\ client \in [Prompts -> {"new", "polling", "polled", "answer", "failure", "timeout", "error", "no nodes"}]
    /\ waited \in [Prompts -> 0..(Deadline + 1)]
    /\ delayed \in [Prompts -> BOOLEAN]
    /\ faults \in 0..MaxFaults

\* available_nodes, in registry order; when it fails there is nobody to ask.
Init ==
    /\ \E k \in 0..NumNodes : nodes \in {s \in [1..k -> Nodes] : \A i, j \in 1..k : i < j => s[i] < s[j]}
    /\ job = [p \in Prompts |-> "none"] /\ on = [p \in Prompts |-> 0]
    /\ tried = [p \in Prompts |-> [times |-> 0, nodes |-> {}]]
    /\ attempt = [p \in Prompts |-> 0] /\ delayed = [p \in Prompts |-> FALSE]
    /\ client = [p \in Prompts |-> IF nodes = <<>> THEN "no nodes" ELSE "new"]
    /\ waited = [p \in Prompts |-> 0]
    /\ faults = 0

Fault == faults < MaxFaults /\ faults' = faults + 1

(***************************************************************************)
(* _one and submit_and_wait                                                *)
(***************************************************************************)

\* mutant: everybody asks the first node.
AllToFirst(p) == nodes[1]
\* nodes[index % len(nodes)]
Assigned(p) == nodes[((p - 1) % Len(nodes)) + 1]

Busy(n) == \E p \in Prompts : on[p] = n /\ job[p] \in {"running", "silent"}

\* POST /jobs, pinned; the shard starts at once when the node has a slot.
Submit(p) ==
    LET n == Assigned(p) IN
    /\ client[p] = "new"
    /\ \/ /\ client' = [client EXCEPT ![p] = "polling"]
          /\ job' = [job EXCEPT ![p] = IF Busy(n) THEN "waiting" ELSE "running"]
          /\ delayed' = [delayed EXCEPT ![p] = Busy(n)]
          /\ on' = [on EXCEPT ![p] = n]
          /\ UNCHANGED <<tried, attempt, faults>>
       \/ Fault /\ client' = [client EXCEPT ![p] = "error"] /\ UNCHANGED queue
    /\ UNCHANGED <<nodes, waited>>

\* mutant: the polling deadline is the node's ceiling.
DeadlineTooShort == Ceiling
JobDeadline == DispatchTimeout + Margin

\* mutant: no deadline.
NeverExpires(p) == FALSE
Expired(p) == waited[p] >= JobDeadline

\* mutant: any settled job is an answer.
AnySettled(p) ==
    CASE job[p] \in {"done", "failed"} -> "answer"
      [] job[p] = "lost" -> "error"
      [] OTHER -> IF Expired(p) THEN "timeout" ELSE "polled"
Told(p) ==
    CASE job[p] = "done" -> "answer"
      [] job[p] = "failed" -> "failure"
      [] job[p] = "lost" -> "error"
      [] OTHER -> IF Expired(p) THEN "timeout" ELSE "polled"

\* One poll: the job has settled, is gone, or has taken too long; a request
\* that fails raises at once.
Poll(p) ==
    /\ client[p] = "polling"
    /\ \/ /\ client' = [client EXCEPT ![p] = Told(p)] /\ UNCHANGED faults
       \/ Fault /\ client' = [client EXCEPT ![p] = "error"]
    /\ UNCHANGED <<nodes, queue, waited>>

(***************************************************************************)
(* ctl/queue.py: what becomes of the job                                   *)
(***************************************************************************)

\* A permit of the node's semaphore, for one that waits.
Permit(p) ==
    /\ job[p] = "waiting" /\ ~Busy(on[p])
    /\ job' = [job EXCEPT ![p] = "running"]
    /\ UNCHANGED <<nodes, on, tried, attempt, delayed, client, waited, faults>>

\* The node answers: with a result, or that it refuses.
NodeAnswers(p) ==
    /\ job[p] = "running"
    /\ \E verdict \in {"done", "failed"} : job' = [job EXCEPT ![p] = verdict]
    /\ UNCHANGED <<nodes, on, tried, attempt, delayed, client, waited, faults>>

\* The node takes the request and never answers.
GoesSilent(p) ==
    /\ job[p] = "running" /\ attempt[p] = 0
    /\ job' = [job EXCEPT ![p] = "silent"] /\ Fault
    /\ UNCHANGED <<nodes, on, tried, attempt, delayed, client, waited>>

\* The attempt fails: at once, or because the dispatch timeout is up.  It is
\* repeated once, then another node is tried, until none is left.
AttemptFails(p) ==
    LET gone == tried[p].nodes \cup {on[p]} IN
    /\ \/ job[p] = "running" /\ attempt[p] = 0
       \/ job[p] = "silent" /\ attempt[p] = DispatchTimeout
    /\ attempt' = [attempt EXCEPT ![p] = 0] /\ delayed' = [delayed EXCEPT ![p] = TRUE]
    /\ \/ /\ tried[p].times = 0
          /\ tried' = [tried EXCEPT ![p].times = 1]
          /\ job' = [job EXCEPT ![p] = "waiting"] /\ UNCHANGED on
       \/ /\ tried[p].times = 1 /\ gone = Nodes
          /\ job' = [job EXCEPT ![p] = "failed"] /\ UNCHANGED <<on, tried>>
       \/ /\ tried[p].times = 1
          /\ tried' = [tried EXCEPT ![p] = [times |-> 0, nodes |-> gone]]
          /\ \E n \in Nodes \ gone : on' = [on EXCEPT ![p] = n]
          /\ job' = [job EXCEPT ![p] = "waiting"]
    /\ UNCHANGED <<nodes, client, waited, faults>>

\* Jobs are in memory.
CtlRestart ==
    /\ \E p \in Prompts : job[p] \notin {"none", "lost"}
    /\ job' = [p \in Prompts |-> IF job[p] = "none" THEN "none" ELSE "lost"]
    /\ Fault
    /\ UNCHANGED <<nodes, on, tried, attempt, delayed, client, waited>>

\* A tick: every client has polled, no attempt is over its time, and who has a
\* slot free to go has gone.
Tick ==
    /\ \E p \in Prompts : client[p] = "polled"
    /\ \A p \in Prompts :
           /\ client[p] # "polling" /\ client[p] # "new"
           /\ job[p] = "running" => attempt[p] < Ceiling
           /\ job[p] = "silent" => attempt[p] < DispatchTimeout
           /\ job[p] = "waiting" => Busy(on[p])
    /\ attempt' = [p \in Prompts |->
                      IF job[p] \in {"running", "silent"} THEN attempt[p] + 1 ELSE attempt[p]]
    /\ waited' = [p \in Prompts |-> IF client[p] = "polled" THEN waited[p] + 1 ELSE waited[p]]
    /\ client' = [p \in Prompts |-> IF client[p] = "polled" THEN "polling" ELSE client[p]]
    /\ UNCHANGED <<nodes, job, on, tried, delayed, faults>>

----------------------------------------------------------------------------
\* gather: all of them have come back.
Gathered ==
    /\ \A p \in Prompts : client[p] \notin {"new", "polling", "polled"}
    /\ UNCHANGED vars

Next ==
    \/ \E p \in Prompts :
           Submit(p) \/ Poll(p) \/ Permit(p) \/ NodeAnswers(p) \/ GoesSilent(p) \/ AttemptFails(p)
    \/ CtlRestart \/ Tick \/ Gathered

Spec == Init /\ [][Next]_vars

(***************************************************************************)
(* Properties                                                              *)
(***************************************************************************)

\* The client outlasts an attempt: it gives up only on a job that had to wait
\* for a slot or be tried again (client.py's ordering of the three timeouts).
PatientWithOneAttempt == \A p \in Prompts : client[p] = "timeout" => delayed[p]

\* What a client was told is what became of its job, and a restart of ctl or a
\* failed request is the only other way to end; one prompt's failure never
\* shows up as another's (ask_pool: "a node that fails costs its own answer").
AnswersAreTrue ==
    \A p \in Prompts :
        /\ client[p] = "answer" => job[p] \in {"done", "lost"}
        /\ client[p] = "failure" => job[p] \in {"failed", "lost"}
        /\ client[p] = "error" => faults > 0

\* No client waits longer than the deadline and one poll, however often the
\* queue tries its job again.
WaitIsBounded == \A p \in Prompts : waited[p] <= Deadline

\* Prompts are spread over the pool: with a machine for every prompt, one waits
\* at first only for a machine that another prompt was moved to when its own
\* had failed (fanout.py: "one per node, wrapping when short").
NoPromptWaitsAtFirst ==
    NumPrompts <= Len(nodes) =>
        \A p \in Prompts : tried[p] = [times |-> 0, nodes |-> {}] /\ delayed[p] =>
            \E q \in Prompts \ {p} : tried[q].nodes # {} /\ on[p] \in tried[q].nodes \cup {on[q]}

\* The client, its job and the clocks of both agree, which the others rest on: an
\* attempt is at least as old as the wait for it, and a job that was not moved is
\* on the node it was pinned to.
ClientMatchesJob ==
    \A p \in Prompts :
        /\ client[p] \in {"new", "no nodes"} => job[p] = "none"
        /\ client[p] = "new" => nodes # <<>> /\ waited[p] = 0
        /\ client[p] = "polled" => waited[p] < Deadline
        /\ job[p] = "none" => client[p] \in {"new", "no nodes", "error"} /\ tried[p].nodes = {}
        /\ job[p] # "none" => on[p] # 0
        /\ job[p] # "none" /\ tried[p].nodes = {} => nodes # <<>> /\ on[p] = Assigned(p)
        /\ job[p] = "waiting" => delayed[p]
        /\ job[p] = "lost" => faults > 0
        /\ ~delayed[p] /\ job[p] \in {"running", "silent"} => waited[p] <= attempt[p]
NodesInOrder == \A i, j \in 1..Len(nodes) : i < j => nodes[i] < nodes[j]

\* A client is patient with one attempt, bounded in time, told the truth, and
\* not queued behind another prompt while a machine is free (ask_pool, submit_and_wait).
PoolInvariant ==
    /\ TypeOK /\ PatientWithOneAttempt /\ WaitIsBounded
    /\ AnswersAreTrue /\ NoPromptWaitsAtFirst
    /\ ClientMatchesJob /\ NodesInOrder
=============================================================================
