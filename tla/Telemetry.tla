----------------------------- MODULE Telemetry -----------------------------
(***************************************************************************)
(* The samples ctl keeps: TelemetryFanIn of ctl/telemetry.py.              *)
(*                                                                         *)
(* One task polls every reachable node and records the answers when all    *)
(* are there; heartbeats record samples of their own, and removals forget  *)
(* them, in other threads between any two of its steps.  A sample is its   *)
(* place in the order in which the node took them; values, and the samples *)
(* of the llama-server, are left out.  The gap between the registry's and  *)
(* the fan-in's part of a heartbeat or removal is in Membership.           *)
(***************************************************************************)
EXTENDS Naturals, Sequences, SequencesExt

CONSTANTS
    Nodes,
    HistoryLimit,    \* history_limit
    MaxSamples,      \* samples a node takes, at most
    MaxChurn       \* changes of membership, at most

TelemetryAssumption ==
    HistoryLimit \in Nat \ {0} /\ MaxSamples \in Nat /\ MaxChurn \in Nat

VARIABLES
    state,             \* of every node in the registry: "absent", "idle" or "offline"
    taken,             \* samples every node has taken
    beat,              \* the sample in a heartbeat on its way, or 0
    latest, samples,   \* TelemetryFanIn
    errors,            \* keys of poll_errors
    task,              \* where the polling task is
    polled,            \* nodes of this cycle that are not recorded yet
    reply,             \* what a poll has for every node
    churn

vars == <<state, taken, beat, latest, samples, errors, task, polled, reply, churn>>

None == 0
Failed == MaxSamples + 1
Waiting == MaxSamples + 2
Numbers == 1..MaxSamples

TypeOK ==
    /\ state \in [Nodes -> {"absent", "idle", "offline"}]
    /\ taken \in [Nodes -> 0..MaxSamples] /\ beat \in [Nodes -> 0..MaxSamples]
    /\ latest \in [Nodes -> 0..MaxSamples]
    /\ samples \in [Nodes -> Seq(Numbers)] /\ \A n \in Nodes : Len(samples[n]) <= HistoryLimit
    /\ errors \subseteq Nodes \cup {"telemetry"}
    /\ task \in {"none", "sleeps", "polls", "records", "closed"} /\ polled \subseteq Nodes
    /\ reply \in [Nodes -> Numbers \cup {None, Failed, Waiting}]
    /\ churn \in 0..MaxChurn

Init ==
    /\ state = [n \in Nodes |-> "idle"] /\ taken = [n \in Nodes |-> 0]
    /\ beat = [n \in Nodes |-> None] /\ latest = [n \in Nodes |-> None]
    /\ samples = [n \in Nodes |-> <<>>] /\ errors = {}
    /\ task = "none" /\ polled = {} /\ reply = [n \in Nodes |-> None] /\ churn = 0

\* mutant: the history has no limit.
RecordAll(n, sample) ==
    /\ samples' = [samples EXCEPT ![n] = Append(@, sample)]
    /\ latest' = [latest EXCEPT ![n] = sample]
\* record
Record(n, sample) ==
    /\ samples' = [samples EXCEPT ![n] =
           IF Len(@) = HistoryLimit THEN Append(Tail(@), sample) ELSE Append(@, sample)]
    /\ latest' = [latest EXCEPT ![n] = sample]

(***************************************************************************)
(* Other threads                                                           *)
(***************************************************************************)

\* A node samples itself for a heartbeat, which arrives later.
Sample(n) ==
    /\ beat[n] = None /\ taken[n] < MaxSamples
    /\ taken' = [taken EXCEPT ![n] = @ + 1] /\ beat' = [beat EXCEPT ![n] = taken[n] + 1]
    /\ UNCHANGED <<state, latest, samples, errors, task, polled, reply, churn>>

\* The heartbeat handler; a node that is gone is refused.
Heartbeat(n) ==
    /\ beat[n] # None /\ beat' = [beat EXCEPT ![n] = None]
    /\ \/ state[n] = "absent" /\ UNCHANGED <<state, latest, samples>>
       \/ /\ state[n] # "absent" /\ state' = [state EXCEPT ![n] = "idle"]
          /\ Record(n, beat[n])
    /\ UNCHANGED <<taken, errors, task, polled, reply, churn>>

\* mutant: the history is kept.
ForgetLatest(n) == latest' = [latest EXCEPT ![n] = None] /\ UNCHANGED samples
\* remove
Forget(n) ==
    /\ latest' = [latest EXCEPT ![n] = None] /\ samples' = [samples EXCEPT ![n] = <<>>]

\* A node goes offline, is removed, or joins again.
Change(n) ==
    /\ churn < MaxChurn /\ churn' = churn + 1
    /\ \/ /\ state[n] = "idle" /\ state' = [state EXCEPT ![n] = "offline"]
          /\ UNCHANGED <<latest, samples, errors>>
       \/ /\ state[n] # "absent" /\ state' = [state EXCEPT ![n] = "absent"]
          /\ Forget(n) /\ errors' = errors \ {n}
       \/ /\ state[n] = "absent" /\ state' = [state EXCEPT ![n] = "idle"]
          /\ UNCHANGED <<latest, samples, errors>>
    /\ UNCHANGED <<taken, beat, task, polled, reply>>

(***************************************************************************)
(* The polling task                                                        *)
(***************************************************************************)
Start ==
    /\ task = "none" /\ task' = "sleeps"
    /\ UNCHANGED <<state, taken, beat, latest, samples, errors, polled, reply, churn>>

\* close: the task is cancelled at its await.
Close ==
    /\ task \in {"sleeps", "polls"} /\ churn < MaxChurn /\ churn' = churn + 1
    /\ task' = "closed" /\ polled' = {} /\ reply' = [n \in Nodes |-> None]
    /\ UNCHANGED <<state, taken, beat, latest, samples, errors>>

\* poll_once up to its gather.
PollOnce ==
    /\ task = "sleeps" /\ task' = "polls"
    /\ polled' = {n \in Nodes : state[n] = "idle"}
    /\ reply' = [n \in Nodes |-> IF n \in polled' THEN Waiting ELSE None]
    /\ UNCHANGED <<state, taken, beat, latest, samples, errors, churn>>

\* A node answers with a new sample, or does not.
PollNode(n) ==
    /\ task = "polls" /\ reply[n] = Waiting
    /\ \/ reply' = [reply EXCEPT ![n] = Failed] /\ UNCHANGED taken
       \/ /\ taken[n] < MaxSamples /\ taken' = [taken EXCEPT ![n] = @ + 1]
          /\ reply' = [reply EXCEPT ![n] = taken[n] + 1]
    /\ UNCHANGED <<state, beat, latest, samples, errors, task, polled, churn>>

Gathered ==
    /\ task = "polls" /\ \A n \in polled : reply[n] # Waiting
    /\ task' = "records"
    /\ UNCHANGED <<state, taken, beat, latest, samples, errors, polled, reply, churn>>

\* The loop over the results, under the lock once per node.
RecordPoll(n) ==
    /\ task = "records" /\ n \in polled /\ polled' = polled \ {n}
    /\ \/ reply[n] = Failed /\ errors' = errors \cup {n} /\ UNCHANGED <<latest, samples>>
       \/ reply[n] # Failed /\ Record(n, reply[n]) /\ errors' = errors \ {n}
    /\ UNCHANGED <<state, taken, beat, task, reply, churn>>

\* mutant: an error ends the task.
EndsOnError == "none"
\* _run goes on after an error.
AfterError == "sleeps"

\* The cycle ends, or something unexpected ends it.
CycleEnds ==
    /\ task = "records" /\ reply' = [n \in Nodes |-> None] /\ polled' = {}
    /\ \/ polled = {} /\ task' = "sleeps" /\ errors' = errors \ {"telemetry"} /\ UNCHANGED churn
       \/ /\ churn < MaxChurn /\ churn' = churn + 1
          /\ task' = AfterError /\ errors' = errors \cup {"telemetry"}
    /\ UNCHANGED <<state, taken, beat, latest, samples>>

----------------------------------------------------------------------------
Poll == PollOnce \/ Gathered \/ CycleEnds \/ \E n \in Nodes : PollNode(n) \/ RecordPoll(n)

Next ==
    \/ Start \/ Close \/ Poll
    \/ \E n \in Nodes : Sample(n) \/ Heartbeat(n) \/ Change(n)

Spec == Init /\ [][Next]_vars

\* The task is scheduled and every request has a timeout.
FairSpec == Spec /\ WF_vars(Poll)

(***************************************************************************)
(* Properties                                                              *)
(***************************************************************************)

\* A frame can be built at any moment and agrees with itself: a node has a
\* latest sample exactly when it has a history, which ends in it, whatever
\* thread records or removes between two polls (record, remove, frame).
FrameIsWhole ==
    \A n \in Nodes :
        /\ latest[n] # None <=> samples[n] # <<>>
        /\ latest[n] # None => latest[n] = Last(samples[n])

\* A node that was not asked has no answer, and what the loop over the results
\* has yet to record is the answer of this cycle or its failure (poll_once).
AnswersAreOfThisCycle ==
    /\ task \in {"polls", "records"} => \A n \in polled : reply[n] # None
    /\ task = "records" => \A n \in polled : reply[n] # Waiting

SamplesInvariant == TypeOK /\ FrameIsWhole /\ AnswersAreOfThisCycle

\* Polling goes on until it is closed, whatever nodes and cycles fail (_run).
PollingGoesOn ==
    [](task = "none") \/ <>[](task = "closed") \/ []<>(task = "polls")
=============================================================================
