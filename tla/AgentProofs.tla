------------------------------ MODULE AgentProofs ------------------------------
(***************************************************************************)
(* Proofs about the agent: the conversation loop, for any calls, turns,    *)
(* history and fan-out, and the clients of ask_pool, for any number of     *)
(* prompts, nodes and faults and any timeouts in the order client.py asks  *)
(* for.                                                                    *)
(***************************************************************************)
EXTENDS MCAgent, InductionFacts, SequenceTheorems

-----------------------------------------------------------------------------
(* ask_pool and submit_and_wait *)

\* index % len(nodes): a place in the list, the own one while the list lasts.
LEMMA Wraps ==
    ASSUME NEW p \in Nat \ {0}, NEW n \in Nat \ {0}
    PROVE  /\ ((p - 1) % n) + 1 \in 1..n
           /\ p <= n => ((p - 1) % n) + 1 = p
<1>1. PICK d \in Nat : d = p - 1
  OBVIOUS
<1>2. d % n \in 0..(n - 1)
  OBVIOUS
<1>3. d < n => d % n = d
  OBVIOUS
<1> QED BY <1>1, <1>2, <1>3

LEMMA AssignedIsNode ==
    ASSUME Pool!TypeOK, nodes # <<>>, NEW p \in Pool!Prompts
    PROVE  Pool!Assigned(p) \in Pool!Nodes
<1>0. nodes \in Seq(Pool!Nodes)
  BY DEF Pool!TypeOK
<1>1. PICK n \in Nat \ {0} : n = Len(nodes)
  BY <1>0, EmptySeq, LenProperties
<1>2. p \in Nat \ {0}
  BY AgentConstants DEF Pool!PoolAssumption, Pool!Prompts
<1>3. ((p - 1) % n) + 1 \in 1..n
  BY <1>2, Wraps
<1>4. nodes[((p - 1) % n) + 1] \in Pool!Nodes
  BY <1>0, <1>1, <1>3, ElementOfSeq
<1> QED BY <1>1, <1>4 DEF Pool!Assigned

LEMMA AssignedDiffers ==
    ASSUME Pool!TypeOK, Pool!NodesInOrder, NumPrompts <= Len(nodes),
           NEW p \in Pool!Prompts, NEW q \in Pool!Prompts, p # q
    PROVE  Pool!Assigned(p) # Pool!Assigned(q)
<1>0. nodes \in Seq(Pool!Nodes)
  BY DEF Pool!TypeOK
<1>z. Pool!Nodes \subseteq Nat
  BY AgentConstants DEF Pool!Nodes, Pool!PoolAssumption
<1>1. PICK n \in Nat : n = Len(nodes)
  BY <1>0, LenProperties
<1>2. p \in 1..n /\ q \in 1..n /\ n # 0
  BY <1>1, AgentConstants DEF Pool!PoolAssumption, Pool!Prompts
<1>3. ((p - 1) % n) + 1 = p
  BY <1>2, Wraps
<1>4. ((q - 1) % n) + 1 = q
  BY <1>2, Wraps
<1>5. Pool!Assigned(p) = nodes[p] /\ Pool!Assigned(q) = nodes[q]
  BY <1>1, <1>3, <1>4 DEF Pool!Assigned
<1>6. nodes[p] \in Nat /\ nodes[q] \in Nat
  BY <1>0, <1>z, <1>1, <1>2, ElementOfSeq
<1>7. CASE p < q
  BY <1>1, <1>2, <1>5, <1>6, <1>7 DEF Pool!NodesInOrder
<1>8. CASE q < p
  BY <1>1, <1>2, <1>5, <1>6, <1>8 DEF Pool!NodesInOrder
<1> QED BY <1>2, <1>7, <1>8

\* What holds of one prompt, and what is typed beside the list of nodes.
PromptFine(p) ==
    /\ client[p] = "timeout" => delayed[p]
    /\ client[p] = "answer" => job[p] \in {"done", "lost"}
    /\ client[p] = "failure" => job[p] \in {"failed", "lost"}
    /\ client[p] = "error" => faults > 0
    /\ waited[p] <= Pool!Deadline
    /\ client[p] \in {"new", "no nodes"} => job[p] = "none"
    /\ client[p] = "new" => nodes # <<>> /\ waited[p] = 0
    /\ client[p] = "polled" => waited[p] < Pool!Deadline
    /\ job[p] = "none" => client[p] \in {"new", "no nodes", "error"} /\ tried[p].nodes = {}
    /\ job[p] # "none" => on[p] # 0
    /\ job[p] # "none" /\ tried[p].nodes = {} => nodes # <<>> /\ on[p] = Pool!Assigned(p)
    /\ job[p] = "waiting" => delayed[p]
    /\ job[p] = "lost" => faults > 0
    /\ ~delayed[p] /\ job[p] \in {"running", "silent"} => waited[p] <= attempt[p]
JobStates == {"none", "waiting", "running", "silent", "done", "failed", "lost"}
ClientStates == {"new", "polling", "polled", "answer", "failure", "timeout", "error", "no nodes"}
PoolTypes ==
    /\ job \in [Pool!Prompts -> JobStates]
    /\ on \in [Pool!Prompts -> Pool!Nodes \cup {0}]
    /\ tried \in [Pool!Prompts -> [times : 0..1, nodes : SUBSET Pool!Nodes]]
    /\ attempt \in [Pool!Prompts -> 0..DispatchTimeout]
    /\ client \in [Pool!Prompts -> ClientStates]
    /\ waited \in [Pool!Prompts -> 0..(Pool!Deadline + 1)]
    /\ delayed \in [Pool!Prompts -> BOOLEAN]
    /\ faults \in 0..MaxFaults
PoolParts ==
    /\ nodes \in Seq(Pool!Nodes) /\ Pool!NodesInOrder
    /\ PoolTypes /\ (\A p \in Pool!Prompts : PromptFine(p)) /\ Pool!NoPromptWaitsAtFirst

LEMMA PoolByParts == PoolParts <=> Pool!PoolInvariant
BY DEF PoolParts, PoolTypes, PromptFine, JobStates, ClientStates, Pool!PoolInvariant, Pool!TypeOK,
       Pool!PatientWithOneAttempt, Pool!WaitIsBounded, Pool!AnswersAreTrue, Pool!ClientMatchesJob

\* The timeouts in their order, as numbers.
LEMMA PoolNumbers ==
    /\ DispatchTimeout \in Nat /\ Ceiling \in Nat /\ MaxFaults \in Nat
    /\ Ceiling < DispatchTimeout
    /\ Pool!Deadline \in Nat /\ DispatchTimeout < Pool!Deadline /\ Pool!JobDeadline = Pool!Deadline
BY AgentConstants DEF Pool!PoolAssumption, Pool!Deadline, Pool!JobDeadline

\* A prompt that a step leaves alone.
Same(q) ==
    /\ job'[q] = job[q] /\ on'[q] = on[q] /\ tried'[q] = tried[q] /\ attempt'[q] = attempt[q]
    /\ client'[q] = client[q] /\ waited'[q] = waited[q] /\ delayed'[q] = delayed[q]

LEMMA SameStaysFine ==
    ASSUME PoolTypes, PoolTypes', NEW q \in Pool!Prompts, PromptFine(q), Same(q), nodes' = nodes,
           faults <= faults'
    PROVE  PromptFine(q)'
<1>1. faults \in Nat /\ faults' \in Nat
  BY PoolNumbers DEF PoolTypes
<1>2. Pool!Assigned(q)' = Pool!Assigned(q)
  BY DEF Pool!Assigned
<1>3. faults > 0 => faults' > 0
  BY <1>1
<1> QED BY <1>2, <1>3 DEF PromptFine, Same, Pool!Deadline

\* A step of one prompt, when it keeps that prompt's part.
LEMMA StepOfOne ==
    ASSUME PoolParts, NEW p \in Pool!Prompts, PoolTypes', PromptFine(p)', nodes' = nodes,
           faults <= faults', \A q \in Pool!Prompts \ {p} : Same(q)
    PROVE  \A q \in Pool!Prompts : PromptFine(q)'
<1> SUFFICES ASSUME NEW q \in Pool!Prompts PROVE PromptFine(q)'
  OBVIOUS
<1>1. CASE q = p
  BY <1>1
<1>2. CASE q # p
  BY <1>2, SameStaysFine DEF PoolParts
<1> QED BY <1>1, <1>2

LEMMA SubmitFine ==
    ASSUME PoolParts, NEW p \in Pool!Prompts, Pool!Submit(p)
    PROVE  PoolTypes' /\ \A q \in Pool!Prompts : PromptFine(q)'
<1> DEFINE n == Pool!Assigned(p)
<1>1. client[p] = "new" /\ PromptFine(p) /\ nodes' = nodes /\ waited' = waited
  BY DEF PoolParts, Pool!Submit
<1>2. n \in Pool!Nodes /\ n # 0 /\ nodes # <<>>
  <2>1. nodes # <<>> /\ Pool!TypeOK
    BY <1>1, PoolByParts DEF PromptFine, Pool!PoolInvariant
  <2>2. n \in Pool!Nodes
    BY <2>1, AssignedIsNode
  <2> QED BY <2>1, <2>2, AgentConstants DEF Pool!Nodes, Pool!PoolAssumption
<1>3. n' = n
  BY <1>1 DEF Pool!Assigned
<1> HIDE DEF n
<1>4. CASE /\ client' = [client EXCEPT ![p] = "polling"]
           /\ job' = [job EXCEPT ![p] = IF Pool!Busy(n) THEN "waiting" ELSE "running"]
           /\ delayed' = [delayed EXCEPT ![p] = Pool!Busy(n)]
           /\ on' = [on EXCEPT ![p] = n]
           /\ UNCHANGED <<tried, attempt, faults>>
  <2>1. Pool!Busy(n) \in BOOLEAN
    BY DEF Pool!Busy
  <2> DEFINE state == IF Pool!Busy(n) THEN "waiting" ELSE "running"
  <2>2. PoolTypes'
    BY <1>1, <1>2, <1>4, <2>1 DEF PoolParts, PoolTypes, JobStates, ClientStates, Pool!Prompts, Pool!Nodes, Pool!Deadline
  <2>3. PromptFine(p)'
    <3>1. /\ client'[p] = "polling" /\ delayed'[p] = Pool!Busy(n) /\ on'[p] = n
          /\ job'[p] = IF Pool!Busy(n) THEN "waiting" ELSE "running"
      BY <1>4 DEF PoolParts, PoolTypes
    <3>2. waited'[p] = 0 /\ attempt'[p] \in Nat /\ waited'[p] <= Pool!Deadline'
      <4>a. waited[p] = 0
        BY <1>1 DEF PromptFine
      <4>b. attempt[p] \in 0..DispatchTimeout
        BY DEF PoolParts, PoolTypes
      <4>1. waited[p] = 0 /\ attempt[p] \in Nat
        BY <4>a, <4>b, PoolNumbers
      <4> QED BY <1>1, <1>4, <4>1, PoolNumbers DEF Pool!Deadline
    <3>3. on'[p] = Pool!Assigned(p)'
      BY <1>3, <3>1 DEF n
    <3>4. nodes' # <<>> /\ on'[p] # 0
      BY <1>1, <1>2, <3>1
    <3> QED BY <3>1, <3>2, <3>3, <3>4 DEF PromptFine
  <2>4. \A q \in Pool!Prompts \ {p} : Same(q)
    BY <1>1, <1>4 DEF Same, PoolParts, PoolTypes
  <2>5. faults <= faults'
    BY <1>4 DEF PoolParts, PoolTypes
  <2> QED BY <1>1, <2>2, <2>3, <2>4, <2>5, StepOfOne
<1>5. CASE Pool!Fault /\ client' = [client EXCEPT ![p] = "error"] /\ UNCHANGED <<job, on, tried, attempt, delayed>>
  <2>1. faults' = faults + 1 /\ faults' \in 0..MaxFaults /\ faults <= faults' /\ faults' > 0
    BY <1>5, PoolNumbers DEF Pool!Fault, PoolParts, PoolTypes
  <2>2. PoolTypes'
    BY <1>1, <1>5, <2>1 DEF PoolParts, PoolTypes, JobStates, ClientStates, Pool!Prompts, Pool!Nodes, Pool!Deadline
  <2>3. PromptFine(p)'
    <3>1. client'[p] = "error"
      BY <1>5 DEF PoolParts, PoolTypes
    <3>2. job'[p] = "none" /\ tried'[p].nodes = {} /\ waited'[p] <= Pool!Deadline'
      BY <1>1, <1>5 DEF PromptFine, Pool!Deadline
    <3> QED BY <2>1, <3>1, <3>2 DEF PromptFine
  <2>4. \A q \in Pool!Prompts \ {p} : Same(q)
    BY <1>1, <1>5 DEF Same, PoolParts, PoolTypes
  <2> QED BY <1>1, <2>1, <2>2, <2>3, <2>4, StepOfOne
<1> QED BY <1>4, <1>5 DEF Pool!Submit, Pool!queue, n

LEMMA PollFine ==
    ASSUME PoolParts, NEW p \in Pool!Prompts, Pool!Poll(p)
    PROVE  PoolTypes' /\ \A q \in Pool!Prompts : PromptFine(q)'
<1>1. client[p] = "polling" /\ PromptFine(p) /\ UNCHANGED <<nodes, job, on, tried, attempt, delayed, waited>>
  BY DEF PoolParts, Pool!Poll, Pool!queue
<1>2. Pool!Assigned(p)' = Pool!Assigned(p)
  BY <1>1 DEF Pool!Assigned
<1>3. job[p] \in JobStates /\ waited[p] \in Nat /\ attempt[p] \in 0..DispatchTimeout /\ delayed[p] \in BOOLEAN
  BY PoolNumbers DEF PoolParts, PoolTypes
<1>4. CASE client' = [client EXCEPT ![p] = Pool!Told(p)] /\ UNCHANGED faults
  <2>0. job[p] # "none"
    BY <1>1 DEF PromptFine
  <2>a. Pool!Told(p) \in ClientStates
    BY DEF Pool!Told, ClientStates
  <2>b. /\ Pool!Told(p) = "timeout" => waited[p] >= Pool!Deadline /\ job[p] \in {"waiting", "running", "silent"}
        /\ Pool!Told(p) = "polled" => waited[p] < Pool!Deadline
        /\ Pool!Told(p) = "answer" => job[p] = "done"
        /\ Pool!Told(p) = "failure" => job[p] = "failed"
        /\ Pool!Told(p) = "error" => job[p] = "lost"
        /\ Pool!Told(p) \notin {"new", "no nodes"}
    BY <1>3, <2>0, PoolNumbers DEF Pool!Told, Pool!Expired, JobStates
  <2>c. Pool!Told(p) = "timeout" => delayed[p]
    BY <1>1, <1>3, <2>b, PoolNumbers DEF PromptFine
  <2>2. PoolTypes'
    BY <1>1, <1>4, <2>a DEF PoolParts, PoolTypes, Pool!Prompts, Pool!Nodes, Pool!Deadline
  <2>3. PromptFine(p)'
    <3>1. client'[p] = Pool!Told(p)
      BY <1>4 DEF PoolParts, PoolTypes
    <3> QED BY <1>1, <1>2, <1>4, <2>0, <2>b, <2>c, <3>1 DEF PromptFine, Pool!Deadline
  <2>4. \A q \in Pool!Prompts \ {p} : Same(q)
    BY <1>1, <1>4 DEF Same, PoolParts, PoolTypes
  <2>5. faults <= faults'
    BY <1>4 DEF PoolParts, PoolTypes
  <2> QED BY <1>1, <2>2, <2>3, <2>4, <2>5, StepOfOne
<1>5. CASE Pool!Fault /\ client' = [client EXCEPT ![p] = "error"]
  <2>1. faults' = faults + 1 /\ faults' \in 0..MaxFaults /\ faults <= faults' /\ faults' > 0
    BY <1>5, PoolNumbers DEF Pool!Fault, PoolParts, PoolTypes
  <2>2. PoolTypes'
    BY <1>1, <1>5, <2>1 DEF PoolParts, PoolTypes, ClientStates, Pool!Prompts, Pool!Nodes, Pool!Deadline
  <2>3. PromptFine(p)'
    <3>1. client'[p] = "error"
      BY <1>5 DEF PoolParts, PoolTypes
    <3> QED BY <1>1, <1>2, <2>1, <3>1 DEF PromptFine, Pool!Deadline
  <2>4. \A q \in Pool!Prompts \ {p} : Same(q)
    BY <1>1, <1>5 DEF Same, PoolParts, PoolTypes
  <2> QED BY <1>1, <2>1, <2>2, <2>3, <2>4, StepOfOne
<1> QED BY <1>4, <1>5 DEF Pool!Poll

LEMMA PermitFine ==
    ASSUME PoolParts, NEW p \in Pool!Prompts, Pool!Permit(p)
    PROVE  PoolTypes' /\ \A q \in Pool!Prompts : PromptFine(q)'
<1>1. /\ job[p] = "waiting" /\ PromptFine(p) /\ job' = [job EXCEPT ![p] = "running"]
      /\ UNCHANGED <<nodes, on, tried, attempt, delayed, client, waited, faults>>
  BY DEF PoolParts, Pool!Permit
<1>2. PoolTypes'
  BY <1>1 DEF PoolParts, PoolTypes, JobStates, Pool!Prompts, Pool!Nodes, Pool!Deadline
<1>3. PromptFine(p)'
  <2>1. job'[p] = "running"
    BY <1>1 DEF PoolParts, PoolTypes
  <2>2. Pool!Assigned(p)' = Pool!Assigned(p)
    BY <1>1 DEF Pool!Assigned
  <2> QED BY <1>1, <2>1, <2>2 DEF PromptFine, Pool!Deadline
<1>4. \A q \in Pool!Prompts \ {p} : Same(q)
  BY <1>1 DEF Same, PoolParts, PoolTypes
<1>5. faults <= faults'
  BY <1>1 DEF PoolParts, PoolTypes
<1> QED BY <1>1, <1>2, <1>3, <1>4, <1>5, StepOfOne

LEMMA NodeAnswersFine ==
    ASSUME PoolParts, NEW p \in Pool!Prompts, Pool!NodeAnswers(p)
    PROVE  PoolTypes' /\ \A q \in Pool!Prompts : PromptFine(q)'
<1>1. PICK verdict \in {"done", "failed"} : job' = [job EXCEPT ![p] = verdict]
  BY DEF Pool!NodeAnswers
<1>2. /\ job[p] = "running" /\ PromptFine(p)
      /\ UNCHANGED <<nodes, on, tried, attempt, delayed, client, waited, faults>>
  BY DEF PoolParts, Pool!NodeAnswers
<1>3. PoolTypes'
  BY <1>1, <1>2 DEF PoolParts, PoolTypes, JobStates, Pool!Prompts, Pool!Nodes, Pool!Deadline
<1>4. PromptFine(p)'
  <2>1. job'[p] = verdict
    BY <1>1 DEF PoolParts, PoolTypes
  <2>2. Pool!Assigned(p)' = Pool!Assigned(p)
    BY <1>2 DEF Pool!Assigned
  <2> QED BY <1>2, <2>1, <2>2 DEF PromptFine, Pool!Deadline
<1>5. \A q \in Pool!Prompts \ {p} : Same(q)
  BY <1>1, <1>2 DEF Same, PoolParts, PoolTypes
<1>6. faults <= faults'
  BY <1>2 DEF PoolParts, PoolTypes
<1> QED BY <1>2, <1>3, <1>4, <1>5, <1>6, StepOfOne

LEMMA GoesSilentFine ==
    ASSUME PoolParts, NEW p \in Pool!Prompts, Pool!GoesSilent(p)
    PROVE  PoolTypes' /\ \A q \in Pool!Prompts : PromptFine(q)'
<1>1. /\ job[p] = "running" /\ PromptFine(p) /\ job' = [job EXCEPT ![p] = "silent"]
      /\ UNCHANGED <<nodes, on, tried, attempt, delayed, client, waited>>
  BY DEF PoolParts, Pool!GoesSilent
<1>2. faults' = faults + 1 /\ faults' \in 0..MaxFaults /\ faults <= faults' /\ faults' > 0
  BY PoolNumbers DEF Pool!GoesSilent, Pool!Fault, PoolParts, PoolTypes
<1>3. PoolTypes'
  BY <1>1, <1>2 DEF PoolParts, PoolTypes, JobStates, Pool!Prompts, Pool!Nodes, Pool!Deadline
<1>4. PromptFine(p)'
  <2>1. job'[p] = "silent"
    BY <1>1 DEF PoolParts, PoolTypes
  <2>2. Pool!Assigned(p)' = Pool!Assigned(p)
    BY <1>1 DEF Pool!Assigned
  <2> QED BY <1>1, <1>2, <2>1, <2>2 DEF PromptFine, Pool!Deadline
<1>5. \A q \in Pool!Prompts \ {p} : Same(q)
  BY <1>1 DEF Same, PoolParts, PoolTypes
<1> QED BY <1>1, <1>2, <1>3, <1>4, <1>5, StepOfOne

\* The three ways an attempt's failure can go.
LEMMA AttemptFailsWays ==
    ASSUME PoolParts, NEW p \in Pool!Prompts, Pool!AttemptFails(p)
    PROVE  /\ job[p] \in {"running", "silent"} /\ PromptFine(p)
           /\ attempt' = [attempt EXCEPT ![p] = 0] /\ delayed' = [delayed EXCEPT ![p] = TRUE]
           /\ UNCHANGED <<nodes, client, waited, faults>>
           /\ \E state \in {"waiting", "failed"}, n \in Pool!Nodes \cup {0},
                 t \in [times : 0..1, nodes : SUBSET Pool!Nodes] :
                  /\ job' = [job EXCEPT ![p] = state] /\ on' = [on EXCEPT ![p] = n]
                  /\ tried' = [tried EXCEPT ![p] = t] /\ n # 0
                  /\ \/ t.nodes = tried[p].nodes /\ n = on[p] /\ t.times = 1
                     \/ t.nodes = tried[p].nodes \cup {on[p]} /\ t.times = 0
<1>1. /\ job[p] \in {"running", "silent"} /\ PromptFine(p)
      /\ attempt' = [attempt EXCEPT ![p] = 0] /\ delayed' = [delayed EXCEPT ![p] = TRUE]
      /\ UNCHANGED <<nodes, client, waited, faults>>
  BY DEF PoolParts, Pool!AttemptFails
<1>2. /\ on \in [Pool!Prompts -> Pool!Nodes \cup {0}] /\ on[p] \in Pool!Nodes \cup {0}
      /\ tried \in [Pool!Prompts -> [times : 0..1, nodes : SUBSET Pool!Nodes]]
      /\ tried[p] \in [times : 0..1, nodes : SUBSET Pool!Nodes]
  BY DEF PoolParts, PoolTypes
<1> DEFINE gone == tried[p].nodes \cup {on[p]}
<1>a. on[p] # 0
  BY <1>1 DEF PromptFine
<1>3. CASE /\ tried[p].times = 0 /\ tried' = [tried EXCEPT ![p].times = 1]
           /\ job' = [job EXCEPT ![p] = "waiting"] /\ UNCHANGED on
  <2> DEFINE t == [tried[p] EXCEPT !.times = 1]
  <2>1. t \in [times : 0..1, nodes : SUBSET Pool!Nodes] /\ t.nodes = tried[p].nodes /\ t.times = 1
    BY <1>2
  <2>2. tried' = [tried EXCEPT ![p] = t]
    BY <1>2, <1>3
  <2>3. on' = [on EXCEPT ![p] = on[p]]
    BY <1>2, <1>3
  <2> HIDE DEF t
  <2> QED BY <1>1, <1>2, <1>a, <1>3, <2>1, <2>2, <2>3
<1>4. CASE /\ tried[p].times = 1 /\ gone = Pool!Nodes
           /\ job' = [job EXCEPT ![p] = "failed"] /\ UNCHANGED <<on, tried>>
  <2>1. tried' = [tried EXCEPT ![p] = tried[p]] /\ on' = [on EXCEPT ![p] = on[p]]
    BY <1>2, <1>4
  <2> QED BY <1>1, <1>2, <1>a, <1>4, <2>1
<1>5. CASE /\ tried[p].times = 1
           /\ tried' = [tried EXCEPT ![p] = [times |-> 0, nodes |-> gone]]
           /\ \E n \in Pool!Nodes \ gone : on' = [on EXCEPT ![p] = n]
           /\ job' = [job EXCEPT ![p] = "waiting"]
  <2>1. PICK n \in Pool!Nodes \ gone : on' = [on EXCEPT ![p] = n]
    BY <1>5
  <2> DEFINE t == [times |-> 0, nodes |-> gone]
  <2>3. t \in [times : 0..1, nodes : SUBSET Pool!Nodes] /\ t.nodes = gone /\ t.times = 0
    BY <1>2, <1>a
  <2>4. n # 0
    BY <2>1, AgentConstants DEF Pool!Nodes, Pool!PoolAssumption
  <2> HIDE DEF t
  <2> QED BY <1>1, <1>5, <2>1, <2>3, <2>4 DEF t
<1> QED BY <1>3, <1>4, <1>5 DEF Pool!AttemptFails

LEMMA AttemptFailsFine ==
    ASSUME PoolParts, NEW p \in Pool!Prompts, Pool!AttemptFails(p)
    PROVE  PoolTypes' /\ \A q \in Pool!Prompts : PromptFine(q)'
<1>1. /\ job[p] \in {"running", "silent"} /\ PromptFine(p)
      /\ attempt' = [attempt EXCEPT ![p] = 0] /\ delayed' = [delayed EXCEPT ![p] = TRUE]
      /\ UNCHANGED <<nodes, client, waited, faults>>
  BY AttemptFailsWays
<1>2. PICK state \in {"waiting", "failed"}, n \in Pool!Nodes \cup {0},
           t \in [times : 0..1, nodes : SUBSET Pool!Nodes] :
         /\ job' = [job EXCEPT ![p] = state] /\ on' = [on EXCEPT ![p] = n]
         /\ tried' = [tried EXCEPT ![p] = t] /\ n # 0
         /\ \/ t.nodes = tried[p].nodes /\ n = on[p] /\ t.times = 1
            \/ t.nodes = tried[p].nodes \cup {on[p]} /\ t.times = 0
  BY AttemptFailsWays
<1>3. PoolTypes'
  <2>1. 0 \in 0..DispatchTimeout
    BY PoolNumbers
  <2> QED BY <1>1, <1>2, <2>1 DEF PoolParts, PoolTypes, JobStates, Pool!Prompts, Pool!Nodes, Pool!Deadline
<1>4. PromptFine(p)'
  <2>1. job'[p] = state /\ on'[p] = n /\ tried'[p] = t /\ delayed'[p] = TRUE
    BY <1>1, <1>2 DEF PoolParts, PoolTypes
  <2>2. Pool!Assigned(p)' = Pool!Assigned(p)
    BY <1>1 DEF Pool!Assigned
  <2>3. t.nodes = {} => n = on[p] /\ tried[p].nodes = {}
    BY <1>2
  <2> QED BY <1>1, <1>2, <2>1, <2>2, <2>3 DEF PromptFine, Pool!Deadline
<1>5. \A q \in Pool!Prompts \ {p} : Same(q)
  BY <1>1, <1>2 DEF Same, PoolParts, PoolTypes
<1>6. faults <= faults'
  BY <1>1 DEF PoolParts, PoolTypes
<1> QED BY <1>1, <1>3, <1>4, <1>5, <1>6, StepOfOne

LEMMA RestartFine ==
    ASSUME PoolParts, Pool!CtlRestart
    PROVE  PoolTypes' /\ \A q \in Pool!Prompts : PromptFine(q)'
<1>1. /\ job' = [q \in Pool!Prompts |-> IF job[q] = "none" THEN "none" ELSE "lost"]
      /\ UNCHANGED <<nodes, on, tried, attempt, delayed, client, waited>>
  BY DEF Pool!CtlRestart
<1>2. faults' = faults + 1 /\ faults' \in 0..MaxFaults /\ faults <= faults' /\ faults' > 0
  BY PoolNumbers DEF Pool!CtlRestart, Pool!Fault, PoolParts, PoolTypes
<1>3. PoolTypes'
  BY <1>1, <1>2 DEF PoolParts, PoolTypes, JobStates, Pool!Prompts, Pool!Nodes, Pool!Deadline
<1>4. ASSUME NEW q \in Pool!Prompts PROVE PromptFine(q)'
  <2>1. PromptFine(q) /\ job'[q] = (IF job[q] = "none" THEN "none" ELSE "lost")
    BY <1>1 DEF PoolParts
  <2>2. Pool!Assigned(q)' = Pool!Assigned(q)
    BY <1>1 DEF Pool!Assigned
  <2> QED BY <1>1, <1>2, <2>1, <2>2 DEF PromptFine, Pool!Deadline
<1> QED BY <1>3, <1>4

\* Both clocks of a running attempt advance, the client's only if it still waits.
LEMMA TickFine ==
    ASSUME PoolParts, Pool!Tick
    PROVE  PoolTypes' /\ \A q \in Pool!Prompts : PromptFine(q)'
<1>1. /\ attempt' = [p \in Pool!Prompts |->
                        IF job[p] \in {"running", "silent"} THEN attempt[p] + 1 ELSE attempt[p]]
      /\ waited' = [p \in Pool!Prompts |-> IF client[p] = "polled" THEN waited[p] + 1 ELSE waited[p]]
      /\ client' = [p \in Pool!Prompts |-> IF client[p] = "polled" THEN "polling" ELSE client[p]]
      /\ UNCHANGED <<nodes, job, on, tried, delayed, faults>>
  BY DEF Pool!Tick
<1>2. ASSUME NEW q \in Pool!Prompts
      PROVE  /\ job[q] = "running" => attempt[q] < Ceiling
             /\ job[q] = "silent" => attempt[q] < DispatchTimeout
             /\ attempt[q] \in 0..DispatchTimeout /\ waited[q] \in Nat /\ PromptFine(q)
             /\ client[q] \in ClientStates
  BY PoolNumbers DEF Pool!Tick, PoolParts, PoolTypes
<1>3. ASSUME NEW q \in Pool!Prompts
      PROVE  /\ attempt'[q] \in 0..DispatchTimeout /\ waited'[q] \in 0..Pool!Deadline
             /\ client'[q] \in ClientStates
             /\ job[q] \in {"running", "silent"} /\ waited[q] <= attempt[q] => waited'[q] <= attempt'[q]
  <2>1. attempt[q] \in 0..DispatchTimeout /\ waited[q] \in Nat
    BY <1>2
  <2>2. /\ attempt'[q] = IF job[q] \in {"running", "silent"} THEN attempt[q] + 1 ELSE attempt[q]
        /\ waited'[q] = IF client[q] = "polled" THEN waited[q] + 1 ELSE waited[q]
        /\ client'[q] = IF client[q] = "polled" THEN "polling" ELSE client[q]
    BY <1>1
  <2>3. waited[q] <= Pool!Deadline /\ (client[q] = "polled" => waited[q] < Pool!Deadline)
    BY <1>2 DEF PromptFine
  <2>4. client'[q] \in ClientStates
    BY <1>2, <2>2 DEF ClientStates
  <2>5. job[q] \in {"running", "silent"} => attempt[q] < DispatchTimeout
    BY <1>2, <2>1, PoolNumbers
  <2> QED BY <2>1, <2>2, <2>3, <2>4, <2>5, PoolNumbers
<1>4. PoolTypes'
  <2>1. attempt' \in [Pool!Prompts -> 0..DispatchTimeout]
    BY <1>1, <1>3
  <2>2. waited' \in [Pool!Prompts -> 0..(Pool!Deadline + 1)]
    <3>1. 0..Pool!Deadline \subseteq 0..(Pool!Deadline + 1)
      BY PoolNumbers
    <3> QED BY <1>1, <1>3, <3>1
  <2>3. client' \in [Pool!Prompts -> ClientStates]
    BY <1>1, <1>3
  <2> QED BY <1>1, <2>1, <2>2, <2>3 DEF PoolParts, PoolTypes, Pool!Prompts, Pool!Nodes, Pool!Deadline
<1>5. ASSUME NEW q \in Pool!Prompts PROVE PromptFine(q)'
  <2>1. client'[q] = IF client[q] = "polled" THEN "polling" ELSE client[q]
    BY <1>1
  <2>2. waited'[q] <= Pool!Deadline /\ (client[q] # "polled" => waited'[q] = waited[q])
    BY <1>1, <1>3, PoolNumbers
  <2>3. Pool!Assigned(q)' = Pool!Assigned(q)
    BY <1>1 DEF Pool!Assigned
  <2>4. ~delayed'[q] /\ job'[q] \in {"running", "silent"} => waited'[q] <= attempt'[q]
    BY <1>1, <1>2, <1>3 DEF PromptFine
  <2> QED BY <1>1, <1>2, <2>1, <2>2, <2>3, <2>4 DEF PromptFine, Pool!Deadline
<1> QED BY <1>4, <1>5

\* Every step keeps what holds of each prompt.
LEMMA PromptsStayFine ==
    ASSUME PoolParts, Pool!Next
    PROVE  PoolTypes' /\ (\A q \in Pool!Prompts : PromptFine(q)') /\ nodes' = nodes
<1>1. ASSUME NEW p \in Pool!Prompts, Pool!Submit(p) \/ Pool!Poll(p) \/ Pool!Permit(p)
      PROVE  PoolTypes' /\ (\A q \in Pool!Prompts : PromptFine(q)') /\ nodes' = nodes
  BY <1>1, SubmitFine, PollFine, PermitFine DEF Pool!Submit, Pool!Poll, Pool!Permit
<1>2. ASSUME NEW p \in Pool!Prompts, Pool!NodeAnswers(p) \/ Pool!GoesSilent(p) \/ Pool!AttemptFails(p)
      PROVE  PoolTypes' /\ (\A q \in Pool!Prompts : PromptFine(q)') /\ nodes' = nodes
  BY <1>2, NodeAnswersFine, GoesSilentFine, AttemptFailsFine
     DEF Pool!NodeAnswers, Pool!GoesSilent, Pool!AttemptFails
<1>3. CASE Pool!CtlRestart
  BY <1>3, RestartFine DEF Pool!CtlRestart
<1>4. CASE Pool!Tick
  BY <1>4, TickFine DEF Pool!Tick
<1>5. CASE Pool!Gathered
  <2>1. UNCHANGED <<nodes, job, on, tried, attempt, delayed, client, waited, faults>>
    BY <1>5 DEF Pool!Gathered, Pool!vars, Pool!queue
  <2>2. PoolTypes'
    BY <2>1 DEF PoolParts, PoolTypes, Pool!Prompts, Pool!Nodes, Pool!Deadline
  <2>3. ASSUME NEW q \in Pool!Prompts PROVE PromptFine(q)'
    <3>1. Same(q) /\ faults <= faults' /\ PromptFine(q)
      BY <2>1 DEF Same, PoolParts, PoolTypes
    <3> QED BY <2>1, <2>2, <3>1, SameStaysFine DEF PoolParts
  <2> QED BY <2>1, <2>2, <2>3
<1> QED BY <1>1, <1>2, <1>3, <1>4, <1>5 DEF Pool!Next

\* A prompt that waits at first, and another one that is there or was there
\* because its own node had failed.
AtFirst(p) == tried[p] = [times |-> 0, nodes |-> {}] /\ delayed[p]
Blames(p, q) == tried[q].nodes # {} /\ on[p] \in tried[q].nodes \cup {on[q]}

\* Where a job has been is remembered.
Remembers(q) ==
    tried[q].nodes # {} => tried'[q].nodes # {} /\ tried[q].nodes \cup {on[q]} \subseteq tried'[q].nodes \cup {on'[q]}
LEMMA StaysExcused ==
    ASSUME Pool!NoPromptWaitsAtFirst, nodes' = nodes,
           \A q \in Pool!Prompts : Remembers(q),
           NumPrompts <= Len(nodes) =>
               \A p \in Pool!Prompts : AtFirst(p)' => \/ AtFirst(p) /\ on'[p] = on[p]
                                                    \/ \E q \in Pool!Prompts \ {p} : Blames(p, q)'
    PROVE  Pool!NoPromptWaitsAtFirst'
<1> SUFFICES ASSUME NumPrompts <= Len(nodes), NEW p \in Pool!Prompts, AtFirst(p)'
             PROVE  \E q \in Pool!Prompts \ {p} : Blames(p, q)'
  BY DEF Pool!NoPromptWaitsAtFirst, AtFirst, Blames, Pool!Prompts
<1>1. CASE AtFirst(p) /\ on'[p] = on[p]
  <2>1. PICK q \in Pool!Prompts \ {p} : Blames(p, q)
    BY <1>1 DEF Pool!NoPromptWaitsAtFirst, AtFirst, Blames
  <2>2. Blames(p, q)'
    BY <1>1, <2>1 DEF Blames, Remembers
  <2> QED BY <2>2
<1> QED BY <1>1

LEMMA ExcusedAfterSubmit ==
    ASSUME PoolParts, NEW p \in Pool!Prompts, Pool!Submit(p)
    PROVE  Pool!NoPromptWaitsAtFirst'
<1> DEFINE n == Pool!Assigned(p)
<1>1. /\ client[p] = "new" /\ PromptFine(p) /\ UNCHANGED <<nodes, tried>>
      /\ on \in [Pool!Prompts -> Pool!Nodes \cup {0}] /\ delayed \in [Pool!Prompts -> BOOLEAN]
  BY DEF PoolParts, PoolTypes, Pool!Submit, Pool!queue
<1>2. tried[p].nodes = {} /\ job[p] = "none"
  BY <1>1 DEF PromptFine
<1>3. \A q \in Pool!Prompts \ {p} : on'[q] = on[q] /\ delayed'[q] = delayed[q]
  BY <1>1 DEF Pool!Submit, Pool!queue
<1>4. \A q \in Pool!Prompts : Remembers(q)
  BY <1>1, <1>2, <1>3 DEF Remembers
<1>5. ASSUME NumPrompts <= Len(nodes), NEW x \in Pool!Prompts, AtFirst(x)'
      PROVE  \/ AtFirst(x) /\ on'[x] = on[x]
             \/ \E q \in Pool!Prompts \ {x} : Blames(x, q)'
  <2>1. CASE x # p
    BY <1>1, <1>3, <1>5, <2>1 DEF AtFirst
  <2>2. CASE x = p /\ on' = on /\ delayed' = delayed
    BY <1>1, <1>5, <2>2 DEF AtFirst
  <2>3. CASE x = p /\ delayed' = [delayed EXCEPT ![p] = Pool!Busy(n)] /\ on' = [on EXCEPT ![p] = n]
    <3>1. delayed'[p] = Pool!Busy(n) /\ on'[p] = n
      BY <1>1, <2>3
    <3>2. Pool!Busy(n)
      BY <1>5, <2>3, <3>1 DEF AtFirst
    <3>3. PICK q \in Pool!Prompts : on[q] = n /\ job[q] \in {"running", "silent"}
      BY <3>2 DEF Pool!Busy
    <3>4. q # p /\ PromptFine(q)
      BY <1>2, <3>3 DEF PoolParts
    <3>5. Pool!Assigned(q) # n
      BY <1>5, <3>4, AssignedDiffers, PoolByParts DEF PoolParts, Pool!PoolInvariant
    <3>6. tried[q].nodes # {}
      BY <3>3, <3>4, <3>5 DEF PromptFine
    <3>7. Blames(p, q)'
      BY <1>1, <1>3, <3>1, <3>3, <3>4, <3>6 DEF Blames
    <3> QED BY <2>3, <3>4, <3>7
  <2> QED BY <2>1, <2>2, <2>3 DEF Pool!Submit, Pool!queue
<1> QED BY <1>1, <1>4, <1>5, StaysExcused DEF PoolParts

LEMMA ExcusedAfterFailure ==
    ASSUME PoolParts, NEW p \in Pool!Prompts, Pool!AttemptFails(p)
    PROVE  Pool!NoPromptWaitsAtFirst'
<1>1. nodes' = nodes /\ delayed' = [delayed EXCEPT ![p] = TRUE]
  BY AttemptFailsWays
<1>2. PICK state \in {"waiting", "failed"}, n \in Pool!Nodes \cup {0},
           t \in [times : 0..1, nodes : SUBSET Pool!Nodes] :
         /\ on' = [on EXCEPT ![p] = n] /\ tried' = [tried EXCEPT ![p] = t]
         /\ \/ t.nodes = tried[p].nodes /\ n = on[p] /\ t.times = 1
            \/ t.nodes = tried[p].nodes \cup {on[p]} /\ t.times = 0
  BY AttemptFailsWays
<1>3. on'[p] = n /\ tried'[p] = t
  BY <1>2 DEF PoolParts, PoolTypes
<1>4. \A q \in Pool!Prompts \ {p} : on'[q] = on[q] /\ tried'[q] = tried[q] /\ delayed'[q] = delayed[q]
  BY <1>1, <1>2 DEF PoolParts, PoolTypes
<1>5. \A q \in Pool!Prompts : Remembers(q)
  BY <1>2, <1>3, <1>4 DEF Remembers
<1>6. ASSUME NEW x \in Pool!Prompts, AtFirst(x)'
      PROVE  AtFirst(x) /\ on'[x] = on[x]
  <2>1. x # p
    BY <1>2, <1>3, <1>6 DEF AtFirst
  <2> QED BY <1>4, <1>6, <2>1 DEF AtFirst
<1> QED BY <1>1, <1>5, <1>6, StaysExcused DEF PoolParts

LEMMA PoolNext == PoolParts /\ [Pool!Next]_poolVars => PoolParts'
<1> SUFFICES ASSUME PoolParts, [Pool!Next]_poolVars PROVE PoolParts'
  OBVIOUS
<1>1. CASE Pool!Next
  <2>1. PoolTypes' /\ (\A q \in Pool!Prompts : PromptFine(q)') /\ nodes' = nodes
    BY <1>1, PromptsStayFine
  <2>2. Pool!NodesInOrder'
    BY <2>1 DEF PoolParts, Pool!NodesInOrder
  <2>3. Pool!NoPromptWaitsAtFirst'
    <3>1. CASE \E p \in Pool!Prompts : Pool!Submit(p)
      BY <3>1, ExcusedAfterSubmit
    <3>2. CASE \E p \in Pool!Prompts : Pool!AttemptFails(p)
      BY <3>2, ExcusedAfterFailure
    <3>3. CASE UNCHANGED <<nodes, tried, on, delayed>>
      BY <3>3 DEF PoolParts, Pool!NoPromptWaitsAtFirst, Pool!Prompts
    <3> QED BY <1>1, <3>1, <3>2, <3>3
            DEF Pool!Next, Pool!Poll, Pool!Permit, Pool!NodeAnswers, Pool!GoesSilent, Pool!CtlRestart,
                Pool!Tick, Pool!Gathered, Pool!queue, Pool!vars
  <2>4. nodes' \in Seq(Pool!Nodes')
    BY <2>1 DEF PoolParts, Pool!Nodes
  <2> QED BY <2>1, <2>2, <2>3, <2>4 DEF PoolParts, Pool!Nodes, Pool!Prompts
<1>2. CASE UNCHANGED poolVars
  BY <1>2 DEF poolVars, PoolParts, PoolTypes, PromptFine, Pool!NodesInOrder, Pool!NoPromptWaitsAtFirst,
              Pool!Nodes, Pool!Prompts, Pool!Deadline, Pool!Assigned
<1> QED BY <1>1, <1>2

LEMMA PoolInit == Pool!Init => PoolParts
<1> SUFFICES ASSUME Pool!Init PROVE PoolParts
  OBVIOUS
<1>1. PICK k \in 0..NumNodes : nodes \in {s \in [1..k -> Pool!Nodes] : \A i, j \in 1..k : i < j => s[i] < s[j]}
  BY DEF Pool!Init
<1>2. k \in Nat /\ nodes \in [1..k -> Pool!Nodes]
  BY <1>1, AgentConstants DEF Pool!PoolAssumption
<1>3. nodes \in Seq(Pool!Nodes) /\ Len(nodes) = k
  BY <1>2
<1>4. Pool!NodesInOrder
  BY <1>1, <1>3 DEF Pool!NodesInOrder
<1>a. /\ 0 \in 0..DispatchTimeout /\ 0 \in 0..(Pool!Deadline + 1) /\ 0 \in 0..MaxFaults
      /\ 0 <= Pool!Deadline
  BY PoolNumbers
<1>b. [times |-> 0, nodes |-> {}] \in [times : 0..1, nodes : SUBSET Pool!Nodes]
  OBVIOUS
<1>c. /\ job = [p \in Pool!Prompts |-> "none"] /\ on = [p \in Pool!Prompts |-> 0]
      /\ tried = [p \in Pool!Prompts |-> [times |-> 0, nodes |-> {}]]
      /\ attempt = [p \in Pool!Prompts |-> 0] /\ delayed = [p \in Pool!Prompts |-> FALSE]
      /\ client = [p \in Pool!Prompts |-> IF nodes = <<>> THEN "no nodes" ELSE "new"]
      /\ waited = [p \in Pool!Prompts |-> 0] /\ faults = 0
  BY DEF Pool!Init
<1>5. PoolTypes
  BY <1>a, <1>b, <1>c DEF PoolTypes, JobStates, ClientStates
<1>6. ASSUME NEW p \in Pool!Prompts PROVE PromptFine(p)
  <2>1. /\ job[p] = "none" /\ tried[p].nodes = {} /\ waited[p] = 0
        /\ client[p] = IF nodes = <<>> THEN "no nodes" ELSE "new"
    BY <1>c
  <2> QED BY <1>a, <2>1 DEF PromptFine
<1>7. Pool!NoPromptWaitsAtFirst
  BY DEF Pool!Init, Pool!NoPromptWaitsAtFirst
<1> QED BY <1>3, <1>4, <1>5, <1>6, <1>7 DEF PoolParts
-----------------------------------------------------------------------------
(* service.py: what is kept of the page's history *)

Msg == [role : Loop!ValidRoles, ids : Seq(Nat)]
PageMsg == [role : Loop!ValidRoles \cup {"junk"}, ids : Seq(Nat)]

LEMMA CountsAgree == ASSUME NEW S PROVE Loop!Cardinality(S) = Cardinality(S)
BY DEF Loop!Cardinality, Cardinality

\* Every place of the kept list is taken by one entry.
LEMMA NthExists ==
    ASSUME NEW K \in SUBSET Nat, IsFiniteSet(K), NEW n \in 1..Cardinality(K)
    PROVE  \E i \in K : Cardinality({j \in K : j <= i}) = n
<1> DEFINE Nth(m) == \E i \in K : Cardinality({j \in K : j <= i}) = m
           Good == {m \in Nat : m + 1 <= Cardinality(K) => Nth(m + 1)}
<1>0. Cardinality(K) \in Nat
  BY FS_CardinalityType
<1>1. 0 \in Good
  <2> SUFFICES ASSUME 1 <= Cardinality(K) PROVE Nth(1)
    <3>1. 0 + 1 = 1
      OBVIOUS
    <3> HIDE DEF Nth
    <3> QED BY <3>1
  <2>1. K # {}
    BY FS_EmptySet
  <2>2. PICK i \in K : \A h \in K : i <= h
    BY <2>1, SmallestExists
  <2>3. {j \in K : j <= i} = {i}
    <3>1. ASSUME NEW j \in K, j <= i PROVE j = i
      <4>1. i \in Nat /\ j \in Nat /\ i <= j
        BY <2>2
      <4> QED BY <3>1, <4>1
    <3>2. i <= i
      BY <2>2
    <3> QED BY <2>2, <3>1, <3>2
  <2>4. Cardinality({i}) = 1
    BY FS_Singleton
  <2> QED BY <2>2, <2>3, <2>4
<1>2. ASSUME NEW m \in Nat, m \in Good PROVE m + 1 \in Good
  <2> SUFFICES ASSUME m + 2 <= Cardinality(K) PROVE Nth(m + 2)
    OBVIOUS
  <2>1. PICK i \in K : Cardinality({j \in K : j <= i}) = m + 1
    BY <1>0, <1>2
  <2> DEFINE U == {j \in K : j <= i}
             R == K \ U
  <2>2. IsFiniteSet(U) /\ U \subseteq K
    BY FS_Subset
  <2>3. R # {}
    <3> SUFFICES ASSUME R = {} PROVE FALSE
      OBVIOUS
    <3>1. U = K
      BY <2>2
    <3> QED BY <1>0, <2>1, <3>1
  <2>4. PICK x \in R : \A h \in R : x <= h
    BY <2>3, SmallestExists
  <2>5. x \in K /\ x \notin U
    BY <2>4
  <2>6. {j \in K : j <= x} = U \cup {x}
    <3>1. x \in Nat /\ i \in Nat /\ i < x
      BY <2>5
    <3>2. ASSUME NEW j \in K, j <= x, j \notin U PROVE j = x
      <4>1. j \in Nat /\ x <= j
        BY <2>4, <3>2
      <4> QED BY <3>1, <3>2, <4>1
    <3>3. ASSUME NEW j \in U PROVE j \in K /\ j <= x
      <4>1. j \in Nat /\ j \in K /\ j <= i
        OBVIOUS
      <4> QED BY <3>1, <4>1
    <3>4. x <= x
      BY <3>1
    <3> QED BY <2>5, <3>2, <3>3, <3>4
  <2>7. Cardinality(U \cup {x}) = Cardinality(U) + 1
    BY <2>2, <2>5, FS_AddElement
  <2>8. Cardinality({j \in K : j <= x}) = m + 2
    BY <2>1, <2>6, <2>7
  <2> QED BY <2>5, <2>8
<1> HIDE DEF Good, Nth
<1>3. Nat \subseteq Good
  BY <1>1, <1>2, OverNumbers
<1>4. PICK m \in Nat : n = m + 1
  BY <1>0
<1>5. Nth(n)
  <2>1. m \in Good
    BY <1>3
  <2> QED BY <1>0, <1>4, <2>1 DEF Good
<1> QED BY <1>5 DEF Nth

LEMMA KnownAreKept ==
    ASSUME NEW h \in Seq(PageMsg)
    PROVE  Loop!KeepKnown(h) \in Seq(Msg)
<1> DEFINE K == Loop!Known(h)
<1>1. PICK l \in Nat : l = Len(h)
  BY LenProperties
<1>2. K \in SUBSET (1..l) /\ \A i \in K : h[i] \in Msg
  <2>1. K \in SUBSET (1..l) /\ \A i \in K : h[i].role \in Loop!ValidRoles
    BY <1>1 DEF Loop!Known
  <2>2. \A i \in 1..l : h[i] \in PageMsg
    BY <1>1, ElementOfSeq
  <2> QED BY <2>1, <2>2 DEF Msg, PageMsg
<1>3. IsFiniteSet(K) /\ Cardinality(K) \in Nat /\ K \in SUBSET Nat
  <2>1. IsFiniteSet(1..l)
    BY <1>1, FS_Interval
  <2> QED BY <1>2, <2>1, FS_Subset, FS_CardinalityType
<1> HIDE DEF K
<1>4. ASSUME NEW n \in 1..Cardinality(K) PROVE h[Loop!NthKnown(h, n)] \in Msg
  <2>1. \E i \in K : Cardinality({j \in K : j <= i}) = n
    BY <1>3, NthExists
  <2>a. Loop!NthKnown(h, n) = CHOOSE i \in K : Loop!Cardinality({j \in K : j <= i}) = n
    BY DEF Loop!NthKnown, K
  <2>b. \E i \in K : Loop!Cardinality({j \in K : j <= i}) = n
    BY <2>1, CountsAgree
  <2>2. Loop!NthKnown(h, n) \in K
    BY <2>a, <2>b
  <2> QED BY <1>2, <2>2
<1>5. PICK c \in Nat : c = Cardinality(K)
  BY <1>3
<1>6. [n \in 1..c |-> h[Loop!NthKnown(h, n)]] \in Seq(Msg)
  <2> DEFINE At(n) == h[Loop!NthKnown(h, n)]
  <2>1. \A n \in 1..c : At(n) \in Msg
    BY <1>4, <1>5
  <2> HIDE DEF At
  <2>2. [n \in 1..c |-> At(n)] \in Seq(Msg)
    BY <2>1
  <2> QED BY <2>2 DEF At
<1>7. Loop!Cardinality(K) = c
  BY <1>5, CountsAgree
<1>8. Loop!KeepKnown(h) = [n \in 1..Loop!Cardinality(K) |-> h[Loop!NthKnown(h, n)]]
  BY DEF Loop!KeepKnown, K
<1> QED BY <1>6, <1>7, <1>8

LEMMA HistoryIsSane ==
    ASSUME NEW h \in Seq(PageMsg)
    PROVE  Loop!SanitiseHistory(h) \in Seq(Msg)
<1>1. PICK s \in Seq(Msg) : s = Loop!KeepKnown(h)
  BY KnownAreKept
<1>2. PICK l \in Nat : l = Len(s)
  BY LenProperties
<1>a. MaxHistory \in Nat \ {0}
  BY AgentConstants DEF Loop!AgentAssumption
<1>3. PICK f \in 1..(l + 1) : f = IF l > MaxHistory THEN l - MaxHistory + 1 ELSE 1
  <2>1. (IF l > MaxHistory THEN l - MaxHistory + 1 ELSE 1) \in 1..(l + 1)
    BY <1>2, <1>a
  <2> QED BY <2>1
<1>4. SubSeq(s, f, l) \in Seq(Msg)
  BY <1>2, <1>3, SubSeqProperties
<1> QED BY <1>1, <1>2, <1>3, <1>4 DEF Loop!SanitiseHistory, Loop!KeepTail

\* The largest id so far is a number, so the next one is.
LEMMA NextIdIsNumber ==
    ASSUME conversation \in Seq(Msg)
    PROVE  Loop!NextId \in Nat
<1>1. PICK l \in Nat : l = Len(conversation)
  BY LenProperties
<1> DEFINE Of(k) == {conversation[k].ids[i] : i \in 1..Len(conversation[k].ids)}
           All == UNION {Of(k) : k \in 1..l}
<1>2. ASSUME NEW k \in 1..l PROVE IsFiniteSet(Of(k)) /\ Of(k) \in SUBSET Nat
  <2>1. conversation[k] \in Msg
    BY <1>1, ElementOfSeq
  <2>2. PICK ids \in Seq(Nat) : ids = conversation[k].ids
    BY <2>1 DEF Msg
  <2>3. PICK c \in Nat : c = Len(ids)
    BY LenProperties
  <2>4. IsFiniteSet(1..c)
    BY <2>3, FS_Interval
  <2>5. IsFiniteSet({ids[i] : i \in 1..c})
    <3>1. [i \in 1..c |-> ids[i]] \in Surjection(1..c, {ids[i] : i \in 1..c})
      BY DEF Surjection
    <3> QED BY <2>4, <3>1, FS_Surjection
  <2>6. \A i \in 1..c : ids[i] \in Nat
    BY <2>3, ElementOfSeq
  <2> QED BY <2>2, <2>3, <2>5, <2>6
<1> HIDE DEF Of
<1>3. IsFiniteSet(All) /\ All \in SUBSET Nat
  <2>1. [k \in 1..l |-> Of(k)] \in Surjection(1..l, {Of(k) : k \in 1..l})
    BY DEF Surjection
  <2>2. IsFiniteSet(1..l)
    BY <1>1, FS_Interval
  <2>3. IsFiniteSet({Of(k) : k \in 1..l})
    BY <2>1, <2>2, FS_Surjection
  <2>4. IsFiniteSet(All)
    BY <1>2, <2>3, FS_UNION
  <2> QED BY <1>2, <2>4
<1>4. All = Loop!IdsIn(conversation)
  BY <1>1 DEF Loop!IdsIn, Of
<1> HIDE DEF All
<1> DEFINE Ids == {0} \cup All
<1>5. IsFiniteSet(Ids) /\ Ids \in SUBSET Nat /\ Ids # {}
  <2>1. IsFiniteSet(All \cup {0})
    BY <1>3, FS_AddElement
  <2>2. Ids = All \cup {0}
    OBVIOUS
  <2>3. Ids \in SUBSET Nat /\ 0 \in Ids
    BY <1>3
  <2> QED BY <2>1, <2>2, <2>3
<1> HIDE DEF Ids
<1>6. PICK m \in Ids : \A j \in Ids : j <= m
  BY <1>5, FiniteHasLargest
<1>7. \A j \in Ids : m >= j
  BY <1>5, <1>6
<1>8. Loop!Max(Ids) \in Ids
  BY <1>7 DEF Loop!Max
<1>9. Loop!Max(Ids) \in Nat
  BY <1>5, <1>8
<1>10. Loop!NextId = Loop!Max(Ids) + 1
  BY <1>4 DEF Loop!NextId, Ids
<1> QED BY <1>9, <1>10

-----------------------------------------------------------------------------
(* loop.py: the turns of ask *)

CallRec == [tool : Loop!Tools \cup {"unknown"}, args : Loop!Args, id : Nat,
            stage : Loop!Stages, fanout : Nat, result : Loop!Results]
LoopScalars ==
    /\ pc \in {"idle", "complete", "tools"} /\ turn \in 0..MaxTurns /\ start \in Nat
    /\ seen \subseteq Calls /\ earlier \subseteq Calls
    /\ outcome \in {"none", "reply", "gave up", "503"}
    /\ avail \in 0..MaxNodes /\ prompts \in 0..MaxPrompts
    /\ headFailed \in BOOLEAN /\ trips \in [Calls -> Nat]
\* The message that asked for the running calls.
Asking == Loop!Message("assistant", [i \in 1..Len(running) |-> running[i].id])
CallFine(i) ==
    /\ Loop!Question(running[i]) \in Calls
    /\ running[i].stage = "done" /\ running[i].args \in {"good", "bad"} => Loop!Question(running[i]) \in seen
LoopParts ==
    /\ browser \in Seq(PageMsg) /\ conversation \in Seq(Msg) /\ running \in Seq(CallRec)
    /\ LoopScalars /\ Loop!OnlyTheHeadEndsIt
    /\ pc = "complete" => \A k \in start..Len(conversation) : Loop!Answered(k)
    /\ pc # "idle" => start \in 1..Len(conversation)
    /\ pc # "tools" => running = <<>>
    /\ pc = "tools" => /\ conversation[Len(conversation)] = Asking
                       /\ \A k \in start..(Len(conversation) - 1) : Loop!Answered(k)
    /\ earlier \subseteq seen /\ \A i \in 1..Len(running) : CallFine(i)

LEMMA LoopByParts == LoopParts <=> Loop!LoopInvariant
BY DEF LoopParts, LoopScalars, Asking, CallFine, CallRec, Msg, PageMsg, Loop!LoopInvariant, Loop!TypeOK,
       Loop!CallsAreAnswered, Loop!CallsAreOfThisTurn

LEMMA LoopConstants ==
    /\ Calls \subseteq [tool : Loop!Tools \cup {"unknown"}, args : Loop!Args]
    /\ MaxCalls \in Nat \ {0} /\ MaxTurns \in Nat \ {0} /\ MaxPrompts \in Nat /\ MaxNodes \in Nat
    /\ MaxFanout \in Nat \ {0}
BY AgentConstants DEF Loop!AgentAssumption

LEMMA MsgIsPageMsg == Seq(Msg) \subseteq Seq(PageMsg)
<1>1. Msg \subseteq PageMsg
  BY DEF Msg, PageMsg
<1> QED BY <1>1, SeqMonotonic

\* What was answered stays answered as the conversation grows.
LEMMA StaysAnswered ==
    ASSUME conversation \in Seq(Msg), conversation' \in Seq(Msg), Len(conversation) <= Len(conversation'),
           \A i \in 1..Len(conversation) : conversation'[i] = conversation[i],
           NEW k \in 1..Len(conversation), Loop!Answered(k)
    PROVE  Loop!Answered(k)'
<1>1. PICK m \in Nat : m = Len(conversation)
  BY LenProperties
<1>2. PICK n \in Nat : n = Len(conversation')
  BY LenProperties
<1>3. conversation'[k] = conversation[k] /\ conversation[k] \in Msg
  BY ElementOfSeq
<1>4. PICK ids \in Seq(Nat) : ids = conversation[k].ids
  BY <1>3 DEF Msg
<1> SUFFICES ASSUME conversation[k].role = "assistant", NEW i \in 1..Len(ids)
             PROVE  k + i <= n /\ conversation'[k + i] = Loop!Message("tool", <<ids[i]>>)
  BY <1>2, <1>3, <1>4 DEF Loop!Answered, Loop!Message
<1>5. k + i <= m /\ conversation[k + i] = Loop!Message("tool", <<ids[i]>>)
  BY <1>1, <1>4 DEF Loop!Answered
<1>6. k + i \in 1..m
  <2>1. PICK l \in Nat : l = Len(ids)
    BY <1>4, LenProperties
  <2>2. i \in Nat /\ k \in 1..m
    BY <1>1, <2>1
  <2> QED BY <1>5, <2>2
<1> QED BY <1>1, <1>2, <1>5, <1>6

LEMMA ChurnSafe == ASSUME LoopParts, Loop!Churn PROVE LoopParts'
<1>1. /\ UNCHANGED <<browser, pc, turn, conversation, start, running, seen, outcome, prompts, headFailed, trips, earlier>>
      /\ avail' \in 0..MaxNodes
  BY DEF Loop!Churn, Loop!ask, Loop!history
<1>2. LoopScalars' /\ Loop!OnlyTheHeadEndsIt'
  BY <1>1 DEF LoopParts, LoopScalars, Loop!OnlyTheHeadEndsIt
<1> QED BY <1>1, <1>2 DEF LoopParts, Asking, CallFine, Loop!Answered, Loop!Question, Loop!Message,
                          Msg, PageMsg, CallRec, Loop!ValidRoles, Loop!Tools, Loop!Args, Loop!Stages, Loop!Results

LEMMA NoCalls ==
    ASSUME running' = <<>>
    PROVE  running' \in Seq(CallRec) /\ \A i \in 1..Len(running') : CallFine(i)'
<1>1. running' \in Seq(CallRec) /\ Len(running') = 0
  BY EmptySeq
<1> QED BY <1>1

LEMMA ChatSafe == ASSUME LoopParts, Loop!Chat PROVE LoopParts'
<1>1. PICK h \in {browser, Append(browser, Loop!Message("junk", <<>>))} :
           /\ conversation' = Append(Loop!SanitiseHistory(h), Loop!Message("user", <<>>))
           /\ start' = Len(Loop!SanitiseHistory(h)) + 1
  BY DEF Loop!Chat
<1>2. h \in Seq(PageMsg)
  <2>1. browser \in Seq(PageMsg)
    BY DEF LoopParts
  <2>2. Loop!Message("junk", <<>>) \in PageMsg
    BY DEF Loop!Message, PageMsg
  <2>3. Append(browser, Loop!Message("junk", <<>>)) \in Seq(PageMsg)
    BY <2>1, <2>2, AppendProperties
  <2> QED BY <1>1, <2>1, <2>3
<1>3. PICK s \in Seq(Msg) : s = Loop!SanitiseHistory(h)
  BY <1>2, HistoryIsSane
<1>4. PICK l \in Nat : l = Len(s)
  BY LenProperties
<1>5. Loop!Message("user", <<>>) \in Msg
  BY DEF Loop!Message, Msg, Loop!ValidRoles
<1>6. /\ conversation' \in Seq(Msg) /\ Len(conversation') = l + 1
      /\ conversation'[l + 1] = Loop!Message("user", <<>>) /\ start' = l + 1
  BY <1>1, <1>3, <1>4, <1>5, AppendProperties
<1>7. /\ UNCHANGED <<browser, outcome, avail>> /\ pc' = "complete" /\ turn' = 1 /\ running' = <<>>
      /\ seen' = {} /\ earlier' = {} /\ prompts' = prompts + 1 /\ prompts < MaxPrompts
      /\ headFailed' = FALSE /\ trips' = [q \in Calls |-> 0]
  BY DEF Loop!Chat
<1>8. LoopScalars'
  <2>1. turn' \in 0..MaxTurns /\ prompts' \in 0..MaxPrompts /\ start' \in Nat
    <3>1. prompts \in 0..MaxPrompts
      BY DEF LoopParts, LoopScalars
    <3>2. MaxTurns \in Nat \ {0} /\ MaxPrompts \in Nat
      BY LoopConstants
    <3> QED BY <1>6, <1>7, <3>1, <3>2
  <2> QED BY <1>7, <2>1 DEF LoopParts, LoopScalars
<1>9. ASSUME NEW k \in start'..Len(conversation') PROVE Loop!Answered(k)'
  <2>1. k = l + 1
    BY <1>6
  <2> QED BY <1>6, <2>1 DEF Loop!Answered, Loop!Message
<1>10. running' \in Seq(CallRec) /\ \A i \in 1..Len(running') : CallFine(i)'
  BY <1>7, NoCalls
<1>11. start' \in 1..Len(conversation')
  BY <1>6
<1>12. Loop!OnlyTheHeadEndsIt'
  BY <1>7 DEF Loop!OnlyTheHeadEndsIt
<1>13. browser' \in Seq(PageMsg)
  BY <1>7 DEF LoopParts
<1> QED BY <1>6, <1>7, <1>8, <1>9, <1>10, <1>11, <1>12, <1>13
        DEF LoopParts, Msg, PageMsg, CallRec, Loop!ValidRoles, Loop!Tools, Loop!Args, Loop!Stages, Loop!Results

\* The end of a /chat: whatever the conversation became is typed, no calls run.
LEMMA FinishSafe ==
    ASSUME LoopParts, NEW messages \in Seq(Msg), NEW how \in {"reply", "gave up", "503"},
           Loop!Finish(how, messages), how = "503" => headFailed' = TRUE, running' = <<>>, turn' = turn,
           headFailed' \in BOOLEAN, earlier' \subseteq Calls, earlier' \subseteq seen,
           UNCHANGED <<start, seen, avail, prompts, trips>>
    PROVE  LoopParts'
<1>1. pc' = "idle" /\ outcome' = how /\ conversation' = messages
      /\ browser' = IF how = "503" THEN browser ELSE messages
  BY DEF Loop!Finish
<1>2. browser' \in Seq(PageMsg)
  BY <1>1, MsgIsPageMsg DEF LoopParts
<1>3. running' \in Seq(CallRec) /\ \A i \in 1..Len(running') : CallFine(i)'
  BY NoCalls
<1>5. LoopScalars'
  BY <1>1 DEF LoopParts, LoopScalars
<1>6. Loop!OnlyTheHeadEndsIt'
  BY <1>1 DEF Loop!OnlyTheHeadEndsIt
<1> QED BY <1>1, <1>2, <1>3, <1>5, <1>6
        DEF LoopParts, Msg, PageMsg, CallRec, Loop!ValidRoles, Loop!Tools, Loop!Args, Loop!Stages, Loop!Results

LEMMA HeadFailsSafe == ASSUME LoopParts, Loop!HeadFails PROVE LoopParts'
<1>1. /\ pc = "complete" /\ Loop!Finish("503", conversation) /\ headFailed' = TRUE
      /\ UNCHANGED <<turn, start, running, seen, avail, prompts, trips, earlier>>
  BY DEF Loop!HeadFails
<1>2. running = <<>> /\ conversation \in Seq(Msg) /\ earlier \subseteq Calls /\ earlier \subseteq seen
  BY <1>1 DEF LoopParts, LoopScalars
<1> QED BY <1>1, <1>2, FinishSafe

LEMMA AnswerSafe == ASSUME LoopParts, Loop!Answer PROVE LoopParts'
<1> DEFINE said == Loop!Message("assistant", <<>>)
<1>1. /\ pc = "complete" /\ Loop!Finish("reply", Append(conversation, said))
      /\ UNCHANGED <<turn, start, running, seen, avail, prompts, headFailed, trips, earlier>>
  BY DEF Loop!Answer, Loop!history
<1>2. /\ running = <<>> /\ conversation \in Seq(Msg) /\ earlier \subseteq Calls /\ earlier \subseteq seen
      /\ headFailed \in BOOLEAN
  BY <1>1 DEF LoopParts, LoopScalars
<1>3. said \in Msg
  BY DEF Loop!Message, Msg, Loop!ValidRoles
<1>4. Append(conversation, said) \in Seq(Msg)
  BY <1>2, <1>3, AppendProperties
<1> HIDE DEF said
<1>5. PICK messages \in Seq(Msg) : messages = Append(conversation, said)
  BY <1>4
<1> QED BY <1>1, <1>2, <1>5, FinishSafe

LEMMA AskForToolsSafe == ASSUME LoopParts, Loop!AskForTools PROVE LoopParts'
<1>1. PICK n \in Nat : n = Loop!NextId
  BY NextIdIsNumber DEF LoopParts
<1>a. PICK k \in 1..MaxCalls : \E asked \in [1..k -> Calls] :
           /\ running' = [i \in 1..k |-> Loop!Fresh(asked[i], n + i - 1)]
           /\ conversation' = Append(conversation, Loop!Message("assistant", [i \in 1..k |-> n + i - 1]))
  BY <1>1 DEF Loop!AskForTools
<1>2. PICK asked \in [1..k -> Calls] :
           /\ running' = [i \in 1..k |-> Loop!Fresh(asked[i], n + i - 1)]
           /\ conversation' = Append(conversation, Loop!Message("assistant", [i \in 1..k |-> n + i - 1]))
  BY <1>a
<1>3. /\ pc = "complete" /\ pc' = "tools"
      /\ UNCHANGED <<browser, turn, start, seen, outcome, avail, prompts, headFailed, trips, earlier>>
  BY DEF Loop!AskForTools, Loop!history
<1>4. k \in Nat
  BY <1>a, LoopConstants
<1>5. ASSUME NEW i \in 1..k
      PROVE  /\ Loop!Fresh(asked[i], n + i - 1) \in CallRec
             /\ Loop!Fresh(asked[i], n + i - 1).id = n + i - 1
             /\ Loop!Fresh(asked[i], n + i - 1).stage = "new"
             /\ Loop!Question(Loop!Fresh(asked[i], n + i - 1)) \in Calls
  <2>1. asked[i] \in Calls
    BY <1>2
  <2>2. asked[i] \in [tool : Loop!Tools \cup {"unknown"}, args : Loop!Args]
    BY <2>1, LoopConstants
  <2>3. PICK id \in Nat : id = n + i - 1
    BY <1>4
  <2>4. Loop!Fresh(asked[i], id) \in CallRec
    <3>1. asked[i].tool \in Loop!Tools \cup {"unknown"} /\ asked[i].args \in Loop!Args
      BY <2>2
    <3> QED BY <2>3, <3>1 DEF Loop!Fresh, CallRec, Loop!Stages, Loop!Results
  <2>5. asked[i] = [tool |-> asked[i].tool, args |-> asked[i].args]
    BY <2>2
  <2>6. Loop!Question(Loop!Fresh(asked[i], id)) = asked[i]
    BY <2>5 DEF Loop!Question, Loop!Fresh
  <2>7. Loop!Fresh(asked[i], id).id = id /\ Loop!Fresh(asked[i], id).stage = "new"
    BY DEF Loop!Fresh
  <2> QED BY <2>1, <2>3, <2>4, <2>6, <2>7
<1>6. running' \in Seq(CallRec) /\ Len(running') = k
  <2>1. running' \in [1..k -> CallRec]
    BY <1>2, <1>5
  <2> QED BY <1>4, <2>1
<1>7. ASSUME NEW i \in 1..k PROVE running'[i] = Loop!Fresh(asked[i], n + i - 1)
  BY <1>2
<1> DEFINE ids == [i \in 1..k |-> n + i - 1]
           said == Loop!Message("assistant", ids)
<1>8. ids \in Seq(Nat)
  BY <1>1, <1>4
<1>9. said \in Msg
  BY <1>8 DEF Loop!Message, Msg, Loop!ValidRoles
<1>10. said = Asking'
  <2>1. Asking' = Loop!Message("assistant", [i \in 1..k |-> running'[i].id])
    BY <1>6 DEF Asking, Loop!Message
  <2>2. [i \in 1..k |-> running'[i].id] = ids
    BY <1>5, <1>7
  <2> QED BY <2>1, <2>2
<1> HIDE DEF ids, said
<1>11. PICK m \in Nat : m = Len(conversation) /\ conversation \in Seq(Msg)
  BY LenProperties DEF LoopParts
<1>12. /\ conversation' \in Seq(Msg) /\ Len(conversation') = m + 1 /\ conversation'[m + 1] = said
       /\ \A i \in 1..m : conversation'[i] = conversation[i]
  <2>1. conversation' = Append(conversation, said)
    BY <1>2 DEF said, ids
  <2> QED BY <1>9, <1>11, <2>1, AppendProperties
<1>13. start \in 1..m /\ \A j \in start..m : Loop!Answered(j)
  BY <1>3, <1>11 DEF LoopParts
<1>14. ASSUME NEW j \in start'..(Len(conversation') - 1) PROVE Loop!Answered(j)'
  <2>1. j \in 1..m /\ Loop!Answered(j)
    BY <1>3, <1>12, <1>13
  <2>2. Len(conversation) <= Len(conversation')
    BY <1>11, <1>12
  <2> QED BY <1>11, <1>12, <2>1, <2>2, StaysAnswered
<1>15. start' \in 1..Len(conversation')
  BY <1>3, <1>11, <1>12, <1>13
<1>16. ASSUME NEW i \in 1..Len(running') PROVE CallFine(i)'
  BY <1>5, <1>6, <1>7 DEF CallFine, Loop!Question
<1>17. LoopScalars' /\ Loop!OnlyTheHeadEndsIt' /\ earlier' \subseteq seen' /\ browser' \in Seq(PageMsg)
  BY <1>3 DEF LoopParts, LoopScalars, Loop!OnlyTheHeadEndsIt
<1>18. conversation'[Len(conversation')] = Asking'
  BY <1>10, <1>12
<1> QED BY <1>3, <1>6, <1>12, <1>14, <1>15, <1>16, <1>17, <1>18
        DEF LoopParts, Msg, PageMsg, CallRec, Loop!ValidRoles, Loop!Tools, Loop!Args, Loop!Stages, Loop!Results

\* A step of one running call: it stays the call it was, and when it is done its
\* question has an answer.
LEMMA CallStepSafe ==
    ASSUME LoopParts, pc = "tools", NEW i \in 1..Len(running), NEW r \in CallRec,
           r.tool = running[i].tool, r.args = running[i].args, r.id = running[i].id,
           running' = [running EXCEPT ![i] = r], seen \subseteq seen', seen' \subseteq Calls,
           r.stage = "done" /\ r.args \in {"good", "bad"} => Loop!Question(r) \in seen',
           trips' \in [Calls -> Nat],
           UNCHANGED <<browser, pc, turn, conversation, start, outcome, avail, prompts, headFailed, earlier>>
    PROVE  LoopParts'
<1>1. PICK k \in Nat : k = Len(running) /\ running \in Seq(CallRec)
  BY LenProperties DEF LoopParts
<1>2. running' \in Seq(CallRec) /\ Len(running') = k /\ running'[i] = r
      /\ \A j \in 1..k : j # i => running'[j] = running[j]
  BY <1>1, ExceptSeq
<1>3. Asking' = Asking
  <2>1. \A j \in 1..k : running'[j].id = running[j].id
    BY <1>2
  <2>2. [j \in 1..k |-> running'[j].id] = [j \in 1..k |-> running[j].id]
    BY <2>1
  <2> QED BY <1>1, <1>2, <2>2 DEF Asking, Loop!Message
<1>4. ASSUME NEW j \in 1..k PROVE CallFine(j)'
  <2>1. CallFine(j)
    BY <1>1 DEF LoopParts
  <2>2. CASE j = i
    <3>1. Loop!Question(r) = Loop!Question(running[i])
      BY DEF Loop!Question
    <3> QED BY <1>2, <2>1, <2>2, <3>1 DEF CallFine, Loop!Question
  <2>3. CASE j # i
    BY <1>2, <2>1, <2>3 DEF CallFine, Loop!Question
  <2> QED BY <2>2, <2>3
<1>5. LoopScalars' /\ Loop!OnlyTheHeadEndsIt' /\ earlier' \subseteq seen'
  BY DEF LoopParts, LoopScalars, Loop!OnlyTheHeadEndsIt
<1>6. /\ browser' \in Seq(PageMsg) /\ conversation' \in Seq(Msg)
      /\ start' \in 1..Len(conversation') /\ conversation'[Len(conversation')] = Asking'
      /\ \A j \in start'..(Len(conversation') - 1) : Loop!Answered(j)'
  BY <1>3 DEF LoopParts, Loop!Answered, Loop!Message
<1> QED BY <1>2, <1>4, <1>5, <1>6
        DEF LoopParts, Msg, PageMsg, CallRec, Loop!ValidRoles, Loop!Tools, Loop!Args, Loop!Stages, Loop!Results

LEMMA SettleSafe ==
    ASSUME LoopParts, pc = "tools", NEW i \in 1..Len(running), NEW result \in Loop!Results,
           NEW asked \in BOOLEAN, Loop!Settle(i, result, asked),
           \/ asked = TRUE \/ running[i].args \notin {"good", "bad"} \/ Loop!Question(running[i]) \in seen
    PROVE  LoopParts'
<1>1. running \in Seq(CallRec) /\ running[i] \in CallRec /\ CallFine(i) /\ seen \subseteq Calls /\ trips \in [Calls -> Nat]
  BY ElementOfSeq DEF LoopParts, LoopScalars
<1> DEFINE r == [running[i] EXCEPT !.stage = "done", !.result = result]
<1>2. /\ r \in CallRec /\ r.tool = running[i].tool /\ r.args = running[i].args /\ r.id = running[i].id
      /\ r.stage = "done"
  BY <1>1 DEF CallRec, Loop!Stages
<1>3. running' = [running EXCEPT ![i] = r]
  BY <1>1 DEF Loop!Settle
<1>4. /\ seen' = IF asked THEN seen \cup {Loop!Question(running[i])} ELSE seen
      /\ UNCHANGED <<browser, pc, turn, conversation, start, outcome, avail, prompts, headFailed, trips, earlier>>
  BY DEF Loop!Settle
<1>5. Loop!Question(r) = Loop!Question(running[i])
  BY <1>2 DEF Loop!Question
<1> HIDE DEF r
<1>6. seen \subseteq seen' /\ seen' \subseteq Calls
  BY <1>1, <1>4 DEF CallFine
<1>7. r.args \in {"good", "bad"} => Loop!Question(r) \in seen'
  BY <1>2, <1>4, <1>5
<1> QED BY <1>1, <1>2, <1>3, <1>4, <1>6, <1>7, CallStepSafe

LEMMA ToolErrorSafe ==
    ASSUME LoopParts, pc = "tools", NEW i \in 1..Len(running), Loop!ToolError(i)
    PROVE  LoopParts'
BY SettleSafe DEF Loop!ToolError, Loop!Results

LEMMA DispatchSafe ==
    ASSUME LoopParts, NEW i \in 1..Len(running), Loop!Dispatch(i)
    PROVE  LoopParts'
<1> DEFINE c == running[i]
<1>1. pc = "tools" /\ c \in CallRec /\ CallFine(i) /\ running \in Seq(CallRec) /\ trips \in [Calls -> Nat]
      /\ seen \subseteq Calls
  BY ElementOfSeq DEF LoopParts, LoopScalars, Loop!Dispatch
<1>2. CASE c.args \in {"notjson", "notobject"} /\ Loop!Settle(i, "not an object", FALSE)
  BY <1>1, <1>2, SettleSafe DEF Loop!Results
<1>3. CASE ~Loop!Unseen(c) /\ Loop!Repeat(i)
  BY <1>1, <1>3, SettleSafe DEF Loop!Results, Loop!Unseen, Loop!Repeat
<1>4. CASE Loop!Settle(i, "refused", TRUE)
  BY <1>1, <1>4, SettleSafe DEF Loop!Results
<1>5. CASE /\ running' = [running EXCEPT ![i].stage = Loop!FirstStage(c.tool)]
           /\ trips' = [trips EXCEPT ![Loop!Question(c)] = @ + 1]
           /\ UNCHANGED <<browser, pc, turn, conversation, start, seen, outcome, avail,
                          prompts, headFailed, earlier>>
  <2>1. Loop!FirstStage(c.tool) \in Loop!Stages \ {"done"}
    BY DEF Loop!FirstStage, Loop!Stages
  <2>2. PICK stage \in Loop!Stages \ {"done"} : stage = Loop!FirstStage(c.tool)
    BY <2>1
  <2> DEFINE r == [running[i] EXCEPT !.stage = stage]
  <2>3. /\ r \in CallRec /\ r.tool = running[i].tool /\ r.args = running[i].args /\ r.id = running[i].id
        /\ r.stage # "done"
    BY <1>1, <2>2 DEF CallRec
  <2>4. running' = [running EXCEPT ![i] = r]
    BY <1>1, <1>5, <2>2
  <2>5. trips' \in [Calls -> Nat]
    <3>1. Loop!Question(c) \in Calls
      BY <1>1 DEF CallFine
    <3>2. trips[Loop!Question(c)] + 1 \in Nat
      BY <1>1, <3>1
    <3> QED BY <1>1, <1>5, <3>1, <3>2
  <2> HIDE DEF r
  <2> QED BY <1>1, <1>5, <2>3, <2>4, <2>5, CallStepSafe
<1> QED BY <1>2, <1>3, <1>4, <1>5 DEF Loop!Dispatch

LEMMA GetNodesSafe ==
    ASSUME LoopParts, NEW i \in 1..Len(running), Loop!GetNodes(i)
    PROVE  LoopParts'
<1>1. pc = "tools" /\ running[i] \in CallRec /\ running \in Seq(CallRec) /\ trips \in [Calls -> Nat]
      /\ seen \subseteq Calls /\ avail \in 0..MaxNodes
  BY ElementOfSeq DEF LoopParts, LoopScalars, Loop!GetNodes, Loop!Waits
<1>2. CASE Loop!ToolError(i)
  BY <1>1, <1>2, ToolErrorSafe
<1>3. CASE Loop!NoNodes(i)
  BY <1>1, <1>3, SettleSafe DEF Loop!Results, Loop!NoNodes
<1>4. CASE /\ running' = [running EXCEPT ![i].stage = "job",
                                         ![i].fanout = IF avail < MaxFanout THEN avail ELSE MaxFanout]
           /\ UNCHANGED <<browser, pc, turn, conversation, start, seen, outcome, avail, prompts, headFailed, trips, earlier>>
  <2>1. PICK wide \in Nat : wide = IF avail < MaxFanout THEN avail ELSE MaxFanout
    <3>1. avail \in Nat /\ MaxFanout \in Nat
      BY <1>1, LoopConstants
    <3> QED BY <3>1
  <2> DEFINE r == [running[i] EXCEPT !.stage = "job", !.fanout = wide]
  <2>2. /\ r \in CallRec /\ r.tool = running[i].tool /\ r.args = running[i].args /\ r.id = running[i].id
        /\ r.stage = "job"
    BY <1>1, <2>1 DEF CallRec, Loop!Stages
  <2>3. running' = [running EXCEPT ![i] = r]
    BY <1>1, <1>4, <2>1
  <2> HIDE DEF r
  <2> QED BY <1>1, <1>4, <2>2, <2>3, CallStepSafe
<1> QED BY <1>2, <1>3, <1>4 DEF Loop!GetNodes, Loop!history

LEMMA WaitForJobSafe ==
    ASSUME LoopParts, NEW i \in 1..Len(running), Loop!WaitForJob(i)
    PROVE  LoopParts'
<1>1. pc = "tools"
  BY DEF Loop!WaitForJob, Loop!Waits
<1>2. CASE Loop!ToolError(i)
  BY <1>1, <1>2, ToolErrorSafe
<1>3. CASE \E result \in {"answer", "some failed"} : Loop!Settle(i, result, TRUE)
  BY <1>1, <1>3, SettleSafe DEF Loop!Results
<1> QED BY <1>2, <1>3 DEF Loop!WaitForJob

LEMMA ReadSafe ==
    ASSUME LoopParts, NEW i \in 1..Len(running), Loop!Read(i)
    PROVE  LoopParts'
<1>1. pc = "tools"
  BY DEF Loop!Read, Loop!Waits
<1>2. CASE Loop!ToolError(i)
  BY <1>1, <1>2, ToolErrorSafe
<1>3. CASE Loop!Settle(i, "answer", TRUE)
  BY <1>1, <1>3, SettleSafe DEF Loop!Results
<1> QED BY <1>2, <1>3 DEF Loop!Read

\* The results follow the message that asked for them, in its order.
LEMMA GatheredSafe == ASSUME LoopParts, Loop!Gathered PROVE LoopParts'
<1>1. PICK k \in Nat : k = Len(running) /\ running \in Seq(CallRec)
  BY LenProperties DEF LoopParts
<1>2. PICK m \in Nat : m = Len(conversation) /\ conversation \in Seq(Msg)
  BY LenProperties DEF LoopParts
<1> DEFINE Result(i) == Loop!Message("tool", <<running[i].id>>)
           results == [i \in 1..k |-> Result(i)]
           messages == conversation \o results
<1>3. ASSUME NEW i \in 1..k PROVE running[i].id \in Nat /\ Result(i) \in Msg /\ Result(i).role = "tool"
  <2>1. running[i] \in CallRec
    BY <1>1, ElementOfSeq
  <2>2. PICK id \in Nat : id = running[i].id
    BY <2>1 DEF CallRec
  <2>3. <<id>> \in Seq(Nat)
    OBVIOUS
  <2> QED BY <2>2, <2>3 DEF Loop!Message, Msg, Loop!ValidRoles
<1> HIDE DEF Result
<1>4. results \in Seq(Msg) /\ Len(results) = k
  BY <1>3, <1>1
<1>5. \A i \in 1..k : results[i] = Result(i)
  OBVIOUS
<1> HIDE DEF results
<1>6. /\ messages \in Seq(Msg) /\ Len(messages) = m + k
      /\ \A i \in 1..m : messages[i] = conversation[i]
      /\ \A i \in 1..k : messages[m + i] = Result(i)
  <2>1. /\ messages \in Seq(Msg) /\ Len(messages) = m + k
        /\ \A i \in 1..(m + k) : messages[i] = IF i <= m THEN conversation[i] ELSE results[i - m]
    BY <1>2, <1>4, ConcatProperties
  <2>2. ASSUME NEW i \in 1..m PROVE messages[i] = conversation[i]
    <3>1. i \in 1..(m + k) /\ i <= m
      BY <1>1, <1>2
    <3> QED BY <2>1, <3>1
  <2>3. ASSUME NEW i \in 1..k PROVE messages[m + i] = Result(i)
    <3>1. m + i \in 1..(m + k) /\ ~(m + i <= m) /\ (m + i) - m = i
      BY <1>1, <1>2
    <3> QED BY <1>5, <2>1, <3>1
  <2> QED BY <2>1, <2>2, <2>3
<1>7. /\ pc = "tools" /\ running' = <<>> /\ UNCHANGED <<start, seen, avail, prompts, headFailed, trips>>
      /\ \A i \in 1..k : running[i].stage = "done"
  BY <1>1 DEF Loop!Gathered
<1>8. /\ start \in 1..m /\ conversation[m] = Asking /\ (\A j \in start..(m - 1) : Loop!Answered(j))
      /\ LoopScalars
  BY <1>2, <1>7 DEF LoopParts
<1>9. earlier' \subseteq Calls /\ earlier' \subseteq seen
  <2>1. earlier' = earlier \cup {Loop!Question(c) : c \in {d \in Loop!Range(running) : d.args \in {"good", "bad"}}}
    BY DEF Loop!Gathered
  <2>2. ASSUME NEW d \in Loop!Range(running), d.args \in {"good", "bad"} PROVE Loop!Question(d) \in seen
    <3>1. PICK i \in 1..k : d = running[i]
      BY <1>1, <2>2, LenProperties DEF Loop!Range
    <3>2. CallFine(i)
      BY <1>1, <3>1 DEF LoopParts
    <3> QED BY <1>7, <2>2, <3>1, <3>2 DEF CallFine
  <2>3. earlier \subseteq seen /\ seen \subseteq Calls
    BY <1>8 DEF LoopParts, LoopScalars
  <2> QED BY <2>1, <2>2, <2>3
<1>10. /\ \/ Loop!Finish("gave up", messages) /\ turn' = turn
          \/ /\ conversation' = messages /\ turn' = turn + 1 /\ pc' = "complete" /\ turn # MaxTurns
             /\ UNCHANGED <<browser, outcome>>
  BY <1>1 DEF Loop!Gathered, Loop!InCallOrder, Loop!LastTurn, Result, results
<1>11. CASE Loop!Finish("gave up", messages) /\ turn' = turn
  <2>1. headFailed \in BOOLEAN
    BY <1>8 DEF LoopScalars
  <2>2. PICK all \in Seq(Msg) : all = messages
    BY <1>6
  <2> QED BY <1>7, <1>9, <1>11, <2>1, <2>2, FinishSafe
<1>12. CASE /\ conversation' = messages /\ turn' = turn + 1 /\ pc' = "complete" /\ turn # MaxTurns
            /\ UNCHANGED <<browser, outcome>>
  <2> HIDE DEF messages
  <2>1. /\ conversation' \in Seq(Msg) /\ Len(conversation') = m + k
        /\ \A i \in 1..m : conversation'[i] = conversation[i]
        /\ \A i \in 1..k : conversation'[m + i] = Result(i)
    BY <1>6, <1>12
  <2>2. ASSUME NEW j \in start'..Len(conversation') PROVE Loop!Answered(j)'
    <3>1. j \in start..(m + k) /\ j \in Nat
      BY <1>7, <1>8, <1>2, <2>1
    <3>2. CASE j < m
      <4>1. j \in 1..m /\ Loop!Answered(j)
        BY <1>2, <1>8, <3>1, <3>2
      <4>2. Len(conversation) <= Len(conversation')
        BY <1>1, <1>2, <2>1
      <4> QED BY <1>2, <2>1, <4>1, <4>2, StaysAnswered
    <3>3. CASE j = m
      <4>a. conversation'[j] = Asking
        BY <1>8, <1>2, <2>1, <3>3
      <4>b. Asking.ids = [i \in 1..k |-> running[i].id]
        BY <1>1 DEF Asking, Loop!Message
      <4>1. conversation'[j] = Asking /\ Asking.ids = [i \in 1..k |-> running[i].id]
        BY <4>a, <4>b
      <4>2. Len(Asking.ids) = k /\ \A i \in 1..k : Asking.ids[i] = running[i].id
        BY <1>1, <4>1
      <4>3. ASSUME NEW i \in 1..k
            PROVE  j + i <= m + k /\ conversation'[j + i] = Loop!Message("tool", <<Asking.ids[i]>>)
        <5>1. j + i <= m + k
          BY <1>1, <1>2, <3>3
        <5>2. conversation'[j + i] = Result(i)
          BY <2>1, <3>3
        <5> QED BY <5>1, <5>2, <4>2 DEF Result
      <4> QED BY <2>1, <4>1, <4>2, <4>3 DEF Loop!Answered, Loop!Message
    <3>4. CASE j > m
      <4>a. j - m \in 1..k /\ j = m + (j - m)
        BY <1>1, <1>2, <1>8, <3>1, <3>4
      <4>1. PICK i \in 1..k : j = m + i
        BY <4>a
      <4>2. conversation'[j].role = "tool"
        BY <1>3, <2>1, <4>1
      <4> QED BY <4>2 DEF Loop!Answered
    <3> QED BY <1>2, <3>1, <3>2, <3>3, <3>4
  <2>3. running' \in Seq(CallRec) /\ \A i \in 1..Len(running') : CallFine(i)'
    BY <1>7, NoCalls
  <2>4. LoopScalars'
    <3>1. turn \in 0..MaxTurns /\ MaxTurns \in Nat
      BY <1>8, LoopConstants DEF LoopScalars
    <3>2. turn' \in 0..MaxTurns
      BY <1>12, <3>1
    <3> QED BY <1>7, <1>8, <1>9, <1>12, <3>2 DEF LoopScalars
  <2>5. start' \in 1..Len(conversation')
    BY <1>1, <1>2, <1>7, <1>8, <2>1
  <2>6. Loop!OnlyTheHeadEndsIt' /\ earlier' \subseteq seen' /\ browser' \in Seq(PageMsg)
    BY <1>7, <1>9, <1>12 DEF LoopParts, Loop!OnlyTheHeadEndsIt
  <2> QED BY <1>7, <1>12, <2>1, <2>2, <2>3, <2>4, <2>5, <2>6
          DEF LoopParts, Msg, PageMsg, CallRec, Loop!ValidRoles, Loop!Tools, Loop!Args, Loop!Stages, Loop!Results
<1> QED BY <1>10, <1>11, <1>12

LEMMA LoopUnchanged == ASSUME LoopParts, UNCHANGED loopVars PROVE LoopParts'
<1>1. UNCHANGED <<browser, pc, turn, conversation, start, running, seen, outcome, avail, prompts, headFailed, trips, earlier>>
  BY DEF loopVars
<1>2. LoopScalars' /\ Loop!OnlyTheHeadEndsIt'
  BY <1>1 DEF LoopParts, LoopScalars, Loop!OnlyTheHeadEndsIt
<1> QED BY <1>1, <1>2 DEF LoopParts, Asking, CallFine, Loop!Answered, Loop!Question, Loop!Message,
                          Msg, PageMsg, CallRec, Loop!ValidRoles, Loop!Tools, Loop!Args, Loop!Stages, Loop!Results

LEMMA LoopNext == LoopParts /\ [Loop!Next]_loopVars => LoopParts'
<1> SUFFICES ASSUME LoopParts, [Loop!Next]_loopVars PROVE LoopParts'
  OBVIOUS
<1>1. CASE Loop!Chat \/ Loop!Churn
  BY <1>1, ChatSafe, ChurnSafe
<1>2. CASE Loop!HeadFails \/ Loop!Answer \/ Loop!AskForTools \/ Loop!Gathered
  BY <1>2, HeadFailsSafe, AnswerSafe, AskForToolsSafe, GatheredSafe
<1>3. ASSUME NEW i \in 1..Len(running), Loop!Dispatch(i) \/ Loop!GetNodes(i) \/ Loop!WaitForJob(i) \/ Loop!Read(i)
      PROVE  LoopParts'
  BY <1>3, DispatchSafe, GetNodesSafe, WaitForJobSafe, ReadSafe
<1>4. CASE Loop!Done \/ UNCHANGED loopVars
  <2>1. UNCHANGED loopVars
    BY <1>4 DEF Loop!Done, Loop!vars, Loop!ask, Loop!history, loopVars
  <2> QED BY <2>1, LoopUnchanged
<1> QED BY <1>1, <1>2, <1>3, <1>4 DEF Loop!Next, Loop!Step

LEMMA LoopInit == Loop!Init => LoopParts
<1> SUFFICES ASSUME Loop!Init PROVE LoopParts
  OBVIOUS
<1>1. /\ browser = <<>> /\ conversation = <<>> /\ start = 0 /\ turn = 0 /\ pc = "idle" /\ running = <<>>
      /\ seen = {} /\ outcome = "none" /\ avail \in 0..MaxNodes
      /\ prompts = 0 /\ headFailed = FALSE /\ trips = [q \in Calls |-> 0] /\ earlier = {}
  BY DEF Loop!Init
<1>2. browser \in Seq(PageMsg) /\ conversation \in Seq(Msg) /\ running \in Seq(CallRec) /\ Len(running) = 0
  BY <1>1, EmptySeq
<1>3. 0 \in 0..MaxTurns /\ 0 \in 0..MaxPrompts
  BY LoopConstants
<1>4. LoopScalars /\ Loop!OnlyTheHeadEndsIt
  BY <1>1, <1>3 DEF LoopScalars, Loop!OnlyTheHeadEndsIt
<1>5. \A i \in 1..Len(running) : CallFine(i)
  BY <1>2
<1> QED BY <1>1, <1>2, <1>4, <1>5 DEF LoopParts

\* A question of an earlier turn has its answer, and only one without an answer
\* goes to the cluster.
LEMMA NoRepeat ==
    ASSUME LoopParts, [Loop!Next]_loopVars, pc # "idle", NEW q \in earlier
    PROVE  trips'[q] = trips[q]
<1>1. CASE trips' = trips
  BY <1>1
<1>2. ASSUME NEW i \in 1..Len(running), Loop!Dispatch(i) PROVE trips'[q] = trips[q]
  <2>1. trips' = trips \/ (Loop!Unseen(running[i]) /\ trips' = [trips EXCEPT ![Loop!Question(running[i])] = @ + 1])
    BY <1>2 DEF Loop!Dispatch, Loop!Settle, Loop!Repeat
  <2>2. CASE Loop!Unseen(running[i]) /\ trips' = [trips EXCEPT ![Loop!Question(running[i])] = @ + 1]
    <3>1. q \in seen /\ q \in Calls /\ trips \in [Calls -> Nat]
      BY DEF LoopParts, LoopScalars
    <3>2. q # Loop!Question(running[i])
      BY <2>2, <3>1 DEF Loop!Unseen
    <3> QED BY <2>2, <3>1, <3>2
  <2> QED BY <2>1, <2>2
<1>3. CASE Loop!Chat
  BY <1>3 DEF Loop!Chat
<1>4. ASSUME NEW i \in 1..Len(running), Loop!GetNodes(i) \/ Loop!WaitForJob(i) \/ Loop!Read(i) PROVE trips' = trips
  BY <1>4 DEF Loop!GetNodes, Loop!WaitForJob, Loop!Read, Loop!ToolError, Loop!NoNodes, Loop!Settle, Loop!history
<1>5. CASE Loop!Churn \/ Loop!HeadFails \/ Loop!Answer \/ Loop!AskForTools \/ Loop!Gathered \/ Loop!Done
  <2>1. trips' = trips
    BY <1>5 DEF Loop!Churn, Loop!HeadFails, Loop!Answer, Loop!AskForTools, Loop!Gathered, Loop!Done,
                Loop!history, Loop!vars
  <2> QED BY <2>1
<1>6. CASE UNCHANGED loopVars
  BY <1>6 DEF loopVars
<1> QED BY <1>1, <1>2, <1>3, <1>4, <1>5, <1>6 DEF Loop!Next, Loop!Step

-----------------------------------------------------------------------------
(* The two parts together *)

LEMMA AgentInit == Init => Loop!Init /\ Pool!Init
BY DEF Init

LEMMA AgentNext == [Next]_<<part, loopVars, poolVars>> => [Loop!Next]_loopVars /\ [Pool!Next]_poolVars
BY DEF Next

\* However calls finish, repeat and fail, every request for tools the head is
\* sent is followed by its results in the order of the calls, and only the
\* head's own failure ends a conversation (ask, call_tool).
THEOREM LoopIsSafe == Spec => []LoopInvariant
<1>1. LoopParts => LoopInvariant
  BY LoopByParts DEF LoopInvariant
<1> QED BY <1>1, LoopInit, LoopNext, AgentInit, AgentNext, PTL DEF Spec

\* A question of an earlier turn does not go to the cluster again (seen, in ask).
THEOREM NoQuestionTwice == Spec => RepeatsStayHome
<1> DEFINE Home == pc # "idle" => \A q \in earlier : trips'[q] = trips[q]
<1>1. LoopParts /\ [Loop!Next]_loopVars => Home
  BY NoRepeat
<1>2. RepeatsStayHome <=> [][Home]_Loop!vars
  BY DEF RepeatsStayHome, Loop!RepeatsStayHome
<1> HIDE DEF Home
<1> QED BY <1>1, <1>2, LoopInit, LoopNext, AgentInit, AgentNext, PTL DEF Spec

\* A client outlasts an attempt that was not delayed, never waits longer than its
\* deadline, is told what became of its own job, and is not queued behind another
\* prompt while every prompt has a machine of its own, unless one was moved
\* (submit_and_wait, ask_pool).
THEOREM PoolIsSafe == Spec => []PoolInvariant
<1>1. PoolParts => PoolInvariant
  BY PoolByParts DEF PoolInvariant
<1> QED BY <1>1, PoolInit, PoolNext, AgentInit, AgentNext, PTL DEF Spec
=============================================================================
