--------------------------- MODULE JobQueueProofs ---------------------------
(***************************************************************************)
(* Proofs about JobQueue: its permits and slots (SlotInvariant there), and *)
(* what it tells its callers (OutcomeInvariant, on top of that).           *)
(*                                                                         *)
(* For the second part every step of a shard task is first reduced to its  *)
(* shape, ShardMoves and Tries; what a job's record, its events and its    *)
(* verdict say follows from the shape alone.  Only NoLostWakeup looks at   *)
(* the semaphore again.                                                    *)
(***************************************************************************)
EXTENDS JobQueue, FiniteSetTheorems, TLAPS

\* The shards of all jobs are finitely many.
LEMMA ShardsFinite == IsFiniteSet(Shards)
<1>1. IsFiniteSet(1..MaxFanout)
  BY FS_Interval, BoundsAssumption
<1> QED
  BY <1>1, FS_Product, JobsAssumption DEF Shards

\* "No shard" is not a shard.
LEMMA NoShardIsNone == NoShard \notin Shards
  BY DEF NoShard, Shards

\* The job of a shard, and its index.
LEMMA ShardParts ==
  ASSUME NEW s \in Shards
  PROVE  JobOf(s) \in Jobs /\ s[2] \in 1..MaxFanout /\ s = <<JobOf(s), s[2]>>
  BY DEF Shards, JobOf

\* The permit holders and the posting shards of a node are finite sets.
LEMMA HoldersFinite ==
  ASSUME NEW n
  PROVE  /\ IsFiniteSet(HoldersAt(n)) /\ Cardinality(HoldersAt(n)) \in Nat
         /\ IsFiniteSet(PostingAt(n)) /\ Cardinality(PostingAt(n)) \in Nat
<1>1. HoldersAt(n) \in SUBSET Shards /\ PostingAt(n) \in SUBSET Shards
  BY DEF HoldersAt, PostingAt
<1> QED
  BY <1>1, ShardsFinite, FS_Subset, FS_CardinalityType

\* The same for the state after a step.
LEMMA HoldersFiniteNext ==
  ASSUME NEW n
  PROVE  /\ IsFiniteSet(HoldersAt(n)') /\ Cardinality(HoldersAt(n)') \in Nat
         /\ IsFiniteSet(PostingAt(n)') /\ Cardinality(PostingAt(n)') \in Nat
<1>1. HoldersAt(n)' \in SUBSET Shards /\ PostingAt(n)' \in SUBSET Shards
  BY DEF HoldersAt, PostingAt
<1> QED
  BY <1>1, ShardsFinite, FS_Subset, FS_CardinalityType

\* A shard that holds a permit is one of those counted, so a permit is out.
LEMMA HolderHasPermit ==
  ASSUME SlotInvariant, NEW s \in Shards, pc[s] \in Holders
  PROVE  /\ node[s] \in Nodes
         /\ s \in HoldersAt(node[s])
         /\ permits[node[s]] < PerNodeLimit
<1>1. node[s] \in Nodes
  BY DEF SlotInvariant, Placed, Holders
<1>2. s \in HoldersAt(node[s])
  BY DEF HoldersAt
<1>3. Cardinality(HoldersAt(node[s])) # 0
  BY <1>2, FS_EmptySet, HoldersFinite
<1>4. permits[node[s]] + Cardinality(HoldersAt(node[s])) = PerNodeLimit
  BY <1>1 DEF SlotInvariant, SlotsAccounted
<1>5. permits[node[s]] \in 0..PerNodeLimit
  BY <1>1 DEF SlotInvariant, TypeOK
<1> QED
  BY <1>1, <1>2, <1>3, <1>4, <1>5, HoldersFinite, BoundsAssumption

\* What _wake_up_next does to the books.  Shard s leaves control state pc[s] for
\* "to" and puts back as many permits as that move gives up ("freed"); whoever is
\* woken takes one.  Then permits still add up, at every node.
LEMMA WakeUpKeepsPermits ==
  ASSUME SlotInvariant, NEW n \in Nodes, NEW s \in Shards, node[s] = n,
         NEW to \in PCs, NEW freed \in {0, 1}, NEW most \in Nat,
         pc[s] # "queued" \/ cancelled[JobOf(s)],
         freed = (IF pc[s] \in Holders THEN 1 ELSE 0) - (IF to \in Holders THEN 1 ELSE 0),
         WakeUp(n, s, to, freed, most), UNCHANGED node
  PROVE  /\ permits' \in [Nodes -> 0..PerNodeLimit]
         /\ pc' \in [Shards -> PCs]
         /\ \A m \in Nodes : permits'[m] + Cardinality(HoldersAt(m)') = PerNodeLimit
         /\ pc'[s] = to
         /\ \A t \in Shards \ {s} :
               pc'[t] # pc[t] => pc[t] = "queued" /\ pc'[t] = "granted"
<1>1. PICK woken \in SUBSET Wakeable(n) :
        /\ Cardinality(woken) = Smallest(Smallest(permits[n] + freed, most),
                                         Cardinality(Wakeable(n)))
        /\ permits' = [permits EXCEPT ![n] = @ + freed - Cardinality(woken)]
        /\ pc' = [t \in Shards |-> IF t = s THEN to
                                   ELSE IF t \in woken THEN "granted" ELSE pc[t]]
  BY DEF WakeUp
<1>2. Wakeable(n) \subseteq Shards
  BY DEF Wakeable, Waiting, SlotInvariant, TypeOK
<1>3. \A t \in woken : t \in Shards /\ pc[t] = "queued" /\ node[t] = n /\ t # s
  BY <1>1, <1>2 DEF Wakeable, Waiting, SlotInvariant, QueuesMatch
<1>4. /\ IsFiniteSet(woken) /\ Cardinality(woken) \in Nat
      /\ Cardinality(Wakeable(n)) \in Nat
  BY <1>1, <1>2, ShardsFinite, FS_Subset, FS_CardinalityType
<1>5. permits[n] \in 0..PerNodeLimit /\ permits \in [Nodes -> 0..PerNodeLimit]
  BY DEF SlotInvariant, TypeOK
<1>6. Cardinality(woken) <= permits[n] + freed
  BY <1>1, <1>4, <1>5, BoundsAssumption DEF Smallest
<1>7. pc \in [Shards -> PCs] /\ node \in [Shards -> Nodes \cup {NoNode}]
  BY DEF SlotInvariant, TypeOK
<1>8. permits[n] + freed <= PerNodeLimit
  <2>1. CASE freed = 0
    BY <2>1, <1>5, BoundsAssumption
  <2>2. CASE freed = 1
    <3>1. pc[s] \in Holders
      BY <2>2
    <3> QED
      BY <3>1, <2>2, <1>5, HolderHasPermit, BoundsAssumption
  <2> QED
    BY <2>1, <2>2
<1>9. permits' \in [Nodes -> 0..PerNodeLimit]
  BY <1>1, <1>4, <1>5, <1>6, <1>8, BoundsAssumption
<1>10. pc' \in [Shards -> PCs]
  BY <1>1, <1>7 DEF PCs
<1>11. ASSUME NEW m \in Nodes
       PROVE  permits'[m] + Cardinality(HoldersAt(m)') = PerNodeLimit
  <2>0. permits[m] + Cardinality(HoldersAt(m)) = PerNodeLimit
    BY DEF SlotInvariant, SlotsAccounted
  <2>1. CASE m # n
    <3>1. HoldersAt(m)' = HoldersAt(m)
      BY <2>1, <1>1, <1>3, <1>7 DEF HoldersAt
    <3>2. permits'[m] = permits[m]
      BY <2>1, <1>1, <1>5
    <3> QED
      BY <3>1, <3>2, <2>0
  <2>2. CASE m = n
    <3> DEFINE rest == HoldersAt(n) \ {s}
               stay == IF to \in Holders THEN {s} ELSE {}
    <3>1. HoldersAt(n)' = (rest \cup woken) \cup stay
      BY <1>1, <1>3, <1>7 DEF HoldersAt, Holders
    <3>2. /\ IsFiniteSet(rest)
          /\ Cardinality(rest) =
                Cardinality(HoldersAt(n)) - (IF pc[s] \in Holders THEN 1 ELSE 0)
      <4>1. s \in HoldersAt(n) <=> pc[s] \in Holders
        BY DEF HoldersAt
      <4>2. IsFiniteSet(HoldersAt(n)) /\ Cardinality(HoldersAt(n)) \in Nat
        BY HoldersFinite
      <4>3. /\ IsFiniteSet(rest)
            /\ Cardinality(rest) = IF s \in HoldersAt(n)
                                   THEN Cardinality(HoldersAt(n)) - 1
                                   ELSE Cardinality(HoldersAt(n))
        BY <4>2, FS_RemoveElement
      <4> QED
        BY <4>1, <4>2, <4>3
    <3>3. rest \cap woken = {}
      BY <1>3 DEF HoldersAt, Holders
    <3>4. /\ IsFiniteSet(rest \cup woken)
          /\ Cardinality(rest \cup woken) = Cardinality(rest) + Cardinality(woken)
      <4>1. IsFiniteSet(rest \cup woken) /\
            Cardinality(rest \cup woken) =
               Cardinality(rest) + Cardinality(woken) - Cardinality(rest \cap woken)
        BY <3>2, <1>4, FS_Union
      <4>2. Cardinality(rest \cap woken) = 0
        BY <3>3, FS_EmptySet
      <4>3. Cardinality(rest) \in Nat
        BY <3>2, FS_CardinalityType
      <4> QED
        BY <4>1, <4>2, <4>3, <1>4
    <3>5. s \notin rest \cup woken
      BY <1>3
    <3>6. Cardinality(HoldersAt(n)') =
             Cardinality(rest) + Cardinality(woken) + (IF to \in Holders THEN 1 ELSE 0)
      <4>1. CASE to \in Holders
        BY <4>1, <3>1, <3>4, <3>5, FS_AddElement
      <4>2. CASE to \notin Holders
        <5>1. HoldersAt(n)' = rest \cup woken
          BY <4>2, <3>1
        <5>2. Cardinality(rest) \in Nat
          BY <3>2, FS_CardinalityType
        <5> QED
          BY <4>2, <5>1, <5>2, <3>4, <1>4
      <4> QED
        BY <4>1, <4>2
    <3>7. permits'[n] = permits[n] + freed - Cardinality(woken)
      BY <1>1, <1>5
    <3>8. Cardinality(HoldersAt(n)) \in Nat
      BY HoldersFinite
    <3> QED
      BY <2>0, <2>2, <3>2, <3>6, <3>7, <3>8, <1>4, <1>5, BoundsAssumption
  <2> QED
    BY <2>1, <2>2
<1>12. pc'[s] = to
  BY <1>1
<1>13. \A t \in Shards \ {s} :
          pc'[t] # pc[t] => pc[t] = "queued" /\ pc'[t] = "granted"
  BY <1>1, <1>3
<1> QED
  BY <1>9, <1>10, <1>11, <1>12, <1>13

\* Who is in a queue, and that nobody is in it twice.
Members(queue) == {queue[i] : i \in DOMAIN queue}
NoRepeats(queue) == \A i, h \in DOMAIN queue : queue[i] = queue[h] => i = h

\* deque.remove on a queue without repetitions drops exactly that element.
LEMMA WithoutRemoves ==
  ASSUME NEW S, NEW queue \in Seq(S), NEW t,
         NoRepeats(queue), t \in Members(queue)
  PROVE  /\ Without(queue, t) \in Seq(S)
         /\ NoRepeats(Without(queue, t))
         /\ Members(Without(queue, t)) = Members(queue) \ {t}
<1>0. /\ \A i, h \in DOMAIN queue : queue[i] = queue[h] => i = h
      /\ \E i \in DOMAIN queue : queue[i] = t
  BY DEF NoRepeats, Members
<1> DEFINE at == CHOOSE i \in DOMAIN queue : queue[i] = t
           rest == [i \in 1..(Len(queue) - 1) |->
                       IF i < at THEN queue[i] ELSE queue[i + 1]]
<1>1. at \in 1..Len(queue) /\ queue[at] = t /\ Len(queue) \in Nat
  BY <1>0
<1>2. DOMAIN queue = 1..Len(queue) /\ \A i \in 1..Len(queue) : queue[i] \in S
  OBVIOUS
<1>3. Without(queue, t) = rest
  BY DEF Without
<1> HIDE DEF at
<1>4. DOMAIN rest = 1..(Len(queue) - 1)
  OBVIOUS
<1>5. rest \in Seq(S)
  <2>1. Len(queue) - 1 \in Nat
    BY <1>1
  <2>2. \A i \in 1..(Len(queue) - 1) : rest[i] \in S
    BY <1>1, <1>2
  <2> QED
    BY <2>1, <2>2
<1>6. ASSUME NEW i \in DOMAIN rest, NEW h \in DOMAIN rest, rest[i] = rest[h]
      PROVE  i = h
  BY <1>0, <1>1, <1>2, <1>4, <1>6
<1>7. ASSUME NEW i \in DOMAIN rest
      PROVE  rest[i] \in {queue[h] : h \in DOMAIN queue} \ {t}
  BY <1>0, <1>1, <1>2, <1>4
<1>8. ASSUME NEW i \in DOMAIN queue, queue[i] # t
      PROVE  \E h \in DOMAIN rest : rest[h] = queue[i]
  <2>1. CASE i < at
    <3>1. i \in DOMAIN rest /\ rest[i] = queue[i]
      BY <1>1, <1>2, <1>4, <2>1
    <3> QED
      BY <3>1
  <2>2. CASE ~(i < at)
    <3>1. i - 1 \in DOMAIN rest /\ rest[i - 1] = queue[i]
      BY <1>1, <1>2, <1>4, <1>8, <2>2
    <3> QED
      BY <3>1
  <2> QED
    BY <2>1, <2>2
<1>9. {rest[i] : i \in DOMAIN rest} = {queue[i] : i \in DOMAIN queue} \ {t}
  <2>1. ASSUME NEW x \in {rest[i] : i \in DOMAIN rest}
        PROVE  x \in {queue[i] : i \in DOMAIN queue} \ {t}
    BY <1>7
  <2>2. ASSUME NEW x \in {queue[i] : i \in DOMAIN queue} \ {t}
        PROVE  x \in {rest[i] : i \in DOMAIN rest}
    <3>1. PICK i \in DOMAIN queue : queue[i] = x /\ queue[i] # t
      OBVIOUS
    <3>2. PICK h \in DOMAIN rest : rest[h] = queue[i]
      BY <3>1, <1>8
    <3> QED
      BY <3>1, <3>2
  <2> QED
    BY <2>1, <2>2
<1>10. \A i, h \in DOMAIN rest : rest[i] = rest[h] => i = h
  BY <1>6
<1> HIDE DEF rest
<1>11. NoRepeats(rest) /\ Members(rest) = Members(queue) \ {t}
  BY <1>9, <1>10 DEF NoRepeats, Members
<1> QED
  BY <1>3, <1>5, <1>11

\* in_flight when one shard leaves its POST: the "finally" of _request.
LEMMA FlightEnds ==
  ASSUME SlotInvariant, NEW s \in Shards, pc[s] = "posting", UNCHANGED node,
         EndFlight(node[s]), pc'[s] # "posting",
         \A t \in Shards \ {s} : pc'[t] = "posting" <=> pc[t] = "posting"
  PROVE  /\ inFlight' \in [Nodes -> Nat]
         /\ \A m \in Nodes : inFlight'[m] = Cardinality(PostingAt(m)')
<1> DEFINE n == node[s]
<1>1. n \in Nodes
  BY DEF SlotInvariant, Placed
<1>2. /\ inFlight \in [Nodes -> Nat]
      /\ \A m \in Nodes : inFlight[m] = Cardinality(PostingAt(m))
  BY DEF SlotInvariant, SlotsAccounted, TypeOK
<1>3. inFlight' = [inFlight EXCEPT ![n] = IF @ > 0 THEN @ - 1 ELSE 0]
  BY DEF EndFlight
<1>4. inFlight' \in [Nodes -> Nat]
  BY <1>1, <1>2, <1>3
<1>5. ASSUME NEW m \in Nodes
      PROVE  inFlight'[m] = Cardinality(PostingAt(m)')
  <2>1. CASE m # n
    <3>1. PostingAt(m)' = PostingAt(m)
      BY <2>1 DEF PostingAt
    <3> QED
      BY <2>1, <3>1, <1>1, <1>2, <1>3
  <2>2. CASE m = n
    <3>1. PostingAt(n)' = PostingAt(n) \ {s}
      BY DEF PostingAt
    <3>2. s \in PostingAt(n)
      BY DEF PostingAt
    <3>3. IsFiniteSet(PostingAt(n)) /\ Cardinality(PostingAt(n)) \in Nat
      BY HoldersFinite
    <3>4. Cardinality(PostingAt(n) \ {s}) = Cardinality(PostingAt(n)) - 1
      BY <3>2, <3>3, FS_RemoveElement
    <3>5. Cardinality(PostingAt(n)) # 0
      BY <3>2, <3>3, FS_EmptySet
    <3> QED
      BY <2>2, <3>1, <3>3, <3>4, <3>5, <1>1, <1>2, <1>3
  <2> QED
    BY <2>1, <2>2
<1> QED
  BY <1>4, <1>5

\* Steps that move no shard into or out of a POST leave in_flight right.
LEMMA FlightKept ==
  ASSUME SlotInvariant, UNCHANGED inFlight,
         \A t \in Shards : pc'[t] = "posting" <=> pc[t] = "posting",
         \A t \in Shards : pc[t] = "posting" => node'[t] = node[t]
  PROVE  /\ inFlight' \in [Nodes -> Nat]
         /\ \A m \in Nodes : inFlight'[m] = Cardinality(PostingAt(m)')
<1>1. \A m \in Nodes : PostingAt(m)' = PostingAt(m)
  BY DEF PostingAt
<1> QED
  BY <1>1 DEF SlotInvariant, SlotsAccounted, TypeOK

\* Steps that move no shard to or from a permit leave the permits right.
LEMMA PermitsKept ==
  ASSUME SlotInvariant, UNCHANGED permits,
         \A t \in Shards : pc'[t] \in Holders <=> pc[t] \in Holders,
         \A t \in Shards : pc[t] \in Holders => node'[t] = node[t]
  PROVE  /\ permits' \in [Nodes -> 0..PerNodeLimit]
         /\ \A m \in Nodes : permits'[m] + Cardinality(HoldersAt(m)') = PerNodeLimit
<1>1. \A m \in Nodes : HoldersAt(m)' = HoldersAt(m)
  BY DEF HoldersAt
<1> QED
  BY <1>1 DEF SlotInvariant, SlotsAccounted, TypeOK

\* Steps after which the same shards wait for the same nodes keep the queues.
LEMMA QueuesKept ==
  ASSUME SlotInvariant, UNCHANGED waiters,
         \A t \in Shards : pc'[t] \in {"queued", "granted"}
                              <=> pc[t] \in {"queued", "granted"},
         \A t \in Shards : pc[t] \in {"queued", "granted"} => node'[t] = node[t]
  PROVE  waiters' \in [Nodes -> Seq(Shards)] /\ QueuesMatch'
<1>1. waiters \in [Nodes -> Seq(Shards)]
  BY DEF SlotInvariant, TypeOK
<1>2. \A n \in Nodes : \A i \in DOMAIN waiters[n] : waiters[n][i] \in Shards
  BY <1>1
<1>3. \A n : Waiting(n)' = Waiting(n)
  BY DEF Waiting
<1> QED
  BY <1>1, <1>2, <1>3 DEF SlotInvariant, QueuesMatch

\* Leaving a semaphore's queue, granted or cancelled.
LEMMA QueueLeft ==
  ASSUME SlotInvariant, NEW s \in Shards, pc[s] \in {"queued", "granted"},
         waiters' = [waiters EXCEPT ![node[s]] = Without(@, s)], UNCHANGED node,
         pc'[s] \notin {"queued", "granted"},
         \A t \in Shards \ {s} :
            pc'[t] # pc[t] => pc[t] = "queued" /\ pc'[t] = "granted"
  PROVE  waiters' \in [Nodes -> Seq(Shards)] /\ QueuesMatch'
<1> DEFINE n == node[s]
           queue == waiters[n]
           rest == Without(queue, s)
<1>1. n \in Nodes
  BY DEF SlotInvariant, Placed
<1>2. waiters \in [Nodes -> Seq(Shards)] /\ queue \in Seq(Shards)
  BY <1>1 DEF SlotInvariant, TypeOK
<1>3. \A i, h \in DOMAIN queue : queue[i] = queue[h] => i = h
  BY <1>1 DEF SlotInvariant, QueuesMatch
<1>4. \E i \in DOMAIN queue : queue[i] = s
  BY DEF SlotInvariant, QueuesMatch, Waiting
<1> HIDE DEF queue
<1>5. /\ rest \in Seq(Shards)
      /\ \A i, h \in DOMAIN rest : rest[i] = rest[h] => i = h
      /\ {rest[i] : i \in DOMAIN rest} = {queue[i] : i \in DOMAIN queue} \ {s}
  <2>1. NoRepeats(queue) /\ s \in Members(queue)
    BY <1>3, <1>4 DEF NoRepeats, Members
  <2>2. rest \in Seq(Shards) /\ NoRepeats(rest) /\ Members(rest) = Members(queue) \ {s}
    BY <1>2, <2>1, WithoutRemoves
  <2> HIDE DEF rest
  <2> QED
    BY <2>2 DEF NoRepeats, Members
<1>6. waiters' = [waiters EXCEPT ![n] = rest]
  BY DEF queue
<1> HIDE DEF rest
<1>7. waiters' \in [Nodes -> Seq(Shards)]
  BY <1>2, <1>5, <1>6
<1>8. waiters'[n] = rest /\ \A m \in Nodes \ {n} : waiters'[m] = waiters[m]
  BY <1>1, <1>2, <1>6
<1>9. ASSUME NEW m \in Nodes, NEW i \in DOMAIN waiters'[m]
      PROVE  /\ node'[waiters'[m][i]] = m
             /\ pc'[waiters'[m][i]] \in {"queued", "granted"}
             /\ \A h \in DOMAIN waiters'[m] : waiters'[m][i] = waiters'[m][h] => i = h
  <2> DEFINE t == waiters'[m][i]
  <2>1. t # s /\ t \in Shards /\ \E h \in DOMAIN waiters[m] : waiters[m][h] = t
    <3>1. CASE m = n
      <4>1. t \in {rest[h] : h \in DOMAIN rest}
        BY <1>8, <3>1, <1>9
      <4>2. t \in {queue[h] : h \in DOMAIN queue} \ {s}
        BY <4>1, <1>5
      <4> QED
        BY <4>2, <3>1, <1>2 DEF queue
    <3>2. CASE m # n
      <4>1. t = waiters[m][i] /\ i \in DOMAIN waiters[m]
        BY <1>8, <3>2, <1>9
      <4>2. node[t] = m
        BY <4>1 DEF SlotInvariant, QueuesMatch
      <4> QED
        BY <4>1, <4>2, <3>2, <1>2
    <3> QED
      BY <3>1, <3>2
  <2>2. node[t] = m /\ pc[t] \in {"queued", "granted"}
    BY <2>1 DEF SlotInvariant, QueuesMatch
  <2>3. \A h \in DOMAIN waiters'[m] : waiters'[m][i] = waiters'[m][h] => i = h
    <3>1. CASE m = n
      BY <1>5, <1>8, <3>1, <1>9
    <3>2. CASE m # n
      BY <1>8, <3>2, <1>9 DEF SlotInvariant, QueuesMatch
    <3> QED
      BY <3>1, <3>2
  <2> QED
    BY <2>1, <2>2, <2>3
<1>10. ASSUME NEW t \in Shards, pc'[t] \in {"queued", "granted"}
       PROVE  t \in Waiting(node[t])'
  <2>1. t # s /\ pc[t] \in {"queued", "granted"}
    BY <1>10
  <2>2. node[t] \in Nodes /\ \E i \in DOMAIN waiters[node[t]] : waiters[node[t]][i] = t
    BY <2>1 DEF SlotInvariant, QueuesMatch, Waiting, Placed
  <2>3. \E i \in DOMAIN waiters'[node[t]] : waiters'[node[t]][i] = t
    <3>1. CASE node[t] = n
      <4>1. t \in {queue[i] : i \in DOMAIN queue} \ {s}
        BY <2>1, <2>2, <3>1 DEF queue
      <4>2. t \in {rest[i] : i \in DOMAIN rest}
        BY <4>1, <1>5
      <4> QED
        BY <4>2, <1>8, <3>1
    <3>2. CASE node[t] # n
      BY <2>2, <1>8, <3>2
    <3> QED
      BY <3>1, <3>2
  <2> QED
    BY <2>3 DEF Waiting
<1>11. QueuesMatch'
  BY <1>9, <1>10 DEF QueuesMatch
<1> QED
  BY <1>7, <1>11

\* Joining a semaphore's queue.
LEMMA QueueJoined ==
  ASSUME SlotInvariant, NEW s \in Shards, pc[s] \notin {"none", "queued", "granted"},
         waiters' = [waiters EXCEPT ![node[s]] = Append(@, s)], UNCHANGED node,
         pc' = [pc EXCEPT ![s] = "queued"]
  PROVE  waiters' \in [Nodes -> Seq(Shards)] /\ QueuesMatch'
<1> DEFINE n == node[s]
           queue == waiters[n]
<1>1. n \in Nodes
  BY DEF SlotInvariant, Placed
<1>2. waiters \in [Nodes -> Seq(Shards)] /\ queue \in Seq(Shards)
  BY <1>1 DEF SlotInvariant, TypeOK
<1>3. pc \in [Shards -> PCs]
  BY DEF SlotInvariant, TypeOK
<1>4. waiters'[n] = Append(queue, s) /\ \A m \in Nodes \ {n} : waiters'[m] = waiters[m]
  BY <1>1, <1>2
<1>5. \A i \in DOMAIN queue : queue[i] # s
  BY <1>1 DEF SlotInvariant, QueuesMatch
<1>6. waiters' \in [Nodes -> Seq(Shards)]
  BY <1>1, <1>2
<1>7. ASSUME NEW m \in Nodes, NEW i \in DOMAIN waiters'[m]
      PROVE  /\ node'[waiters'[m][i]] = m
             /\ pc'[waiters'[m][i]] \in {"queued", "granted"}
             /\ \A h \in DOMAIN waiters'[m] : waiters'[m][i] = waiters'[m][h] => i = h
  <2>1. CASE m # n
    <3>1. waiters'[m] = waiters[m] /\ waiters[m] \in Seq(Shards)
      BY <1>2, <1>4, <2>1
    <3>2. waiters[m][i] \in Shards
      <4>1. i \in DOMAIN waiters[m]
        BY <3>1
      <4> QED
        BY <4>1, <3>1
    <3> QED
      BY <3>1, <3>2, <1>3, <1>7 DEF SlotInvariant, QueuesMatch
  <2>2. CASE m = n
    <3>1. \A h \in DOMAIN queue : node[queue[h]] = n /\ queue[h] \in Shards
                                  /\ pc[queue[h]] \in {"queued", "granted"}
      BY <1>1, <1>2 DEF SlotInvariant, QueuesMatch
    <3>2. \A h, g \in DOMAIN queue : queue[h] = queue[g] => h = g
      BY <1>1 DEF SlotInvariant, QueuesMatch
    <3>3. /\ DOMAIN Append(queue, s) = 1..(Len(queue) + 1)
          /\ DOMAIN queue = 1..Len(queue) /\ Len(queue) \in Nat
          /\ \A h \in 1..Len(queue) : Append(queue, s)[h] = queue[h]
          /\ Append(queue, s)[Len(queue) + 1] = s
      BY <1>2
    <3>4. waiters'[m] = Append(queue, s)
      BY <2>2, <1>4
    <3>5. CASE i = Len(queue) + 1
      <4>1. waiters'[m][i] = s
        BY <3>3, <3>4, <3>5
      <4>2. \A h \in DOMAIN waiters'[m] : waiters'[m][h] = s => h = i
        BY <3>3, <3>4, <3>5, <1>5
      <4> QED
        BY <4>1, <4>2, <2>2, <1>3
    <3>6. CASE i # Len(queue) + 1
      <4>1. i \in DOMAIN queue /\ waiters'[m][i] = queue[i]
        BY <3>3, <3>4, <3>6, <1>7
      <4>2. ASSUME NEW h \in DOMAIN waiters'[m], waiters'[m][i] = waiters'[m][h]
            PROVE  i = h
        <5>1. h # Len(queue) + 1
          BY <4>1, <4>2, <3>3, <3>4, <1>5
        <5>2. h \in DOMAIN queue /\ waiters'[m][h] = queue[h]
          BY <5>1, <3>3, <3>4
        <5> QED
          BY <4>1, <4>2, <5>2, <3>2
      <4> QED
        BY <4>1, <4>2, <3>1, <2>2, <1>3
    <3> QED
      BY <3>5, <3>6
  <2> QED
    BY <2>1, <2>2
<1>8. ASSUME NEW t \in Shards, pc'[t] \in {"queued", "granted"}
      PROVE  t \in Waiting(node[t])'
  <2>1. CASE t = s
    <3>1. Len(queue) + 1 \in DOMAIN waiters'[n] /\ waiters'[n][Len(queue) + 1] = s
      BY <1>2, <1>4
    <3> QED
      BY <3>1, <2>1 DEF Waiting
  <2>2. CASE t # s
    <3>1. pc[t] \in {"queued", "granted"}
      BY <1>3, <1>8, <2>2
    <3>2. PICK i \in DOMAIN waiters[node[t]] : waiters[node[t]][i] = t
      BY <3>1 DEF SlotInvariant, QueuesMatch, Waiting
    <3>3. node[t] \in Nodes
      BY <3>1 DEF SlotInvariant, Placed
    <3>4. i \in DOMAIN waiters'[node[t]] /\ waiters'[node[t]][i] = t
      BY <1>2, <1>4, <3>2, <3>3
    <3> QED
      BY <3>4 DEF Waiting
  <2> QED
    BY <2>1, <2>2
<1>9. QueuesMatch'
  BY <1>7, <1>8 DEF QueuesMatch
<1> QED
  BY <1>6, <1>9

-----------------------------------------------------------------------------
(* Every action keeps SlotInvariant: one lemma per action. *)

LEMMA InitSlots == Init => SlotInvariant
<1> SUFFICES ASSUME Init PROVE SlotInvariant
  OBVIOUS
<1>1. TypeOK
  <2>1. /\ permits \in [Nodes -> 0..PerNodeLimit] /\ inFlight \in [Nodes -> Nat]
        /\ fanout \in [Jobs -> 0..MaxFanout] /\ attempt \in [Shards -> 0..1]
    BY BoundsAssumption DEF Init
  <2>2. dispatched \in [Shards -> [Nodes -> Nat]]
    BY DEF Init
  <2>3. /\ terminal \in [Jobs -> Seq({"completed", "failed", "cancelled"})]
        /\ waiters \in [Nodes -> Seq(Shards)]
    BY DEF Init
  <2>4. /\ status \in [Jobs -> {"none", "queued", "running"} \cup Settled]
        /\ kind \in [Jobs -> {"search", "other"}] /\ pc \in [Shards -> PCs]
        /\ pinned \in [Jobs -> Nodes \cup {NoNode}]
        /\ node \in [Shards -> Nodes \cup {NoNode}]
        /\ model \in [Shards -> EmbeddingModels \cup {NoModel}]
    BY DEF Init, PCs
  <2>5. /\ usable \subseteq Nodes /\ assigned \in [Jobs -> SUBSET Nodes]
        /\ attempted \in [Shards -> SUBSET Nodes] /\ ended \in [Jobs -> BOOLEAN]
        /\ cancelled \in [Jobs -> BOOLEAN] /\ loop \in Shards \cup {NoShard}
        /\ closed \in BOOLEAN
    BY DEF Init
  <2> QED
    BY <2>1, <2>2, <2>3, <2>4, <2>5 DEF TypeOK
<1>2. LoopOwner
  BY NoShardIsNone DEF Init, LoopOwner, Running
<1>3. QueuesMatch
  BY DEF Init, QueuesMatch
<1>4. Placed
  BY ShardParts DEF Init, Placed
<1>5. SlotsAccounted
  <2>1. \A n \in Nodes : HoldersAt(n) = {} /\ PostingAt(n) = {}
    BY DEF Init, HoldersAt, PostingAt, Holders
  <2>2. Cardinality({}) = 0
    BY FS_EmptySet
  <2>3. ASSUME NEW n \in Nodes
        PROVE  /\ permits[n] + Cardinality(HoldersAt(n)) = PerNodeLimit
               /\ inFlight[n] = Cardinality(PostingAt(n))
    <3>1. permits[n] = PerNodeLimit /\ inFlight[n] = 0
      BY DEF Init
    <3>2. Cardinality(HoldersAt(n)) = 0 /\ Cardinality(PostingAt(n)) = 0
      BY <2>1, <2>2
    <3> QED
      BY <3>1, <3>2, BoundsAssumption
  <2> QED
    BY <2>3 DEF SlotsAccounted
<1> QED
  BY <1>1, <1>2, <1>3, <1>4, <1>5 DEF SlotInvariant

LEMMA SubmitSlots ==
  ASSUME SlotInvariant, NEW j \in Jobs, NEW k \in Kinds, NEW pin \in Pins \cup {NoNode},
         NEW count \in 1..MaxFanout, NEW reported \in Reports,
         Submit(j, k, pin, count, reported)
  PROVE  SlotInvariant'
<1>1. \A s \in Shards : JobOf(s) = j => pc[s] = "none"
  BY DEF Submit, SlotInvariant, Placed
<1>2. PICK selected \in (IF pin # NoNode THEN {[i \in 1..1 |-> pin]}
                                         ELSE TopRanked(count, reported)) :
        /\ assigned' = [assigned EXCEPT ![j] = {selected[i] : i \in 1..count}]
        /\ node' = [s \in Shards |-> IF JobOf(s) = j /\ s[2] <= count
                                     THEN selected[s[2]] ELSE node[s]]
  BY DEF Submit
<1>3. selected \in [1..count -> Nodes]
  <2>1. usable \subseteq Nodes
    BY DEF SlotInvariant, TypeOK
  <2>2. CASE pin # NoNode
    BY <2>2, <1>2, JobsAssumption DEF Submit
  <2>3. CASE pin = NoNode
    BY <2>1, <2>3, <1>2 DEF TopRanked
  <2> QED
    BY <2>2, <2>3
<1>4. \A s \in Shards : JobOf(s) = j /\ s[2] <= count => selected[s[2]] \in Nodes
  BY <1>3, ShardParts, BoundsAssumption
<1>5. node' \in [Shards -> Nodes \cup {NoNode}]
  BY <1>2, <1>4 DEF SlotInvariant, TypeOK
<1>6. \A s \in Shards : pc[s] # "none" => node'[s] = node[s]
  BY <1>1, <1>2
<1>7. waiters' \in [Nodes -> Seq(Shards)] /\ QueuesMatch'
  BY <1>6, QueuesKept DEF Submit, semVars
<1>8. TypeOK'
  <2>1. assigned' \in [Jobs -> SUBSET Nodes]
    BY <1>2, <1>3 DEF SlotInvariant, TypeOK
  <2>2. pinned' \in [Jobs -> Nodes \cup {NoNode}] /\ kind' \in [Jobs -> {"search", "other"}]
    BY JobsAssumption DEF Submit, SlotInvariant, TypeOK
  <2> QED
    BY <1>5, <1>7, <2>1, <2>2 DEF Submit, SlotInvariant, TypeOK, semVars, Settled
<1>9. LoopOwner'
  BY DEF Submit, SlotInvariant, LoopOwner
<1>10. Placed'
  <2>1. ASSUME NEW s \in Shards
        PROVE  /\ pc'[s] # "none" \/ s[2] <= fanout'[JobOf(s)] => node'[s] \in Nodes
               /\ status'[JobOf(s)] \in {"none", "queued"} => pc'[s] = "none"
    <3>1. JobOf(s) \in Jobs
      BY ShardParts
    <3>2. pc' = pc
      BY DEF Submit
    <3>3. CASE JobOf(s) = j
      <4>1. fanout'[j] = count
        BY DEF Submit, SlotInvariant, TypeOK
      <4> QED
        BY <3>2, <3>3, <4>1, <1>1, <1>2, <1>4
    <3>4. CASE JobOf(s) # j
      <4>1. /\ fanout'[JobOf(s)] = fanout[JobOf(s)] /\ node'[s] = node[s]
            /\ status'[JobOf(s)] = status[JobOf(s)]
        BY <3>1, <3>4, <1>2 DEF Submit, SlotInvariant, TypeOK
      <4> QED
        BY <3>2, <4>1 DEF SlotInvariant, Placed
    <3> QED
      BY <3>3, <3>4
  <2> QED
    BY <2>1 DEF Placed
<1>11. SlotsAccounted'
  BY <1>6, PermitsKept, FlightKept DEF Submit, semVars, SlotsAccounted, Holders
<1> QED
  BY <1>7, <1>8, <1>9, <1>10, <1>11 DEF SlotInvariant

LEMMA StartJobSlots ==
  ASSUME SlotInvariant, NEW j \in Jobs, StartJob(j)
  PROVE  SlotInvariant'
<1>1. \A s \in Shards : JobOf(s) = j => pc[s] = "none"
  BY DEF StartJob, MayStart, SlotInvariant, Placed
<1>2. \A s \in Shards : pc'[s] = IF s \in ShardsOf(j) THEN "created" ELSE pc[s]
  BY DEF StartJob
<1>3. \A s \in ShardsOf(j) : s \in Shards /\ pc[s] = "none"
  BY <1>1 DEF ShardsOf
<1>4. waiters' \in [Nodes -> Seq(Shards)] /\ QueuesMatch'
  BY <1>2, <1>3, QueuesKept DEF StartJob, semVars
<1>5. TypeOK'
  BY <1>4 DEF StartJob, SlotInvariant, TypeOK, semVars, Settled, PCs
<1>6. LoopOwner'
  BY <1>2, <1>3 DEF StartJob, SlotInvariant, LoopOwner, Running
<1>7. Placed'
  <2>1. ASSUME NEW s \in Shards
        PROVE  /\ pc'[s] # "none" \/ s[2] <= fanout'[JobOf(s)] => node'[s] \in Nodes
               /\ status'[JobOf(s)] \in {"none", "queued"} => pc'[s] = "none"
    <3>1. fanout' = fanout /\ node' = node /\ JobOf(s) \in Jobs
      BY ShardParts DEF StartJob
    <3>2. CASE s \in ShardsOf(j)
      <4>1. s[2] <= fanout[JobOf(s)] /\ JobOf(s) = j
        BY <3>2 DEF ShardsOf
      <4>2. status'[j] = "running"
        BY DEF StartJob, SlotInvariant, TypeOK
      <4> QED
        BY <3>1, <4>1, <4>2 DEF SlotInvariant, Placed
    <3>3. CASE s \notin ShardsOf(j)
      <4>1. pc'[s] = pc[s]
        BY <3>3, <1>2
      <4>2. status'[JobOf(s)] \in {"none", "queued"} =>
               status[JobOf(s)] \in {"none", "queued"}
        BY <3>1 DEF StartJob, SlotInvariant, TypeOK
      <4> QED
        BY <3>1, <4>1, <4>2 DEF SlotInvariant, Placed
    <3> QED
      BY <3>2, <3>3
  <2> QED
    BY <2>1 DEF Placed
<1>8. SlotsAccounted'
  BY <1>2, <1>3, PermitsKept, FlightKept DEF StartJob, semVars, SlotsAccounted, Holders
<1> QED
  BY <1>4, <1>5, <1>6, <1>7, <1>8 DEF SlotInvariant

\* The steps of a job's own task after its start, of close() and of the registry
\* touch no shard.
LEMMA NoShardMoves ==
  ASSUME SlotInvariant, TypeOK', UNCHANGED <<shardVars, inFlight, semVars, loop, fanout>>,
         \A j \in Jobs : status'[j] # status[j] => status'[j] \notin {"none", "queued"}
  PROVE  SlotInvariant'
<1>1. UNCHANGED <<pc, node, permits, waiters, inFlight, loop, fanout>>
  BY DEF shardVars, semVars
<1>2. QueuesMatch'
  BY <1>1, QueuesKept
<1>3. LoopOwner'
  BY <1>1 DEF SlotInvariant, LoopOwner
<1>4. Placed'
  BY <1>1, ShardParts DEF SlotInvariant, Placed
<1>5. SlotsAccounted'
  BY <1>1, PermitsKept, FlightKept DEF SlotsAccounted
<1> QED
  BY <1>2, <1>3, <1>4, <1>5 DEF SlotInvariant

LEMMA QuietSteps ==
  ASSUME SlotInvariant,
         \/ \E j \in Jobs : FinishJob(j) \/ CancelUnstarted(j) \/ CancelJob(j)
         \/ Close
         \/ \E n \in Nodes : NodeUsable(n) \/ NodeLost(n)
  PROVE  SlotInvariant'
<1> USE DEF SlotInvariant, TypeOK, jobVars, shardVars, semVars, Settled
<1>1. ASSUME NEW j \in Jobs, FinishJob(j) PROVE SlotInvariant'
  <2>1. terminal' \in [Jobs -> Seq({"completed", "failed", "cancelled"})]
    BY <1>1 DEF FinishJob
  <2>2. TypeOK'
    BY <1>1, <2>1 DEF FinishJob
  <2>3. \A i \in Jobs : status'[i] # status[i] => status'[i] \notin {"none", "queued"}
    BY <1>1 DEF FinishJob
  <2> QED
    BY <1>1, <2>2, <2>3, NoShardMoves DEF FinishJob
<1>2. ASSUME NEW j \in Jobs, CancelUnstarted(j) PROVE SlotInvariant'
  <2>1. TypeOK'
    BY <1>2 DEF CancelUnstarted
  <2> QED
    BY <1>2, <2>1, NoShardMoves DEF CancelUnstarted
<1>3. ASSUME NEW j \in Jobs, CancelJob(j) PROVE SlotInvariant'
  <2>1. terminal' \in [Jobs -> Seq({"completed", "failed", "cancelled"})]
    BY <1>3 DEF CancelJob
  <2>2. TypeOK'
    BY <1>3, <2>1 DEF CancelJob
  <2>3. \A i \in Jobs : status'[i] # status[i] => status'[i] \notin {"none", "queued"}
    BY <1>3 DEF CancelJob
  <2> QED
    BY <1>3, <2>2, <2>3, NoShardMoves DEF CancelJob
<1>4. CASE Close
  <2>1. TypeOK'
    BY <1>4 DEF Close
  <2> QED
    BY <1>4, <2>1, NoShardMoves DEF Close
<1>5. ASSUME NEW n \in Nodes, NodeUsable(n) \/ NodeLost(n) PROVE SlotInvariant'
  <2>1. TypeOK'
    BY <1>5 DEF NodeUsable, NodeLost
  <2> QED
    BY <1>5, <2>1, NoShardMoves DEF NodeUsable, NodeLost
<1> QED
  BY <1>1, <1>2, <1>3, <1>4, <1>5

\* Placed only looks at a shard's node and at whether it has a task.
LEMMA PlacedKept ==
  ASSUME SlotInvariant, NEW s \in Shards, pc[s] # "none", UNCHANGED <<status, fanout>>,
         node'[s] \in Nodes,
         \A t \in Shards \ {s} : (pc'[t] = "none" <=> pc[t] = "none") /\ node'[t] = node[t]
  PROVE  Placed'
  BY ShardParts DEF SlotInvariant, Placed

LEMMA AcquireSlots ==
  ASSUME SlotInvariant, NEW s \in Shards, Acquire(s)
  PROVE  SlotInvariant'
<1> DEFINE n == node[s]
<1>1. pc[s] \in {"created", "acquire"} /\ pc \in [Shards -> PCs] /\ UNCHANGED node
  BY DEF Acquire, SlotInvariant, TypeOK
<1>2. n \in Nodes
  BY <1>1 DEF SlotInvariant, Placed
<1>3. \A t \in Shards \ {s} : loop # t
  BY <1>1, NoShardIsNone DEF Acquire, Idle
<1>4. CASE Locked(n)
  <2>1. /\ waiters' = [waiters EXCEPT ![n] = Append(@, s)]
        /\ pc' = [pc EXCEPT ![s] = "queued"] /\ loop' = NoShard /\ UNCHANGED permits
    BY <1>4 DEF Acquire
  <2>2. waiters' \in [Nodes -> Seq(Shards)] /\ QueuesMatch'
    BY <1>1, <2>1, QueueJoined
  <2>3. TypeOK'
    BY <1>1, <2>1, <2>2 DEF Acquire, SlotInvariant, TypeOK, PCs, jobVars
  <2>4. LoopOwner'
    BY <1>1, <1>3, <2>1, NoShardIsNone DEF SlotInvariant, LoopOwner, Running
  <2>5. Placed'
    BY <1>1, <1>2, <2>1, PlacedKept DEF Acquire, jobVars
  <2>6. SlotsAccounted'
    BY <1>1, <2>1, PermitsKept, FlightKept DEF Acquire, SlotsAccounted, Holders
  <2> QED
    BY <2>2, <2>3, <2>4, <2>5, <2>6 DEF SlotInvariant
<1>5. CASE ~Locked(n)
  <2>1. /\ permits' = [permits EXCEPT ![n] = @ - 1] /\ UNCHANGED waiters
        /\ pc' = [pc EXCEPT ![s] = "holding"] /\ loop' = s
    BY <1>5 DEF Acquire
  <2>2. permits \in [Nodes -> 0..PerNodeLimit] /\ permits[n] # 0
    BY <1>5 DEF Locked, SlotInvariant, TypeOK
  <2>3. permits' \in [Nodes -> 0..PerNodeLimit]
    BY <1>2, <2>1, <2>2, BoundsAssumption
  <2>4. waiters' \in [Nodes -> Seq(Shards)] /\ QueuesMatch'
    BY <1>1, <2>1, QueuesKept
  <2>5. TypeOK'
    BY <1>1, <2>1, <2>3, <2>4 DEF Acquire, SlotInvariant, TypeOK, PCs, jobVars
  <2>6. LoopOwner'
    BY <1>1, <1>3, <2>1 DEF SlotInvariant, LoopOwner, Running
  <2>7. Placed'
    BY <1>1, <1>2, <2>1, PlacedKept DEF Acquire, jobVars
  <2>8. \A m \in Nodes : permits'[m] + Cardinality(HoldersAt(m)') = PerNodeLimit
    <3>1. ASSUME NEW m \in Nodes, m # n
          PROVE  permits'[m] + Cardinality(HoldersAt(m)') = PerNodeLimit
      <4>1. HoldersAt(m)' = HoldersAt(m)
        BY <3>1, <1>1, <2>1 DEF HoldersAt
      <4>2. permits'[m] = permits[m]
        BY <3>1, <2>1, <2>2
      <4> QED
        BY <4>1, <4>2 DEF SlotInvariant, SlotsAccounted
    <3>2. ASSUME NEW m \in Nodes, m = n
          PROVE  permits'[m] + Cardinality(HoldersAt(m)') = PerNodeLimit
      <4>1. HoldersAt(m)' = HoldersAt(m) \cup {s}
        BY <3>2, <1>1, <2>1 DEF HoldersAt, Holders
      <4>2. s \notin HoldersAt(m)
        BY <3>2, <1>1 DEF HoldersAt, Holders
      <4>3. Cardinality(HoldersAt(m)') = Cardinality(HoldersAt(m)) + 1
        BY <4>1, <4>2, HoldersFinite, FS_AddElement
      <4>4. permits'[m] = permits[m] - 1
        BY <3>2, <1>2, <2>1, <2>2
      <4>5. permits[m] + Cardinality(HoldersAt(m)) = PerNodeLimit
        BY <3>2, <1>2 DEF SlotInvariant, SlotsAccounted
      <4>6. permits[m] \in Nat /\ Cardinality(HoldersAt(m)) \in Nat
        BY <3>2, <1>2, <2>2, HoldersFinite, BoundsAssumption
      <4> QED
        BY <3>2, <4>3, <4>4, <4>5, <4>6
    <3> QED
      BY <3>1, <3>2
  <2>9. \A m \in Nodes : inFlight'[m] = Cardinality(PostingAt(m)')
    BY <1>1, <2>1, FlightKept DEF Acquire
  <2> QED
    BY <2>4, <2>5, <2>6, <2>7, <2>8, <2>9 DEF SlotInvariant, SlotsAccounted
<1> QED
  BY <1>4, <1>5

LEMMA GrantedSlots ==
  ASSUME SlotInvariant, NEW s \in Shards, Granted(s)
  PROVE  SlotInvariant'
<1> DEFINE n == node[s]
<1>1. /\ pc[s] = "granted" /\ pc \in [Shards -> PCs] /\ UNCHANGED node
      /\ loop = NoShard /\ loop' = s
  BY DEF Granted, SlotInvariant, TypeOK, Idle
<1>2. n \in Nodes
  BY <1>1 DEF SlotInvariant, Placed
<1>3. /\ WakeUp(n, s, "holding", 0, permits[n] + 0)
      /\ waiters' = [waiters EXCEPT ![n] = Without(@, s)]
  BY DEF Granted, LeaveQueue
<1>4. permits[n] + 0 \in Nat
  BY <1>2, BoundsAssumption DEF SlotInvariant, TypeOK
<1>5. /\ permits' \in [Nodes -> 0..PerNodeLimit]
      /\ pc' \in [Shards -> PCs]
      /\ \A m \in Nodes : permits'[m] + Cardinality(HoldersAt(m)') = PerNodeLimit
      /\ pc'[s] = "holding"
      /\ \A t \in Shards \ {s} :
            pc'[t] # pc[t] => pc[t] = "queued" /\ pc'[t] = "granted"
  BY <1>1, <1>2, <1>3, <1>4, WakeUpKeepsPermits DEF Holders, PCs
<1>6. waiters' \in [Nodes -> Seq(Shards)] /\ QueuesMatch'
  BY <1>1, <1>3, <1>5, QueueLeft
<1>7. TypeOK'
  BY <1>1, <1>5, <1>6 DEF Granted, SlotInvariant, TypeOK, jobVars
<1>8. LoopOwner'
  BY <1>1, <1>5, NoShardIsNone DEF SlotInvariant, LoopOwner, Running
<1>9. Placed'
  BY <1>1, <1>2, <1>5, PlacedKept DEF Granted, jobVars
<1>10. \A m \in Nodes : inFlight'[m] = Cardinality(PostingAt(m)')
  BY <1>1, <1>5, FlightKept DEF Granted
<1> QED
  BY <1>5, <1>6, <1>7, <1>8, <1>9, <1>10 DEF SlotInvariant, SlotsAccounted

LEMMA DispatchSlots ==
  ASSUME SlotInvariant, NEW s \in Shards, Dispatch(s)
  PROVE  SlotInvariant'
<1> DEFINE n == node[s]
<1>1. /\ pc[s] = "holding" /\ pc \in [Shards -> PCs] /\ loop = s
      /\ UNCHANGED <<node, permits, waiters>>
      /\ pc' = [pc EXCEPT ![s] = "posting"] /\ loop' = NoShard
      /\ inFlight' = [inFlight EXCEPT ![n] = @ + 1]
  BY DEF Dispatch, SlotInvariant, TypeOK, semVars
<1>2. n \in Nodes /\ inFlight \in [Nodes -> Nat]
  BY <1>1 DEF SlotInvariant, Placed, TypeOK
<1>3. waiters' \in [Nodes -> Seq(Shards)] /\ QueuesMatch'
  BY <1>1, QueuesKept
<1>4. /\ permits' \in [Nodes -> 0..PerNodeLimit]
      /\ \A m \in Nodes : permits'[m] + Cardinality(HoldersAt(m)') = PerNodeLimit
  BY <1>1, PermitsKept DEF Holders
<1>5. TypeOK'
  <2>1. dispatched' \in [Shards -> [Nodes -> Nat]]
    BY <1>2 DEF Dispatch, SlotInvariant, TypeOK
  <2> QED
    BY <1>1, <1>2, <1>3, <1>4, <2>1 DEF Dispatch, SlotInvariant, TypeOK, jobVars, PCs
<1>6. LoopOwner'
  BY <1>1, NoShardIsNone DEF SlotInvariant, LoopOwner, Running
<1>7. Placed'
  BY <1>1, <1>2, PlacedKept DEF Dispatch, jobVars
<1>8. ASSUME NEW m \in Nodes
      PROVE  inFlight'[m] = Cardinality(PostingAt(m)')
  <2>0. inFlight[m] = Cardinality(PostingAt(m))
    BY DEF SlotInvariant, SlotsAccounted
  <2>1. CASE m # n
    <3>1. PostingAt(m)' = PostingAt(m)
      BY <1>1, <2>1 DEF PostingAt
    <3> QED
      BY <1>1, <1>2, <2>0, <2>1, <3>1
  <2>2. CASE m = n
    <3>1. PostingAt(m)' = PostingAt(m) \cup {s} /\ s \notin PostingAt(m)
      BY <1>1, <2>2 DEF PostingAt
    <3>2. Cardinality(PostingAt(m)') = Cardinality(PostingAt(m)) + 1
      BY <3>1, HoldersFinite, FS_AddElement
    <3> QED
      BY <1>1, <1>2, <2>0, <2>2, <3>2
  <2> QED
    BY <2>1, <2>2
<1> QED
  BY <1>3, <1>4, <1>5, <1>6, <1>7, <1>8 DEF SlotInvariant, SlotsAccounted

\* Giving a permit back and going on to "to", which holds none.
LEMMA ReleaseSlots ==
  ASSUME SlotInvariant, NEW s \in Shards, pc[s] \in {"holding", "posting"},
         NEW to \in {"acquire", "reassign", "ok", "failed", "cancelled"},
         Release(node[s], s, to), UNCHANGED <<node, status, fanout, waiters>>
  PROVE  /\ permits' \in [Nodes -> 0..PerNodeLimit]
         /\ pc' \in [Shards -> PCs] /\ pc'[s] = to
         /\ \A m \in Nodes : permits'[m] + Cardinality(HoldersAt(m)') = PerNodeLimit
         /\ \A t \in Shards \ {s} :
               pc'[t] # pc[t] => pc[t] = "queued" /\ pc'[t] = "granted"
         /\ waiters' \in [Nodes -> Seq(Shards)]
         /\ QueuesMatch' /\ Placed'
<1>1. node[s] \in Nodes /\ pc \in [Shards -> PCs]
  BY DEF SlotInvariant, Placed, TypeOK
<1>2. /\ permits' \in [Nodes -> 0..PerNodeLimit]
      /\ pc' \in [Shards -> PCs] /\ pc'[s] = to
      /\ \A m \in Nodes : permits'[m] + Cardinality(HoldersAt(m)') = PerNodeLimit
      /\ \A t \in Shards \ {s} :
            pc'[t] # pc[t] => pc[t] = "queued" /\ pc'[t] = "granted"
  BY <1>1, WakeUpKeepsPermits DEF Release, Holders, PCs
<1>3. waiters' \in [Nodes -> Seq(Shards)] /\ QueuesMatch'
  BY <1>2, QueuesKept
<1>4. Placed'
  BY <1>1, <1>2, PlacedKept
<1> QED
  BY <1>2, <1>3, <1>4

LEMMA AttemptFailedSlots ==
  ASSUME SlotInvariant, NEW s \in Shards, Unavailable(s) \/ RequestFailed(s)
  PROVE  SlotInvariant'
<1> DEFINE to == IF attempt[s] = 0 THEN "acquire" ELSE "reassign"
<1>1. /\ AttemptFailed(s) /\ pc \in [Shards -> PCs]
      /\ UNCHANGED <<usable, jobVars, node, model, dispatched, waiters, closed>>
      /\ \/ pc[s] = "holding" /\ loop = s /\ UNCHANGED inFlight
         \/ pc[s] = "posting" /\ loop = NoShard /\ EndFlight(node[s])
  BY DEF Unavailable, RequestFailed, SlotInvariant, TypeOK, Idle
<1>2. Release(node[s], s, to) /\ loop' = s
  BY <1>1 DEF AttemptFailed
<1>3. to \in {"acquire", "reassign"}
  OBVIOUS
<1> HIDE DEF to
<1>4. /\ permits' \in [Nodes -> 0..PerNodeLimit]
      /\ pc' \in [Shards -> PCs] /\ pc'[s] = to
      /\ \A m \in Nodes : permits'[m] + Cardinality(HoldersAt(m)') = PerNodeLimit
      /\ \A t \in Shards \ {s} :
            pc'[t] # pc[t] => pc[t] = "queued" /\ pc'[t] = "granted"
      /\ waiters' \in [Nodes -> Seq(Shards)]
      /\ QueuesMatch' /\ Placed'
  BY <1>1, <1>2, <1>3, ReleaseSlots DEF jobVars
<1>5. /\ inFlight' \in [Nodes -> Nat]
      /\ \A m \in Nodes : inFlight'[m] = Cardinality(PostingAt(m)')
  <2>1. pc'[s] # "posting"
    BY <1>3, <1>4
  <2>2. \A t \in Shards \ {s} : pc'[t] = "posting" <=> pc[t] = "posting"
    BY <1>4
  <2>3. CASE pc[s] = "posting"
    BY <1>1, <2>1, <2>2, <2>3, FlightEnds
  <2>4. CASE pc[s] # "posting"
    BY <1>1, <2>1, <2>2, <2>4, FlightKept
  <2> QED
    BY <2>3, <2>4
<1>6. TypeOK'
  <2>1. node[s] \in Nodes
    BY <1>1 DEF SlotInvariant, Placed
  <2>2. attempt' \in [Shards -> 0..1] /\ attempted' \in [Shards -> SUBSET Nodes]
    BY <1>1, <2>1 DEF AttemptFailed, GivenUp, SlotInvariant, TypeOK
  <2> QED
    BY <1>1, <1>2, <1>4, <1>5, <2>2 DEF SlotInvariant, TypeOK, jobVars
<1>7. LoopOwner'
  BY <1>1, <1>2, <1>3, <1>4, NoShardIsNone DEF SlotInvariant, LoopOwner, Running
<1> QED
  BY <1>4, <1>5, <1>6, <1>7 DEF SlotInvariant, SlotsAccounted

LEMMA AnsweredSlots ==
  ASSUME SlotInvariant, NEW s \in Shards, NEW o \in {"ok", "failed"},
         NEW m \in EmbeddingModels \cup {NoModel}, RequestAnswered(s, o, m)
  PROVE  SlotInvariant'
<1>1. /\ pc \in [Shards -> PCs] /\ pc[s] = "posting" /\ loop = NoShard
      /\ UNCHANGED <<usable, jobVars, node, attempt, attempted, dispatched,
                     waiters, loop, closed>>
      /\ EndFlight(node[s]) /\ Release(node[s], s, o)
  BY DEF RequestAnswered, SlotInvariant, TypeOK, Idle
<1>2. /\ permits' \in [Nodes -> 0..PerNodeLimit]
      /\ pc' \in [Shards -> PCs] /\ pc'[s] = o
      /\ \A n \in Nodes : permits'[n] + Cardinality(HoldersAt(n)') = PerNodeLimit
      /\ \A t \in Shards \ {s} :
            pc'[t] # pc[t] => pc[t] = "queued" /\ pc'[t] = "granted"
      /\ waiters' \in [Nodes -> Seq(Shards)]
      /\ QueuesMatch' /\ Placed'
  BY <1>1, ReleaseSlots DEF jobVars
<1>3. /\ inFlight' \in [Nodes -> Nat]
      /\ \A n \in Nodes : inFlight'[n] = Cardinality(PostingAt(n)')
  BY <1>1, <1>2, FlightEnds
<1>4. TypeOK'
  <2>1. model' \in [Shards -> EmbeddingModels \cup {NoModel}]
    BY DEF RequestAnswered, SlotInvariant, TypeOK
  <2> QED
    BY <1>1, <1>2, <1>3, <2>1 DEF SlotInvariant, TypeOK, jobVars
<1>5. LoopOwner'
  BY <1>1, <1>2, NoShardIsNone DEF SlotInvariant, LoopOwner, Running
<1> QED
  BY <1>2, <1>3, <1>4, <1>5 DEF SlotInvariant, SlotsAccounted

LEMMA ReassignSlots ==
  ASSUME SlotInvariant, NEW s \in Shards,
         (\E reported \in Reports : Reassign(s, reported)) \/ Exhausted(s)
  PROVE  SlotInvariant'
<1>1. /\ pc \in [Shards -> PCs] /\ pc[s] = "reassign" /\ loop = s
      /\ UNCHANGED <<usable, status, kind, pinned, fanout, ended, cancelled, terminal,
                     attempted, model, dispatched, inFlight, permits, waiters, closed>>
  BY DEF Reassign, Exhausted, SlotInvariant, TypeOK, jobVars, semVars
<1>2. /\ node' \in [Shards -> Nodes \cup {NoNode}] /\ node'[s] \in Nodes
      /\ \A t \in Shards \ {s} : node'[t] = node[t]
      /\ assigned' \in [Jobs -> SUBSET Nodes] /\ attempt' \in [Shards -> 0..1]
      /\ \/ pc' = [pc EXCEPT ![s] = "acquire"] /\ UNCHANGED loop
         \/ pc' = [pc EXCEPT ![s] = "failed"] /\ loop' = NoShard
  <2>1. CASE \E reported \in Reports : Reassign(s, reported)
    BY <2>1, ShardParts DEF Reassign, Assign, SlotInvariant, TypeOK
  <2>2. CASE Exhausted(s)
    BY <1>1, <2>2 DEF Exhausted, SlotInvariant, TypeOK, Placed, jobVars
  <2> QED
    BY <2>1, <2>2
<1>3. waiters' \in [Nodes -> Seq(Shards)] /\ QueuesMatch'
  BY <1>1, <1>2, QueuesKept
<1>4. TypeOK'
  BY <1>1, <1>2, <1>3 DEF SlotInvariant, TypeOK, PCs
<1>5. LoopOwner'
  BY <1>1, <1>2, NoShardIsNone DEF SlotInvariant, LoopOwner, Running
<1>6. Placed'
  BY <1>1, <1>2, PlacedKept
<1>7. SlotsAccounted'
  BY <1>1, <1>2, PermitsKept, FlightKept DEF SlotsAccounted, Holders
<1> QED
  BY <1>3, <1>4, <1>5, <1>6, <1>7 DEF SlotInvariant

LEMMA CancelShardSlots ==
  ASSUME SlotInvariant, NEW s \in Shards, CancelShard(s)
  PROVE  SlotInvariant'
<1> DEFINE n == node[s]
<1>1. /\ pc \in [Shards -> PCs] /\ loop = NoShard /\ cancelled[JobOf(s)]
      /\ UNCHANGED <<usable, jobVars, node, attempt, attempted, model, dispatched,
                     loop, closed>>
      /\ pc[s] \in {"created", "queued", "granted", "posting"}
  BY DEF CancelShard, SlotInvariant, TypeOK, Idle
<1>2. n \in Nodes /\ permits[n] \in Nat
  BY <1>1, BoundsAssumption DEF SlotInvariant, Placed, TypeOK
<1>3. /\ permits' \in [Nodes -> 0..PerNodeLimit]
      /\ pc' \in [Shards -> PCs] /\ pc'[s] = "cancelled"
      /\ \A m \in Nodes : permits'[m] + Cardinality(HoldersAt(m)') = PerNodeLimit
      /\ \A t \in Shards \ {s} :
            pc'[t] # pc[t] => pc[t] = "queued" /\ pc'[t] = "granted"
      /\ waiters' \in [Nodes -> Seq(Shards)] /\ QueuesMatch'
      /\ inFlight' \in [Nodes -> Nat]
      /\ \A m \in Nodes : inFlight'[m] = Cardinality(PostingAt(m)')
  <2>1. CASE pc[s] = "created"
    <3>1. pc' = [pc EXCEPT ![s] = "cancelled"] /\ UNCHANGED <<permits, waiters, inFlight>>
      BY <2>1 DEF CancelShard, semVars
    <3> QED
      BY <1>1, <2>1, <3>1, PermitsKept, FlightKept, QueuesKept DEF Holders, PCs
  <2>2. CASE pc[s] \in {"queued", "granted"}
    <3> DEFINE freed == IF pc[s] = "granted" THEN 1 ELSE 0
    <3>1. LeaveQueue(n, s, "cancelled", freed) /\ UNCHANGED inFlight
      BY <2>2 DEF CancelShard
    <3>2. /\ WakeUp(n, s, "cancelled", freed, permits[n] + freed)
          /\ waiters' = [waiters EXCEPT ![n] = Without(@, s)]
      BY <3>1 DEF LeaveQueue
    <3>3. permits[n] + freed \in Nat /\ freed \in {0, 1}
      BY <1>2
    <3>4. freed = (IF pc[s] \in Holders THEN 1 ELSE 0)
                     - (IF "cancelled" \in Holders THEN 1 ELSE 0)
      BY <2>2 DEF Holders
    <3> HIDE DEF freed
    <3>5. /\ permits' \in [Nodes -> 0..PerNodeLimit]
          /\ pc' \in [Shards -> PCs] /\ pc'[s] = "cancelled"
          /\ \A m \in Nodes : permits'[m] + Cardinality(HoldersAt(m)') = PerNodeLimit
          /\ \A t \in Shards \ {s} :
                pc'[t] # pc[t] => pc[t] = "queued" /\ pc'[t] = "granted"
      BY <1>1, <1>2, <3>2, <3>3, <3>4, WakeUpKeepsPermits DEF PCs
    <3>6. waiters' \in [Nodes -> Seq(Shards)] /\ QueuesMatch'
      BY <1>1, <2>2, <3>2, <3>5, QueueLeft
    <3>7. /\ inFlight' \in [Nodes -> Nat]
          /\ \A m \in Nodes : inFlight'[m] = Cardinality(PostingAt(m)')
      BY <1>1, <2>2, <3>1, <3>5, FlightKept
    <3> QED
      BY <3>5, <3>6, <3>7
  <2>3. CASE pc[s] = "posting"
    <3>1. Release(n, s, "cancelled") /\ EndFlight(n) /\ UNCHANGED waiters
      BY <2>3 DEF CancelShard
    <3>2. /\ permits' \in [Nodes -> 0..PerNodeLimit]
          /\ pc' \in [Shards -> PCs] /\ pc'[s] = "cancelled"
          /\ \A m \in Nodes : permits'[m] + Cardinality(HoldersAt(m)') = PerNodeLimit
          /\ \A t \in Shards \ {s} :
                pc'[t] # pc[t] => pc[t] = "queued" /\ pc'[t] = "granted"
          /\ waiters' \in [Nodes -> Seq(Shards)] /\ QueuesMatch'
      BY <1>1, <2>3, <3>1, ReleaseSlots DEF jobVars
    <3>3. /\ inFlight' \in [Nodes -> Nat]
          /\ \A m \in Nodes : inFlight'[m] = Cardinality(PostingAt(m)')
      BY <1>1, <2>3, <3>1, <3>2, FlightEnds
    <3> QED
      BY <3>2, <3>3
  <2> QED
    BY <1>1, <2>1, <2>2, <2>3
<1>4. TypeOK'
  BY <1>1, <1>3 DEF SlotInvariant, TypeOK, jobVars
<1>5. LoopOwner'
  BY <1>1, <1>3, NoShardIsNone DEF SlotInvariant, LoopOwner, Running
<1>6. Placed'
  BY <1>1, <1>2, <1>3, PlacedKept DEF jobVars
<1> QED
  BY <1>3, <1>4, <1>5, <1>6 DEF SlotInvariant, SlotsAccounted

LEMMA StutterSlots == SlotInvariant /\ UNCHANGED vars => SlotInvariant'
<1> SUFFICES ASSUME SlotInvariant, UNCHANGED vars PROVE SlotInvariant'
  OBVIOUS
<1>1. TypeOK'
  BY DEF SlotInvariant, TypeOK, vars, jobVars, shardVars, semVars
<1> QED
  BY <1>1, NoShardMoves DEF vars, jobVars

LEMMA NextSlots == SlotInvariant /\ [Next]_vars => SlotInvariant'
<1> SUFFICES ASSUME SlotInvariant, [Next]_vars PROVE SlotInvariant'
  OBVIOUS
<1>1. ASSUME NEW j \in Jobs, NEW k \in Kinds, NEW pin \in Pins \cup {NoNode},
             NEW count \in 1..MaxFanout, NEW reported \in Reports,
             Submit(j, k, pin, count, reported)
      PROVE  SlotInvariant'
  BY <1>1, SubmitSlots
<1>2. ASSUME NEW j \in Jobs, JobStep(j) PROVE SlotInvariant'
  BY <1>2, StartJobSlots, QuietSteps DEF JobStep
<1>3. ASSUME NEW s \in Shards, ShardStep(s) PROVE SlotInvariant'
  BY <1>3, AcquireSlots, GrantedSlots, DispatchSlots, AttemptFailedSlots, AnsweredSlots,
     ReassignSlots, CancelShardSlots DEF ShardStep, RequestEnds
<1>4. CASE Close \/ \E n \in Nodes : NodeUsable(n) \/ NodeLost(n)
  BY <1>4, QuietSteps
<1> QED
  BY <1>1, <1>2, <1>3, <1>4, StutterSlots DEF Next

\* Every permit and every in-flight slot has its owner, a semaphore's queue holds
\* exactly the shards that wait for it, and the event loop is held by the one
\* shard that runs, through any failures and cancellations (_request, close).
THEOREM SlotsAreOwned == Spec => []SlotInvariant
BY InitSlots, NextSlots, PTL DEF Spec

\* Type correctness of the job queue, for any pool, any jobs and any limit.
THEOREM TypeCorrect == Spec => []TypeOK
<1>1. SlotInvariant => TypeOK
  BY DEF SlotInvariant
<1> QED
  BY <1>1, SlotsAreOwned, PTL

\* No interleaving of answers, failures, retries, reassignments, registry
\* changes and cancellations loses or duplicates a permit or an in-flight slot.
THEOREM SlotsAreAccounted == Spec => []SlotsAccounted
<1>1. SlotInvariant => SlotsAccounted
  BY DEF SlotInvariant
<1> QED
  BY <1>1, SlotsAreOwned, PTL

-----------------------------------------------------------------------------
(* What callers are told *)

\* A step of shard s: no job's record changes but for the nodes it names, and
\* other shards at most get a permit.
ShardMoves(s) ==
    /\ UNCHANGED <<status, kind, fanout, ended, cancelled, terminal, closed>>
    /\ pc[s] \notin Over \cup {"none"} /\ pc'[s] # "none"
    /\ \A t \in Shards \ {s} :
          /\ pc'[t] # pc[t] => pc[t] = "queued" /\ pc'[t] = "granted"
          /\ node'[t] = node[t] /\ attempt'[t] = attempt[t]
          /\ attempted'[t] = attempted[t] /\ model'[t] = model[t]
          /\ dispatched'[t] = dispatched[t]
    /\ \A j \in Jobs : assigned[j] \subseteq assigned'[j]

\* What the step does to the shard's own count of requests.
SameTry(s) ==
    /\ \/ pc[s] \in {"created"} \cup (Trying \ {"posting"}) /\ pc'[s] \in Trying \ {"posting"}
       \/ pc[s] \in {"created", "reassign"} \cup Trying /\ pc'[s] \in Over
    /\ node'[s] = node[s] /\ attempt'[s] = attempt[s]
    /\ attempted'[s] = attempted[s] /\ dispatched'[s] = dispatched[s]
Sends(s) ==
    /\ pc[s] = "holding" /\ pc'[s] = "posting"
    /\ node'[s] = node[s] /\ attempt'[s] = attempt[s] /\ attempted'[s] = attempted[s]
    /\ dispatched'[s] = [dispatched[s] EXCEPT ![node[s]] = @ + 1]
TriesAgain(s) ==
    /\ pc[s] \in {"holding", "posting"} /\ pc'[s] = "acquire"
    /\ attempt[s] = 0 /\ attempt'[s] = 1
    /\ node'[s] = node[s] /\ attempted'[s] = attempted[s] /\ dispatched'[s] = dispatched[s]
GivesUp(s) ==
    /\ pc[s] \in {"holding", "posting"} /\ pc'[s] = "reassign"
    /\ attempt[s] = 1 /\ attempt'[s] = 1
    /\ attempted'[s] = attempted[s] \cup {node[s]}
    /\ node'[s] = node[s] /\ dispatched'[s] = dispatched[s]
MovesOn(s) ==
    /\ pc[s] = "reassign" /\ pc'[s] = "acquire" /\ attempt'[s] = 0
    /\ node'[s] \in Nodes \ attempted[s] /\ node'[s] \in assigned'[JobOf(s)]
    /\ attempted'[s] = attempted[s] /\ dispatched'[s] = dispatched[s]
Tries(s) == SameTry(s) \/ Sends(s) \/ TriesAgain(s) \/ GivesUp(s) \/ MovesOn(s)

\* Only the waker itself and the shards it wakes change their control state.
LEMMA WakeUpShape ==
  ASSUME SlotInvariant, NEW n \in Nodes, NEW s \in Shards, NEW to, NEW freed, NEW most,
         WakeUp(n, s, to, freed, most)
  PROVE  /\ pc'[s] = to
         /\ \A t \in Shards \ {s} :
               pc'[t] # pc[t] => pc[t] = "queued" /\ pc'[t] = "granted"
<1>1. PICK woken \in SUBSET Wakeable(n) :
        pc' = [t \in Shards |-> IF t = s THEN to
                                ELSE IF t \in woken THEN "granted" ELSE pc[t]]
  BY DEF WakeUp
<1>2. \A t \in woken : pc[t] = "queued"
  BY DEF Wakeable
<1> QED
  BY <1>1, <1>2

LEMMA AcquireShape ==
  ASSUME SlotInvariant, NEW s \in Shards, Acquire(s)
  PROVE  ShardMoves(s) /\ SameTry(s)
<1>1. /\ pc[s] \in {"created", "acquire"}
      /\ pc' = [pc EXCEPT ![s] = "queued"] \/ pc' = [pc EXCEPT ![s] = "holding"]
      /\ UNCHANGED <<jobVars, node, attempt, attempted, model, dispatched, closed>>
      /\ pc \in [Shards -> PCs]
  BY DEF Acquire, SlotInvariant, TypeOK
<1> QED
  BY <1>1 DEF ShardMoves, SameTry, Trying, Over, jobVars

LEMMA GrantedShape ==
  ASSUME SlotInvariant, NEW s \in Shards, Granted(s)
  PROVE  ShardMoves(s) /\ SameTry(s)
<1>1. /\ pc[s] = "granted" /\ WakeUp(node[s], s, "holding", 0, permits[node[s]] + 0)
      /\ UNCHANGED <<jobVars, node, attempt, attempted, model, dispatched, closed>>
  BY DEF Granted, LeaveQueue
<1>2. node[s] \in Nodes
  BY <1>1 DEF SlotInvariant, Placed
<1>3. /\ pc'[s] = "holding"
      /\ \A t \in Shards \ {s} :
            pc'[t] # pc[t] => pc[t] = "queued" /\ pc'[t] = "granted"
  BY <1>1, <1>2, WakeUpShape
<1> QED
  BY <1>1, <1>3 DEF ShardMoves, SameTry, Trying, Over, jobVars

LEMMA DispatchShape ==
  ASSUME SlotInvariant, NEW s \in Shards, Dispatch(s)
  PROVE  ShardMoves(s) /\ Sends(s)
<1>1. /\ pc[s] = "holding" /\ pc' = [pc EXCEPT ![s] = "posting"]
      /\ dispatched' = [dispatched EXCEPT ![s][node[s]] = @ + 1]
      /\ UNCHANGED <<jobVars, node, attempt, attempted, model, closed>>
      /\ pc \in [Shards -> PCs] /\ dispatched \in [Shards -> [Nodes -> Nat]]
  BY DEF Dispatch, SlotInvariant, TypeOK
<1> QED
  BY <1>1 DEF ShardMoves, Sends, Over, jobVars

LEMMA AttemptFailedShape ==
  ASSUME SlotInvariant, NEW s \in Shards, Unavailable(s) \/ RequestFailed(s)
  PROVE  ShardMoves(s) /\ (TriesAgain(s) \/ GivesUp(s))
<1> DEFINE to == IF attempt[s] = 0 THEN "acquire" ELSE "reassign"
<1>1. /\ AttemptFailed(s) /\ pc[s] \in {"holding", "posting"}
      /\ UNCHANGED <<jobVars, node, model, dispatched, closed>>
  BY DEF Unavailable, RequestFailed
<1>2. node[s] \in Nodes
  BY <1>1 DEF SlotInvariant, Placed
<1>3. /\ attempt \in [Shards -> 0..1] /\ attempted \in [Shards -> SUBSET Nodes]
      /\ attempt' = [attempt EXCEPT ![s] = IF attempt[s] = 0 THEN 1 ELSE @]
      /\ attempted' = [attempted EXCEPT ![s] = GivenUp(s)]
      /\ WakeUp(node[s], s, to, 1, 1)
  BY <1>1 DEF AttemptFailed, Release, SlotInvariant, TypeOK
<1>4. /\ pc'[s] = to
      /\ \A t \in Shards \ {s} :
            pc'[t] # pc[t] => pc[t] = "queued" /\ pc'[t] = "granted"
  BY <1>2, <1>3, WakeUpShape
<1>5. ShardMoves(s)
  BY <1>1, <1>3, <1>4 DEF ShardMoves, Over, jobVars
<1>6. TriesAgain(s) \/ GivesUp(s)
  <2>1. attempt[s] \in 0..1
    BY <1>3
  <2>2. CASE attempt[s] = 0
    BY <1>1, <1>3, <1>4, <2>2 DEF TriesAgain, GivenUp
  <2>3. CASE attempt[s] = 1
    BY <1>1, <1>3, <1>4, <2>3 DEF GivesUp, GivenUp
  <2> QED
    BY <2>1, <2>2, <2>3
<1> QED
  BY <1>5, <1>6

LEMMA AnsweredShape ==
  ASSUME SlotInvariant, NEW s \in Shards, NEW o \in {"ok", "failed"}, NEW m,
         RequestAnswered(s, o, m)
  PROVE  ShardMoves(s) /\ SameTry(s)
<1>1. /\ pc[s] = "posting" /\ WakeUp(node[s], s, o, 1, 1)
      /\ model' = [model EXCEPT ![s] = m] /\ model \in [Shards -> EmbeddingModels \cup {NoModel}]
      /\ UNCHANGED <<jobVars, node, attempt, attempted, dispatched, closed>>
  BY DEF RequestAnswered, Release, SlotInvariant, TypeOK
<1>2. node[s] \in Nodes
  BY <1>1 DEF SlotInvariant, Placed
<1>3. /\ pc'[s] = o
      /\ \A t \in Shards \ {s} :
            pc'[t] # pc[t] => pc[t] = "queued" /\ pc'[t] = "granted"
  BY <1>1, <1>2, WakeUpShape
<1> QED
  BY <1>1, <1>3 DEF ShardMoves, SameTry, Trying, Over, jobVars

LEMMA ReassignShape ==
  ASSUME SlotInvariant, NEW s \in Shards, NEW reported, Reassign(s, reported)
  PROVE  ShardMoves(s) /\ MovesOn(s)
<1>1. PICK n \in Nodes :
        /\ BestReplacement(n, s, reported)
        /\ node' = [node EXCEPT ![s] = n] /\ Assign(JobOf(s), n)
  BY DEF Reassign
<1>2. /\ pc[s] = "reassign" /\ pc' = [pc EXCEPT ![s] = "acquire"]
      /\ attempt' = [attempt EXCEPT ![s] = 0]
      /\ UNCHANGED <<status, kind, fanout, ended, cancelled, terminal, attempted, model,
                     dispatched, closed>>
  BY DEF Reassign
<1>3. /\ pc \in [Shards -> PCs] /\ node \in [Shards -> Nodes \cup {NoNode}]
      /\ attempt \in [Shards -> 0..1] /\ assigned \in [Jobs -> SUBSET Nodes]
  BY DEF SlotInvariant, TypeOK
<1>4. n \notin attempted[s]
  BY <1>1 DEF BestReplacement
<1>5. /\ \A j \in Jobs : assigned[j] \subseteq assigned'[j]
      /\ n \in assigned'[JobOf(s)]
  BY <1>1, <1>3, ShardParts DEF Assign
<1> QED
  BY <1>1, <1>2, <1>3, <1>4, <1>5 DEF ShardMoves, MovesOn, Over

LEMMA ExhaustedShape ==
  ASSUME SlotInvariant, NEW s \in Shards, Exhausted(s)
  PROVE  ShardMoves(s) /\ SameTry(s)
<1>1. /\ pc[s] = "reassign" /\ pc' = [pc EXCEPT ![s] = "failed"]
      /\ UNCHANGED <<jobVars, node, attempt, attempted, model, dispatched, closed>>
      /\ pc \in [Shards -> PCs]
  BY DEF Exhausted, SlotInvariant, TypeOK
<1> QED
  BY <1>1 DEF ShardMoves, SameTry, Trying, Over, jobVars

LEMMA CancelShardShape ==
  ASSUME SlotInvariant, NEW s \in Shards, CancelShard(s)
  PROVE  ShardMoves(s) /\ SameTry(s)
<1>1. /\ pc[s] \in {"created", "queued", "granted", "posting"}
      /\ UNCHANGED <<jobVars, node, attempt, attempted, model, dispatched, closed>>
      /\ pc \in [Shards -> PCs]
  BY DEF CancelShard, SlotInvariant, TypeOK
<1>2. node[s] \in Nodes
  BY <1>1 DEF SlotInvariant, Placed
<1>3. \/ pc' = [pc EXCEPT ![s] = "cancelled"]
      \/ \E freed, most : WakeUp(node[s], s, "cancelled", freed, most)
  <2>1. CASE pc[s] = "created"
    BY <2>1 DEF CancelShard
  <2>2. CASE pc[s] = "queued"
    BY <2>2 DEF CancelShard, LeaveQueue
  <2>3. CASE pc[s] = "granted"
    BY <2>3 DEF CancelShard, LeaveQueue
  <2>4. CASE pc[s] = "posting"
    BY <2>4 DEF CancelShard, Release
  <2> QED
    BY <1>1, <2>1, <2>2, <2>3, <2>4
<1>4. /\ pc'[s] = "cancelled"
      /\ \A t \in Shards \ {s} :
            pc'[t] # pc[t] => pc[t] = "queued" /\ pc'[t] = "granted"
  BY <1>1, <1>2, <1>3, WakeUpShape
<1> QED
  BY <1>1, <1>4 DEF ShardMoves, SameTry, Trying, Over, jobVars

LEMMA ShardStepShape ==
  ASSUME SlotInvariant, NEW s \in Shards, ShardStep(s)
  PROVE  ShardMoves(s) /\ Tries(s)
  BY AcquireShape, GrantedShape, DispatchShape, AttemptFailedShape, AnsweredShape,
     ReassignShape, ExhaustedShape, CancelShardShape DEF ShardStep, RequestEnds, Tries

-----------------------------------------------------------------------------
(* A shard's step keeps what the job says. *)

\* The parts of OutcomeInvariant that do not look at the semaphores.
Verdicts ==
    /\ JobsMatch /\ TriesMatch /\ AtMostTwicePerNode /\ AssignedCoversDispatch
    /\ VerdictIsRight /\ SettledIsQuiet /\ OneTerminalEvent

\* A shard that tries a node counts its requests to it, and sends none elsewhere.
LEMMA TriesKept ==
  ASSUME SlotInvariant, TriesMatch, AtMostTwicePerNode,
         NEW s \in Shards, ShardMoves(s), Tries(s)
  PROVE  TriesMatch' /\ AtMostTwicePerNode'
<1>1. /\ attempt \in [Shards -> 0..1] /\ attempted \in [Shards -> SUBSET Nodes]
      /\ dispatched \in [Shards -> [Nodes -> Nat]] /\ pc \in [Shards -> PCs]
  BY DEF SlotInvariant, TypeOK
<1>2. pc[s] # "none" => node[s] \in Nodes
  BY DEF SlotInvariant, Placed
<1>3. ASSUME NEW t \in Shards, t # s
      PROVE  /\ pc'[t] \in {"none", "created"} =>
                   /\ attempt'[t] = 0 /\ attempted'[t] = {}
                   /\ \A n \in Nodes : dispatched'[t][n] = 0
             /\ pc'[t] \in Trying =>
                   /\ node'[t] \notin attempted'[t]
                   /\ dispatched'[t][node'[t]] <=
                         attempt'[t] + (IF pc'[t] = "posting" THEN 1 ELSE 0)
             /\ pc'[t] = "reassign" => node'[t] \in attempted'[t]
             /\ \A n \in Nodes :
                   /\ dispatched'[t][n] <= 2
                   /\ n \in attempted'[t] /\ node'[t] = n => pc'[t] \in {"reassign"} \cup Over
                   /\ n \notin attempted'[t] /\ n # node'[t] => dispatched'[t][n] = 0
  <2>1. /\ node'[t] = node[t] /\ attempt'[t] = attempt[t]
        /\ attempted'[t] = attempted[t] /\ dispatched'[t] = dispatched[t]
        /\ pc'[t] = pc[t] \/ (pc[t] = "queued" /\ pc'[t] = "granted")
    BY <1>3 DEF ShardMoves
  <2>2. /\ pc[t] \in {"none", "created"} =>
              /\ attempt[t] = 0 /\ attempted[t] = {}
              /\ \A n \in Nodes : dispatched[t][n] = 0
        /\ pc[t] \in Trying =>
              /\ node[t] \notin attempted[t]
              /\ dispatched[t][node[t]] <=
                    attempt[t] + (IF pc[t] = "posting" THEN 1 ELSE 0)
        /\ pc[t] = "reassign" => node[t] \in attempted[t]
    BY DEF TriesMatch
  <2>3. \A n \in Nodes :
           /\ dispatched[t][n] <= 2
           /\ n \in attempted[t] /\ node[t] = n => pc[t] \in {"reassign"} \cup Over
           /\ n \notin attempted[t] /\ n # node[t] => dispatched[t][n] = 0
    BY DEF AtMostTwicePerNode
  <2>4. CASE pc'[t] = pc[t]
    BY <2>1, <2>2, <2>3, <2>4
  <2>5. CASE pc[t] = "queued" /\ pc'[t] = "granted"
    BY <2>1, <2>2, <2>3, <2>5 DEF Trying, Over
  <2> QED
    BY <2>1, <2>4, <2>5
<1>4. /\ pc'[s] \in {"none", "created"} =>
            /\ attempt'[s] = 0 /\ attempted'[s] = {}
            /\ \A n \in Nodes : dispatched'[s][n] = 0
      /\ pc'[s] \in Trying =>
            /\ node'[s] \notin attempted'[s]
            /\ dispatched'[s][node'[s]] <=
                  attempt'[s] + (IF pc'[s] = "posting" THEN 1 ELSE 0)
      /\ pc'[s] = "reassign" => node'[s] \in attempted'[s]
      /\ \A n \in Nodes :
            /\ dispatched'[s][n] <= 2
            /\ n \in attempted'[s] /\ node'[s] = n => pc'[s] \in {"reassign"} \cup Over
            /\ n \notin attempted'[s] /\ n # node'[s] => dispatched'[s][n] = 0
  <2> DEFINE n0 == node[s]
  <2>1. n0 \in Nodes /\ attempt[s] \in 0..1 /\ dispatched[s] \in [Nodes -> Nat]
    BY <1>1, <1>2 DEF ShardMoves
  <2>2. /\ pc[s] \in {"none", "created"} =>
              /\ attempt[s] = 0 /\ attempted[s] = {}
              /\ \A n \in Nodes : dispatched[s][n] = 0
        /\ pc[s] \in Trying =>
              /\ n0 \notin attempted[s]
              /\ dispatched[s][n0] <= attempt[s] + (IF pc[s] = "posting" THEN 1 ELSE 0)
        /\ pc[s] = "reassign" => n0 \in attempted[s]
    BY DEF TriesMatch
  <2>3. \A n \in Nodes :
           /\ dispatched[s][n] <= 2
           /\ n \notin attempted[s] /\ n # n0 => dispatched[s][n] = 0
    BY DEF AtMostTwicePerNode
  <2> HIDE DEF n0
  <2>4. CASE SameTry(s)
    <3>1. /\ pc'[s] \in Trying \cup Over /\ pc'[s] # "posting"
          /\ node'[s] = n0 /\ attempt'[s] = attempt[s]
          /\ attempted'[s] = attempted[s] /\ dispatched'[s] = dispatched[s]
      BY <2>4 DEF SameTry, n0, Trying, Over
    <3>2. pc'[s] \in Trying => n0 \notin attempted[s] /\ dispatched[s][n0] <= attempt[s]
      BY <2>1, <2>2, <2>4 DEF SameTry, Trying, Over
    <3> QED
      BY <3>1, <3>2, <2>1, <2>3 DEF Trying, Over
  <2>5. CASE Sends(s)
    BY <2>1, <2>2, <2>3, <2>5 DEF Sends, n0, Trying, Over
  <2>6. CASE TriesAgain(s)
    BY <2>1, <2>2, <2>3, <2>6 DEF TriesAgain, n0, Trying, Over
  <2>7. CASE GivesUp(s)
    BY <2>1, <2>2, <2>3, <2>7 DEF GivesUp, n0, Trying, Over
  <2>8. CASE MovesOn(s)
    BY <2>1, <2>2, <2>3, <2>8 DEF MovesOn, n0, Trying, Over
  <2> QED
    BY <2>4, <2>5, <2>6, <2>7, <2>8 DEF Tries
<1>5. \A t \in Shards :
        /\ pc'[t] \in {"none", "created"} =>
              /\ attempt'[t] = 0 /\ attempted'[t] = {}
              /\ \A n \in Nodes : dispatched'[t][n] = 0
        /\ pc'[t] \in Trying =>
              /\ node'[t] \notin attempted'[t]
              /\ dispatched'[t][node'[t]] <=
                    attempt'[t] + (IF pc'[t] = "posting" THEN 1 ELSE 0)
        /\ pc'[t] = "reassign" => node'[t] \in attempted'[t]
  BY <1>3, <1>4
<1>6. \A t \in Shards, n \in Nodes :
        /\ dispatched'[t][n] <= 2
        /\ n \in attempted'[t] /\ node'[t] = n => pc'[t] \in {"reassign"} \cup Over
        /\ n \notin attempted'[t] /\ n # node'[t] => dispatched'[t][n] = 0
  BY <1>3, <1>4
<1> QED
  BY <1>5, <1>6 DEF TriesMatch, AtMostTwicePerNode

\* What Errors(j) looks at: the job's kind and fan-out, its shards' ends.
LEMMA ErrorsKept ==
  ASSUME NEW j \in Jobs, kind'[j] = kind[j], fanout'[j] = fanout[j],
         \A s \in ShardsOf(j) : pc'[s] = pc[s] /\ model'[s] = model[s]
  PROVE  ShardsOf(j)' = ShardsOf(j) /\ (Errors(j)' <=> Errors(j))
<1>1. ShardsOf(j)' = ShardsOf(j)
  BY DEF ShardsOf
<1>2. {t \in ShardsOf(j) : pc'[t] = "ok"} = {t \in ShardsOf(j) : pc[t] = "ok"}
  OBVIOUS
<1>3. {model'[t] : t \in {u \in ShardsOf(j) : pc'[u] = "ok"}}
         = {model[t] : t \in {u \in ShardsOf(j) : pc[u] = "ok"}}
  BY <1>2
<1>4. MergeFails(j)' <=> MergeFails(j)
  BY <1>1, <1>3 DEF MergeFails
<1> QED
  BY <1>1, <1>4 DEF Errors

LEMMA ShardStepVerdicts ==
  ASSUME SlotInvariant, SlotInvariant', Verdicts, NEW s \in Shards, ShardMoves(s), Tries(s)
  PROVE  Verdicts'
<1>1. JobsMatch'
  <2>1. \A t \in Shards : pc'[t] # "none" => t[2] <= fanout'[JobOf(t)]
    BY DEF Verdicts, JobsMatch, ShardMoves, Over
  <2>2. ASSUME NEW t \in Shards, t[2] <= fanout'[JobOf(t)]
        PROVE  node'[t] \in assigned'[JobOf(t)]
    <3>1. node[t] \in assigned[JobOf(t)] /\ JobOf(t) \in Jobs
      BY <2>2, ShardParts DEF Verdicts, JobsMatch, ShardMoves
    <3>2. node'[t] = node[t] \/ node'[t] \in assigned'[JobOf(t)]
      BY DEF ShardMoves, Tries, SameTry, Sends, TriesAgain, GivesUp, MovesOn
    <3> QED
      BY <3>1, <3>2 DEF ShardMoves
  <2> QED
    BY <2>1, <2>2 DEF Verdicts, JobsMatch, ShardMoves
<1>2. TriesMatch' /\ AtMostTwicePerNode'
  BY TriesKept DEF Verdicts
<1>3. AssignedCoversDispatch'
  <2>1. ASSUME NEW t \in Shards, NEW n \in Nodes, dispatched'[t][n] > 0
        PROVE  n \in assigned'[JobOf(t)]
    <3>1. JobOf(t) \in Jobs /\ dispatched \in [Shards -> [Nodes -> Nat]]
      BY ShardParts DEF SlotInvariant, TypeOK
    <3>2. dispatched[t][n] > 0 => n \in assigned[JobOf(t)]
      BY DEF Verdicts, AssignedCoversDispatch
    <3>3. \/ dispatched'[t] = dispatched[t]
          \/ t = s /\ Sends(s)
      BY DEF ShardMoves, Tries, SameTry, Sends, TriesAgain, GivesUp, MovesOn
    <3>4. CASE dispatched'[t] = dispatched[t]
      BY <2>1, <3>1, <3>2, <3>4 DEF ShardMoves
    <3>5. CASE t = s /\ Sends(s)
      <4>1. node[s] \in assigned'[JobOf(s)]
        BY <1>1, <3>5 DEF JobsMatch, Sends
      <4> QED
        BY <2>1, <3>1, <3>2, <3>5, <4>1 DEF Sends, ShardMoves
    <3> QED
      BY <3>3, <3>4, <3>5
  <2> QED
    BY <2>1 DEF AssignedCoversDispatch
<1>4. \A j \in Jobs : ShardsOf(j)' = ShardsOf(j)
  BY DEF ShardsOf, ShardMoves
<1>5. \A t \in Shards : ended[JobOf(t)] =>
         /\ t # s /\ pc'[t] = pc[t] /\ model'[t] = model[t]
         /\ pc[t] \in Over \cup {"none"}
  BY ShardParts DEF Verdicts, SettledIsQuiet, ShardMoves, Over
<1>6. VerdictIsRight'
  <2>1. ASSUME NEW j \in Jobs, status[j] \in Settled
        PROVE  /\ \A t \in ShardsOf(j) : pc'[t] = pc[t] /\ model'[t] = model[t]
               /\ Errors(j)' <=> Errors(j)
    <3>1. ended[j]
      BY <2>1 DEF Verdicts, JobsMatch
    <3>2. \A t \in ShardsOf(j) : pc'[t] = pc[t] /\ model'[t] = model[t]
      BY <3>1, <1>5 DEF ShardsOf
    <3> QED
      BY <3>2, ErrorsKept DEF ShardMoves
  <2>2. status' = status /\ kind' = kind /\ terminal' = terminal
    BY DEF ShardMoves
  <2> QED
    BY <2>1, <2>2, <1>4 DEF Verdicts, VerdictIsRight, Settled
<1>7. SettledIsQuiet'
  <2>1. ASSUME NEW t \in Shards, ended'[JobOf(t)]
        PROVE  /\ pc'[t] \in Over \cup {"none"}
               /\ \A n \in Nodes : t \notin Waiting(n)'
    <3>1. pc'[t] \in Over \cup {"none"}
      BY <2>1, <1>5 DEF ShardMoves
    <3> QED
      BY <3>1 DEF SlotInvariant, QueuesMatch, Waiting, Over
  <2> QED
    BY <2>1 DEF SettledIsQuiet
<1>8. OneTerminalEvent'
  BY DEF Verdicts, OneTerminalEvent, ShardMoves
<1> QED
  BY <1>1, <1>2, <1>3, <1>6, <1>7, <1>8 DEF Verdicts

-----------------------------------------------------------------------------
(* The steps of submit, of a job's own task, of close() and of the registry. *)

LEMMA InitVerdicts == Init => Verdicts
<1> SUFFICES ASSUME Init PROVE Verdicts
  OBVIOUS
<1>1. JobsMatch
  BY ShardParts DEF Init, JobsMatch, Settled
<1>2. TriesMatch /\ AtMostTwicePerNode
  BY DEF Init, TriesMatch, AtMostTwicePerNode, Trying
<1>3. AssignedCoversDispatch /\ VerdictIsRight
  BY DEF Init, AssignedCoversDispatch, VerdictIsRight
<1>4. SettledIsQuiet /\ OneTerminalEvent
  BY DEF Init, SettledIsQuiet, OneTerminalEvent
<1> QED
  BY <1>1, <1>2, <1>3, <1>4 DEF Verdicts

LEMMA SubmitVerdicts ==
  ASSUME SlotInvariant, Verdicts, NEW j \in Jobs, NEW k \in Kinds,
         NEW pin \in Pins \cup {NoNode}, NEW count \in 1..MaxFanout,
         NEW reported \in Reports, Submit(j, k, pin, count, reported)
  PROVE  Verdicts'
<1>1. /\ ~closed /\ status[j] = "none"
      /\ status' = [status EXCEPT ![j] = "queued"]
      /\ kind' = [kind EXCEPT ![j] = k] /\ fanout' = [fanout EXCEPT ![j] = count]
      /\ UNCHANGED <<ended, cancelled, terminal, pc, attempt, attempted, model, dispatched,
                     waiters, closed>>
  BY DEF Submit, semVars
<1>2. /\ status \in [Jobs -> {"none", "queued", "running"} \cup Settled]
      /\ kind \in [Jobs -> {"search", "other"}] /\ fanout \in [Jobs -> 0..MaxFanout]
      /\ assigned \in [Jobs -> SUBSET Nodes] /\ node \in [Shards -> Nodes \cup {NoNode}]
  BY DEF SlotInvariant, TypeOK
<1>3. PICK selected :
        /\ assigned' = [assigned EXCEPT ![j] = {selected[i] : i \in 1..count}]
        /\ node' = [s \in Shards |-> IF JobOf(s) = j /\ s[2] <= count
                                     THEN selected[s[2]] ELSE node[s]]
  BY DEF Submit
<1>4. /\ \A i \in Jobs \ {j} : /\ status'[i] = status[i] /\ kind'[i] = kind[i]
                               /\ fanout'[i] = fanout[i] /\ assigned'[i] = assigned[i]
      /\ status'[j] = "queued" /\ fanout'[j] = count
      /\ assigned'[j] = {selected[i] : i \in 1..count}
  BY <1>1, <1>2, <1>3
<1>5. \A s \in Shards : JobOf(s) \in Jobs /\ s[2] \in 1..MaxFanout
  BY ShardParts
<1>6. \A s \in Shards : JobOf(s) # j => node'[s] = node[s]
  BY <1>3
<1>7. \A s \in Shards : JobOf(s) = j =>
         /\ pc[s] = "none" /\ attempt[s] = 0 /\ attempted[s] = {}
         /\ \A n \in Nodes : dispatched[s][n] = 0
  <2>1. \A s \in Shards : JobOf(s) = j => pc[s] = "none"
    BY <1>1 DEF SlotInvariant, Placed
  <2> QED
    BY <2>1 DEF Verdicts, TriesMatch
<1>8. JobsMatch'
  <2>1. \A i \in Jobs :
          /\ status'[i] \in {"none", "running"} => ~ended'[i]
          /\ status'[i] \in Settled => ended'[i]
          /\ cancelled'[i] => closed' /\ status'[i] # "none"
          /\ closed' /\ status'[i] # "none" /\ ~ended'[i] => cancelled'[i]
          /\ status'[i] = "none" => fanout'[i] = 0
    BY <1>1, <1>4 DEF Verdicts, JobsMatch, Settled
  <2>2. ASSUME NEW s \in Shards
        PROVE  /\ pc'[s] # "none" => s[2] <= fanout'[JobOf(s)]
               /\ s[2] <= fanout'[JobOf(s)] => node'[s] \in assigned'[JobOf(s)]
    <3>1. CASE JobOf(s) = j
      <4>1. s[2] <= count => s[2] \in 1..count
        BY <1>5
      <4>2. s[2] <= count => node'[s] = selected[s[2]]
        BY <1>3, <3>1
      <4> QED
        BY <3>1, <4>1, <4>2, <1>1, <1>4, <1>7
    <3>2. CASE JobOf(s) # j
      BY <3>2, <1>1, <1>4, <1>5, <1>6 DEF Verdicts, JobsMatch
    <3> QED
      BY <3>1, <3>2
  <2> QED
    BY <2>1, <2>2 DEF JobsMatch
<1>9. TriesMatch'
  <2>1. ASSUME NEW s \in Shards
        PROVE  /\ pc'[s] \in {"none", "created"} =>
                     /\ attempt'[s] = 0 /\ attempted'[s] = {}
                     /\ \A n \in Nodes : dispatched'[s][n] = 0
               /\ pc'[s] \in Trying =>
                     /\ node'[s] \notin attempted'[s]
                     /\ dispatched'[s][node'[s]] <=
                           attempt'[s] + (IF pc'[s] = "posting" THEN 1 ELSE 0)
               /\ pc'[s] = "reassign" => node'[s] \in attempted'[s]
    <3>1. CASE JobOf(s) = j
      BY <3>1, <1>1, <1>7 DEF Trying
    <3>2. CASE JobOf(s) # j
      BY <3>2, <1>1, <1>6 DEF Verdicts, TriesMatch
    <3> QED
      BY <3>1, <3>2
  <2> QED
    BY <2>1 DEF TriesMatch
<1>10. AtMostTwicePerNode'
  <2>1. ASSUME NEW s \in Shards, NEW n \in Nodes
        PROVE  /\ dispatched'[s][n] <= 2
               /\ n \in attempted'[s] /\ node'[s] = n => pc'[s] \in {"reassign"} \cup Over
               /\ n \notin attempted'[s] /\ n # node'[s] => dispatched'[s][n] = 0
    <3>1. CASE JobOf(s) = j
      BY <3>1, <1>1, <1>7
    <3>2. CASE JobOf(s) # j
      BY <3>2, <1>1, <1>6 DEF Verdicts, AtMostTwicePerNode
    <3> QED
      BY <3>1, <3>2
  <2> QED
    BY <2>1 DEF AtMostTwicePerNode
<1>11. AssignedCoversDispatch'
  <2>1. ASSUME NEW s \in Shards, NEW n \in Nodes, dispatched'[s][n] > 0
        PROVE  n \in assigned'[JobOf(s)]
    <3>1. JobOf(s) # j
      BY <2>1, <1>1, <1>7
    <3> QED
      BY <2>1, <3>1, <1>1, <1>4, <1>5 DEF Verdicts, AssignedCoversDispatch
  <2> QED
    BY <2>1 DEF AssignedCoversDispatch
<1>12. VerdictIsRight'
  <2>1. ASSUME NEW i \in Jobs, i # j
        PROVE  ShardsOf(i)' = ShardsOf(i) /\ (Errors(i)' <=> Errors(i))
    BY <2>1, <1>1, <1>4, ErrorsKept
  <2> QED
    BY <2>1, <1>1, <1>4 DEF Verdicts, VerdictIsRight
<1>13. SettledIsQuiet'
  BY <1>1 DEF Verdicts, SettledIsQuiet, Waiting
<1>14. OneTerminalEvent'
  BY <1>1, <1>4 DEF Verdicts, OneTerminalEvent
<1> QED
  BY <1>8, <1>9, <1>10, <1>11, <1>12, <1>13, <1>14 DEF Verdicts

LEMMA StartJobVerdicts ==
  ASSUME SlotInvariant, Verdicts, NEW j \in Jobs, StartJob(j)
  PROVE  Verdicts'
<1>1. /\ status[j] = "queued" /\ ~ended[j] /\ ~cancelled[j]
      /\ status' = [status EXCEPT ![j] = "running"]
      /\ pc' = [s \in Shards |-> IF s \in ShardsOf(j) THEN "created" ELSE pc[s]]
      /\ UNCHANGED <<kind, fanout, assigned, ended, cancelled, terminal, node, attempt,
                     attempted, model, dispatched, waiters, closed>>
  BY DEF StartJob, MayStart, semVars
<1>2. status \in [Jobs -> {"none", "queued", "running"} \cup Settled]
  BY DEF SlotInvariant, TypeOK
<1>3. status'[j] = "running" /\ \A i \in Jobs \ {j} : status'[i] = status[i]
  BY <1>1, <1>2
<1>4. ASSUME NEW s \in Shards, JobOf(s) = j
      PROVE  /\ pc[s] = "none" /\ pc'[s] \in {"none", "created"}
             /\ pc'[s] = "created" => s[2] <= fanout[j]
             /\ attempt[s] = 0 /\ attempted[s] = {}
             /\ \A n \in Nodes : dispatched[s][n] = 0
  <2>1. pc[s] = "none"
    BY <1>1, <1>4 DEF SlotInvariant, Placed
  <2>2. /\ attempt[s] = 0 /\ attempted[s] = {}
        /\ \A n \in Nodes : dispatched[s][n] = 0
    BY <2>1 DEF Verdicts, TriesMatch
  <2> QED
    BY <1>1, <2>1, <2>2 DEF ShardsOf
<1>5. ASSUME NEW s \in Shards, JobOf(s) # j PROVE pc'[s] = pc[s]
  BY <1>1, <1>5 DEF ShardsOf
<1>6. JobsMatch'
  <2>1. \A s \in Shards : pc'[s] # "none" => s[2] <= fanout[JobOf(s)]
    BY <1>4, <1>5 DEF Verdicts, JobsMatch
  <2> QED
    BY <2>1, <1>1, <1>3 DEF Verdicts, JobsMatch, Settled
<1>7. TriesMatch'
  <2>1. ASSUME NEW s \in Shards
        PROVE  /\ pc'[s] \in {"none", "created"} =>
                     /\ attempt'[s] = 0 /\ attempted'[s] = {}
                     /\ \A n \in Nodes : dispatched'[s][n] = 0
               /\ pc'[s] \in Trying =>
                     /\ node'[s] \notin attempted'[s]
                     /\ dispatched'[s][node'[s]] <=
                           attempt'[s] + (IF pc'[s] = "posting" THEN 1 ELSE 0)
               /\ pc'[s] = "reassign" => node'[s] \in attempted'[s]
    <3>1. CASE JobOf(s) = j
      BY <3>1, <1>1, <1>4 DEF Trying
    <3>2. CASE JobOf(s) # j
      BY <3>2, <1>1, <1>5 DEF Verdicts, TriesMatch
    <3> QED
      BY <3>1, <3>2
  <2> QED
    BY <2>1 DEF TriesMatch
<1>8. AtMostTwicePerNode'
  <2>1. ASSUME NEW s \in Shards, NEW n \in Nodes
        PROVE  /\ dispatched'[s][n] <= 2
               /\ n \in attempted'[s] /\ node'[s] = n => pc'[s] \in {"reassign"} \cup Over
               /\ n \notin attempted'[s] /\ n # node'[s] => dispatched'[s][n] = 0
    <3>1. CASE JobOf(s) = j
      BY <3>1, <1>1, <1>4
    <3>2. CASE JobOf(s) # j
      BY <3>2, <1>1, <1>5 DEF Verdicts, AtMostTwicePerNode
    <3> QED
      BY <3>1, <3>2
  <2> QED
    BY <2>1 DEF AtMostTwicePerNode
<1>9. AssignedCoversDispatch'
  BY <1>1 DEF Verdicts, AssignedCoversDispatch
<1>10. VerdictIsRight'
  <2>1. ASSUME NEW i \in Jobs, i # j
        PROVE  /\ ShardsOf(i)' = ShardsOf(i) /\ (Errors(i)' <=> Errors(i))
               /\ \A s \in ShardsOf(i) : pc'[s] = pc[s]
    <3>1. \A s \in ShardsOf(i) : pc'[s] = pc[s]
      BY <2>1, <1>5 DEF ShardsOf
    <3> QED
      BY <3>1, <1>1, ErrorsKept
  <2> QED
    BY <2>1, <1>1, <1>3 DEF Verdicts, VerdictIsRight
<1>11. SettledIsQuiet'
  <2>1. \A s \in Shards : ended[JobOf(s)] => pc'[s] = pc[s]
    BY <1>1, <1>5
  <2> QED
    BY <2>1, <1>1 DEF Verdicts, SettledIsQuiet, Waiting
<1>12. OneTerminalEvent'
  BY <1>1, <1>3 DEF Verdicts, OneTerminalEvent
<1> QED
  BY <1>6, <1>7, <1>8, <1>9, <1>10, <1>11, <1>12 DEF Verdicts

\* No shard's own record changes.
LEMMA RecordsKept ==
  ASSUME Verdicts, UNCHANGED <<pc, node, attempt, attempted, dispatched, assigned>>
  PROVE  TriesMatch' /\ AtMostTwicePerNode' /\ AssignedCoversDispatch'
<1>1. TriesMatch'
  BY DEF Verdicts, TriesMatch
<1>2. AtMostTwicePerNode'
  BY DEF Verdicts, AtMostTwicePerNode
<1>3. AssignedCoversDispatch'
  BY DEF Verdicts, AssignedCoversDispatch
<1> QED
  BY <1>1, <1>2, <1>3

\* A search that is merged names one embedding model.
LEMMA MergedIsOneModel ==
  ASSUME SlotInvariant, NEW j \in Jobs, kind[j] = "search", ~Errors(j),
         NEW s \in ShardsOf(j), NEW t \in ShardsOf(j),
         model[s] # NoModel, model[t] # NoModel
  PROVE  model[s] = model[t]
<1> DEFINE answered == {u \in ShardsOf(j) : pc[u] = "ok"}
           models == {model[u] : u \in answered} \ {NoModel}
<1>1. s \in answered /\ t \in answered
  BY DEF Errors
<1>2. ~(Cardinality(models) > 1)
  BY DEF Errors, MergeFails
<1>3. IsFiniteSet(models)
  <2>1. IsFiniteSet(answered)
    BY ShardsFinite, FS_Subset DEF ShardsOf
  <2>2. IsFiniteSet({model[u] : u \in answered})
    <3> DEFINE T == {model[u] : u \in answered}
    <3>1. [u \in answered |-> model[u]] \in Surjection(answered, T)
      BY DEF Surjection
    <3> HIDE DEF T
    <3>2. IsFiniteSet(T)
      BY <2>1, <3>1, FS_Surjection
    <3> QED
      BY <3>2 DEF T
  <2> QED
    BY <2>2, FS_Subset
<1>4. model[s] \in models /\ model[t] \in models
  BY <1>1
<1> HIDE DEF models
<1>5. SUFFICES ASSUME model[s] # model[t] PROVE FALSE
  OBVIOUS
<1>6. {model[s], model[t]} \in SUBSET models
  BY <1>4
<1>7. Cardinality({model[s], model[t]}) = 2
  <2>1. IsFiniteSet({model[s]}) /\ Cardinality({model[s]}) = 1
    BY FS_Singleton
  <2>2. model[t] \notin {model[s]} /\ {model[s], model[t]} = {model[s]} \cup {model[t]}
    BY <1>5
  <2> QED
    BY <2>1, <2>2, FS_AddElement
<1>8. Cardinality(models) \in Nat /\ Cardinality({model[s], model[t]}) <= Cardinality(models)
  BY <1>3, <1>6, FS_Subset, FS_CardinalityType
<1> QED
  BY <1>2, <1>7, <1>8

\* gather is over: the verdict is written from what the shards say now.
LEMMA SettleVerdicts ==
  ASSUME SlotInvariant, Verdicts, NEW j \in Jobs, FinishJob(j) \/ CancelJob(j)
  PROVE  Verdicts'
<1>1. /\ status[j] = "running" /\ GatherOver(j)
      /\ ended' = [ended EXCEPT ![j] = TRUE]
      /\ UNCHANGED <<kind, fanout, assigned, cancelled, pc, node, attempt, attempted, model,
                     dispatched, waiters, closed>>
  BY DEF FinishJob, CancelJob, shardVars, semVars
<1>2. PICK verdict \in Settled, event \in {"completed", "failed", "cancelled"} :
        /\ status' = [status EXCEPT ![j] = verdict]
        /\ terminal' = [terminal EXCEPT ![j] = Append(@, event)]
        /\ verdict = "done" => event = "completed" /\ ~Errors(j)
        /\ verdict = "failed" => event = "cancelled" \/ (event = "failed" /\ Errors(j))
  <2>1. CASE FinishJob(j)
    BY <2>1 DEF FinishJob, Settled
  <2>2. CASE CancelJob(j)
    BY <2>2 DEF CancelJob, Settled
  <2> QED
    BY <2>1, <2>2
<1>3. /\ status \in [Jobs -> {"none", "queued", "running"} \cup Settled]
      /\ terminal \in [Jobs -> Seq({"completed", "failed", "cancelled"})]
      /\ ended \in [Jobs -> BOOLEAN]
  BY DEF SlotInvariant, TypeOK
<1>4. terminal[j] = <<>>
  BY <1>1 DEF Verdicts, OneTerminalEvent
<1>5. /\ status'[j] = verdict /\ ended'[j] /\ terminal'[j] = <<event>>
      /\ \A i \in Jobs \ {j} : /\ status'[i] = status[i] /\ ended'[i] = ended[i]
                               /\ terminal'[i] = terminal[i]
  BY <1>1, <1>2, <1>3, <1>4
<1>6. JobsMatch'
  BY <1>1, <1>2, <1>5 DEF Verdicts, JobsMatch, Settled
<1>7. TriesMatch' /\ AtMostTwicePerNode' /\ AssignedCoversDispatch'
  BY <1>1, RecordsKept
<1>8. VerdictIsRight'
  <2>1. \A i \in Jobs : ShardsOf(i)' = ShardsOf(i) /\ (Errors(i)' <=> Errors(i))
    BY <1>1, ErrorsKept
  <2>2. CASE verdict = "done"
    <3>1. ~Errors(j)
      BY <1>2, <2>2
    <3>2. \A s \in ShardsOf(j) : pc[s] = "ok"
      BY <3>1 DEF Errors
    <3>3. kind[j] = "search" =>
             \A s, t \in ShardsOf(j) :
                \/ model[s] = NoModel \/ model[t] = NoModel
                \/ model[s] = model[t]
      BY <3>1, MergedIsOneModel
    <3> QED
      BY <2>1, <2>2, <3>2, <3>3, <1>1, <1>5 DEF Verdicts, VerdictIsRight
  <2>3. CASE verdict = "failed"
    <3>1. event = "failed" => Errors(j)
      BY <1>2, <2>3
    <3>2. terminal'[j] = <<"failed">> => event = "failed"
      BY <1>5
    <3> QED
      BY <2>1, <2>3, <3>1, <3>2, <1>1, <1>5 DEF Verdicts, VerdictIsRight
  <2> QED
    BY <1>2, <2>2, <2>3 DEF Settled
<1>9. SettledIsQuiet'
  <2>1. ASSUME NEW s \in Shards, ended'[JobOf(s)]
        PROVE  /\ pc'[s] \in Over \cup {"none"}
               /\ \A n \in Nodes : s \notin Waiting(n)'
    <3>1. pc[s] \in Over \cup {"none"}
      <4>1. CASE JobOf(s) = j
        <5>1. pc[s] # "none" => s \in ShardsOf(j)
          BY <4>1 DEF Verdicts, JobsMatch, ShardsOf
        <5> QED
          BY <5>1, <1>1 DEF GatherOver
      <4>2. CASE JobOf(s) # j
        BY <2>1, <4>2, <1>5, ShardParts DEF Verdicts, SettledIsQuiet
      <4> QED
        BY <4>1, <4>2
    <3>2. \A n \in Nodes : s \notin Waiting(n)
      BY <3>1 DEF SlotInvariant, QueuesMatch, Waiting, Over
    <3> QED
      BY <3>1, <3>2, <1>1 DEF Waiting
  <2> QED
    BY <2>1 DEF SettledIsQuiet
<1>10. OneTerminalEvent'
  BY <1>2, <1>5 DEF Verdicts, OneTerminalEvent, Settled
<1> QED
  BY <1>6, <1>7, <1>8, <1>9, <1>10 DEF Verdicts

LEMMA CancelUnstartedVerdicts ==
  ASSUME SlotInvariant, Verdicts, NEW j \in Jobs, CancelUnstarted(j)
  PROVE  Verdicts'
<1>1. /\ status[j] = "queued" /\ cancelled[j]
      /\ ended' = [ended EXCEPT ![j] = TRUE] /\ ended \in [Jobs -> BOOLEAN]
      /\ UNCHANGED <<status, kind, fanout, assigned, cancelled, terminal, pc, node, attempt,
                     attempted, model, dispatched, waiters, closed>>
  BY DEF CancelUnstarted, shardVars, semVars, SlotInvariant, TypeOK
<1>2. JobsMatch'
  BY <1>1 DEF Verdicts, JobsMatch, Settled
<1>3. TriesMatch' /\ AtMostTwicePerNode' /\ AssignedCoversDispatch'
  BY <1>1, RecordsKept
<1>4. VerdictIsRight'
  <2>1. \A i \in Jobs : ShardsOf(i)' = ShardsOf(i) /\ (Errors(i)' <=> Errors(i))
    BY <1>1, ErrorsKept
  <2> QED
    BY <2>1, <1>1 DEF Verdicts, VerdictIsRight
<1>5. SettledIsQuiet'
  <2>1. ASSUME NEW s \in Shards, ended'[JobOf(s)]
        PROVE  /\ pc'[s] \in Over \cup {"none"}
               /\ \A n \in Nodes : s \notin Waiting(n)'
    <3>1. pc[s] \in Over \cup {"none"}
      <4>1. CASE JobOf(s) = j
        BY <4>1, <1>1 DEF SlotInvariant, Placed
      <4>2. CASE JobOf(s) # j
        BY <2>1, <4>2, <1>1, ShardParts DEF Verdicts, SettledIsQuiet
      <4> QED
        BY <4>1, <4>2
    <3>2. \A n \in Nodes : s \notin Waiting(n)
      BY <3>1 DEF SlotInvariant, QueuesMatch, Waiting, Over
    <3> QED
      BY <3>1, <3>2, <1>1 DEF Waiting
  <2> QED
    BY <2>1 DEF SettledIsQuiet
<1>6. OneTerminalEvent'
  BY <1>1 DEF Verdicts, OneTerminalEvent
<1> QED
  BY <1>2, <1>3, <1>4, <1>5, <1>6 DEF Verdicts

\* close() cancels exactly the jobs that have a task, the registry touches none.
LEMMA OutsideVerdicts ==
  ASSUME SlotInvariant, Verdicts,
         Close \/ (\E n \in Nodes : NodeUsable(n) \/ NodeLost(n)) \/ UNCHANGED vars
  PROVE  Verdicts'
<1>1. /\ UNCHANGED <<status, kind, fanout, assigned, ended, terminal, pc, node, attempt,
                     attempted, model, dispatched, waiters>>
      /\ \/ UNCHANGED <<cancelled, closed>>
         \/ closed' = TRUE /\ cancelled' = [j \in Jobs |-> status[j] # "none" /\ ~ended[j]]
  BY DEF Close, NodeUsable, NodeLost, vars, jobVars, shardVars, semVars
<1>2. JobsMatch'
  <2>1. CASE UNCHANGED <<cancelled, closed>>
    BY <1>1, <2>1 DEF Verdicts, JobsMatch
  <2>2. CASE closed' = TRUE /\ cancelled' = [j \in Jobs |-> status[j] # "none" /\ ~ended[j]]
    <3>1. \A j \in Jobs : cancelled'[j] <=> status[j] # "none" /\ ~ended[j]
      BY <2>2
    <3>2. \A j \in Jobs :
            /\ cancelled'[j] => closed' /\ status[j] # "none"
            /\ closed' /\ status[j] # "none" /\ ~ended[j] => cancelled'[j]
      BY <2>2, <3>1
    <3> QED
      BY <1>1, <3>2 DEF Verdicts, JobsMatch
  <2> QED
    BY <1>1, <2>1, <2>2
<1>3. TriesMatch' /\ AtMostTwicePerNode' /\ AssignedCoversDispatch'
  BY <1>1, RecordsKept
<1>4. VerdictIsRight'
  <2>1. \A i \in Jobs : ShardsOf(i)' = ShardsOf(i) /\ (Errors(i)' <=> Errors(i))
    BY <1>1, ErrorsKept
  <2> QED
    BY <2>1, <1>1 DEF Verdicts, VerdictIsRight
<1>5. SettledIsQuiet'
  BY <1>1 DEF Verdicts, SettledIsQuiet, Waiting
<1>6. OneTerminalEvent'
  BY <1>1 DEF Verdicts, OneTerminalEvent
<1> QED
  BY <1>2, <1>3, <1>4, <1>5, <1>6 DEF Verdicts

LEMMA NextVerdicts == SlotInvariant /\ Verdicts /\ [Next]_vars => Verdicts'
<1> SUFFICES ASSUME SlotInvariant, Verdicts, [Next]_vars PROVE Verdicts'
  OBVIOUS
<1>1. ASSUME NEW j \in Jobs, NEW k \in Kinds, NEW pin \in Pins \cup {NoNode},
             NEW count \in 1..MaxFanout, NEW reported \in Reports,
             Submit(j, k, pin, count, reported)
      PROVE  Verdicts'
  BY <1>1, SubmitVerdicts
<1>2. ASSUME NEW j \in Jobs, JobStep(j) PROVE Verdicts'
  BY <1>2, StartJobVerdicts, SettleVerdicts, CancelUnstartedVerdicts DEF JobStep
<1>3. ASSUME NEW s \in Shards, ShardStep(s) PROVE Verdicts'
  BY <1>3, NextSlots, ShardStepShape, ShardStepVerdicts
<1> QED
  BY <1>1, <1>2, <1>3, OutsideVerdicts DEF Next

-----------------------------------------------------------------------------
(* No shard sleeps beside a free permit. *)

Awake(n) ==
    permits[n] > 0 /\ Wakeable(n) # {} => \E t \in Waiting(n) : pc[t] = "granted"

\* Who waits is a shard that waits for that node.
LEMMA WaitersWait ==
  ASSUME SlotInvariant, NEW n \in Nodes, NEW t \in Waiting(n)
  PROVE  t \in Shards /\ node[t] = n /\ pc[t] \in {"queued", "granted"}
  BY DEF SlotInvariant, QueuesMatch, Waiting, TypeOK

\* At a node whose semaphore and whose waiters a step leaves alone, a
\* cancellation can only take a sleeper away.
LEMMA StaysAwake ==
  ASSUME NEW n \in Nodes, Awake(n), permits'[n] = permits[n], waiters'[n] = waiters[n],
         \A t \in Waiting(n) : /\ pc'[t] = pc[t]
                               /\ cancelled[JobOf(t)] => cancelled'[JobOf(t)]
  PROVE  Awake(n)'
<1>1. Waiting(n)' = Waiting(n)
  BY DEF Waiting
<1>2. Wakeable(n)' \subseteq Wakeable(n)
  BY <1>1 DEF Wakeable
<1> QED
  BY <1>1, <1>2 DEF Awake

\* What a release does at the other nodes: nothing.
LEMMA WakeUpElsewhere ==
  ASSUME SlotInvariant, NEW n \in Nodes, NEW s \in Shards, node[s] = n, NEW to, NEW freed,
         NEW most, WakeUp(n, s, to, freed, most)
  PROVE  \A m \in Nodes \ {n} :
            permits'[m] = permits[m] /\ \A t \in Waiting(m) : pc'[t] = pc[t]
<1>1. PICK woken \in SUBSET Wakeable(n) :
        /\ permits' = [permits EXCEPT ![n] = @ + freed - Cardinality(woken)]
        /\ pc' = [t \in Shards |-> IF t = s THEN to
                                   ELSE IF t \in woken THEN "granted" ELSE pc[t]]
  BY DEF WakeUp
<1>2. \A t \in woken : node[t] = n
  BY <1>1, WaitersWait DEF Wakeable
<1>3. permits \in [Nodes -> 0..PerNodeLimit]
  BY DEF SlotInvariant, TypeOK
<1>4. \A m \in Nodes \ {n} : \A t \in Waiting(m) : t \in Shards /\ t # s /\ t \notin woken
  BY <1>2, WaitersWait
<1> QED
  BY <1>1, <1>3, <1>4

\* The end of acquire() wakes everyone for whom there is a permit.
LEMMA LeaveQueueWakes ==
  ASSUME SlotInvariant, NEW n \in Nodes, NEW s \in Shards, node[s] = n,
         NEW to \in {"holding", "cancelled"}, NEW freed \in {0, 1},
         LeaveQueue(n, s, to, freed), s \in Waiting(n), UNCHANGED <<node, cancelled>>
  PROVE  Awake(n)'
<1>1. PICK woken \in SUBSET Wakeable(n) :
        /\ Cardinality(woken) =
              Smallest(Smallest(permits[n] + freed, permits[n] + freed),
                       Cardinality(Wakeable(n)))
        /\ permits' = [permits EXCEPT ![n] = @ + freed - Cardinality(woken)]
        /\ pc' = [t \in Shards |-> IF t = s THEN to
                                   ELSE IF t \in woken THEN "granted" ELSE pc[t]]
  BY DEF LeaveQueue, WakeUp
<1>2. \A t \in Wakeable(n) : t \in Shards /\ pc[t] = "queued"
  BY WaitersWait DEF Wakeable
<1>3. /\ IsFiniteSet(Wakeable(n)) /\ Cardinality(Wakeable(n)) \in Nat
      /\ Cardinality(woken) \in Nat
      /\ Cardinality(woken) = Cardinality(Wakeable(n)) => woken = Wakeable(n)
  <2>1. IsFiniteSet(Wakeable(n))
    BY <1>2, ShardsFinite, FS_Subset
  <2> QED
    BY <1>1, <2>1, FS_Subset, FS_CardinalityType
<1>4. permits \in [Nodes -> 0..PerNodeLimit] /\ permits[n] \in Nat
  BY BoundsAssumption DEF SlotInvariant, TypeOK
<1>5. permits'[n] = permits[n] + freed - Cardinality(woken)
  BY <1>1, <1>4
<1>6. Waiting(n)' \subseteq Waiting(n)
  <2>1. /\ waiters \in [Nodes -> Seq(Shards)] /\ waiters[n] \in Seq(Shards)
        /\ waiters'[n] = Without(waiters[n], s)
    BY DEF LeaveQueue, SlotInvariant, TypeOK
  <2>2. NoRepeats(waiters[n]) /\ s \in Members(waiters[n])
    BY DEF NoRepeats, Members, Waiting, SlotInvariant, QueuesMatch
  <2>3. Members(Without(waiters[n], s)) = Members(waiters[n]) \ {s}
    BY <2>1, <2>2, WithoutRemoves
  <2> QED
    BY <2>1, <2>3 DEF Members, Waiting
<1>7. ASSUME permits'[n] > 0 PROVE Wakeable(n)' = {}
  <2>1. Cardinality(woken) = Cardinality(Wakeable(n))
    BY <1>1, <1>3, <1>4, <1>5, <1>7 DEF Smallest
  <2>2. woken = Wakeable(n)
    BY <2>1, <1>3
  <2>3. ASSUME NEW t \in Wakeable(n)' PROVE FALSE
    <3>1. t \in Waiting(n) /\ pc'[t] = "queued" /\ ~cancelled[JobOf(t)] /\ t \in Shards
      BY <1>6, WaitersWait DEF Wakeable
    <3>2. t # s /\ t \notin woken /\ pc[t] = "queued"
      BY <3>1, <1>1
    <3>3. t \in Wakeable(n)
      BY <3>1, <3>2 DEF Wakeable
    <3> QED
      BY <2>2, <3>2, <3>3
  <2> QED
    BY <2>3
<1> QED
  BY <1>7 DEF Awake

\* release() wakes one, if anyone sleeps.
LEMMA ReleaseWakes ==
  ASSUME SlotInvariant, NEW n \in Nodes, NEW s \in Shards, node[s] = n,
         pc[s] \in {"holding", "posting"}, NEW to, to # "queued",
         Release(n, s, to), UNCHANGED <<waiters, cancelled>>
  PROVE  Awake(n)'
<1>1. PICK woken \in SUBSET Wakeable(n) :
        /\ Cardinality(woken) =
              Smallest(Smallest(permits[n] + 1, 1), Cardinality(Wakeable(n)))
        /\ pc' = [t \in Shards |-> IF t = s THEN to
                                   ELSE IF t \in woken THEN "granted" ELSE pc[t]]
  BY DEF Release, WakeUp
<1>2. \A t \in Waiting(n) : t \in Shards /\ t # s
  BY WaitersWait
<1>3. Waiting(n)' = Waiting(n)
  BY DEF Waiting
<1>4. CASE Wakeable(n) = {}
  <2>1. Wakeable(n)' = {}
    BY <1>1, <1>2, <1>3, <1>4 DEF Wakeable
  <2> QED
    BY <2>1 DEF Awake
<1>5. CASE Wakeable(n) # {}
  <2>1. permits[n] \in Nat
    BY BoundsAssumption DEF SlotInvariant, TypeOK
  <2>2. IsFiniteSet(Wakeable(n)) /\ Cardinality(Wakeable(n)) \in Nat \ {0}
    <3>1. IsFiniteSet(Wakeable(n))
      BY <1>2, ShardsFinite, FS_Subset DEF Wakeable
    <3> QED
      BY <3>1, <1>5, FS_CardinalityType, FS_EmptySet
  <2>3. Cardinality(woken) = 1
    BY <1>1, <2>1, <2>2 DEF Smallest
  <2>4. woken # {}
    BY <2>3, FS_EmptySet
  <2>5. PICK t \in woken : t \in Waiting(n) /\ t \in Shards /\ t # s
    BY <2>4, <1>1, <1>2 DEF Wakeable
  <2>6. pc'[t] = "granted"
    BY <2>5, <1>1
  <2> QED
    BY <2>5, <2>6, <1>3 DEF Awake
<1> QED
  BY <1>4, <1>5

LEMMA AcquireAwake ==
  ASSUME SlotInvariant, NoLostWakeup, NEW s \in Shards, Acquire(s)
  PROVE  NoLostWakeup'
<1>1. /\ pc[s] \in {"created", "acquire"} /\ UNCHANGED <<node, cancelled>>
      /\ pc \in [Shards -> PCs] /\ permits \in [Nodes -> 0..PerNodeLimit]
      /\ waiters \in [Nodes -> Seq(Shards)]
  BY DEF Acquire, jobVars, SlotInvariant, TypeOK
<1>2. PICK n \in Nodes : n = node[s]
  BY <1>1 DEF SlotInvariant, Placed
<1>3. \A m \in Nodes : Awake(m)
  BY DEF NoLostWakeup, Awake
<1>4. \A m \in Nodes : \A t \in Waiting(m) : t \in Shards /\ t # s
  BY <1>1, WaitersWait
<1>5. CASE Locked(n)
  <2>1. /\ waiters' = [waiters EXCEPT ![n] = Append(@, s)]
        /\ pc' = [pc EXCEPT ![s] = "queued"] /\ UNCHANGED permits
    BY <1>2, <1>5 DEF Acquire
  <2>2. ASSUME NEW m \in Nodes, m # n PROVE Awake(m)'
    <3>1. waiters'[m] = waiters[m] /\ \A t \in Waiting(m) : pc'[t] = pc[t]
      BY <2>1, <2>2, <1>1, <1>4
    <3> QED
      BY <3>1, <2>1, <1>1, <1>3, StaysAwake
  <2>3. ASSUME permits[n] # 0
        PROVE  \E t \in Waiting(n) : pc[t] = "granted"
    <3>1. permits[n] > 0
      BY <2>3, <1>1, <1>2, BoundsAssumption
    <3>2. PICK t \in Waiting(n) : pc[t] = "granted" \/ ~cancelled[JobOf(t)]
      BY <1>5, <2>3 DEF Locked
    <3>3. CASE pc[t] = "granted"
      BY <3>3
    <3>4. CASE pc[t] # "granted"
      <4>1. t \in Wakeable(n)
        BY <3>2, <3>4, <1>2, WaitersWait DEF Wakeable
      <4> QED
        BY <4>1, <3>1, <1>2, <1>3 DEF Awake
    <3> QED
      BY <3>3, <3>4
  <2>4. Waiting(n) \subseteq Waiting(n)'
    <3>1. waiters[n] \in Seq(Shards) /\ waiters'[n] = Append(waiters[n], s)
      BY <2>1, <1>1, <1>2
    <3>2. \A i \in DOMAIN waiters[n] :
             i \in DOMAIN waiters'[n] /\ waiters'[n][i] = waiters[n][i]
      BY <3>1
    <3> QED
      BY <3>2 DEF Waiting
  <2>5. Awake(n)'
    <3>1. \A t \in Waiting(n) : pc'[t] = pc[t]
      BY <2>1, <1>1, <1>2, <1>4
    <3>2. permits'[n] > 0 => permits[n] # 0
      BY <2>1, <1>1, <1>2
    <3> QED
      BY <2>3, <2>4, <3>1, <3>2 DEF Awake
  <2> QED
    BY <2>2, <2>5 DEF NoLostWakeup, Awake
<1>6. CASE ~Locked(n)
  <2>1. /\ permits' = [permits EXCEPT ![n] = @ - 1] /\ UNCHANGED waiters
        /\ pc' = [pc EXCEPT ![s] = "holding"]
    BY <1>2, <1>6 DEF Acquire
  <2>2. \A m \in Nodes : Waiting(m)' = Waiting(m) /\ \A t \in Waiting(m) : pc'[t] = pc[t]
    BY <2>1, <1>1, <1>4 DEF Waiting
  <2>3. ASSUME NEW m \in Nodes, m # n PROVE Awake(m)'
    <3>1. permits'[m] = permits[m]
      BY <2>1, <2>3, <1>1
    <3> QED
      BY <3>1, <2>1, <2>2, <1>1, <1>3, StaysAwake
  <2>4. Wakeable(n)' = {}
    <3>1. Wakeable(n) = {}
      BY <1>6 DEF Locked, Wakeable
    <3> QED
      BY <3>1, <2>2, <1>1, <1>2 DEF Wakeable
  <2>5. Awake(n)'
    BY <2>4 DEF Awake
  <2> QED
    BY <2>3, <2>5 DEF NoLostWakeup, Awake
<1> QED
  BY <1>5, <1>6

\* Leaving a queue, granted or cancelled.
LEMMA LeaveQueueAwake ==
  ASSUME SlotInvariant, NoLostWakeup, NEW s \in Shards, pc[s] \in {"queued", "granted"},
         NEW to \in {"holding", "cancelled"}, NEW freed \in {0, 1},
         LeaveQueue(node[s], s, to, freed), UNCHANGED <<node, cancelled>>
  PROVE  NoLostWakeup'
<1>1. PICK n \in Nodes : n = node[s] /\ s \in Waiting(n)
  BY DEF SlotInvariant, Placed, QueuesMatch
<1>2. Awake(n)'
  BY <1>1, LeaveQueueWakes
<1>3. ASSUME NEW m \in Nodes, m # n PROVE Awake(m)'
  <2>1. waiters \in [Nodes -> Seq(Shards)]
    BY DEF SlotInvariant, TypeOK
  <2>2. waiters'[m] = waiters[m]
    BY <1>1, <1>3, <2>1 DEF LeaveQueue
  <2>3. permits'[m] = permits[m] /\ \A t \in Waiting(m) : pc'[t] = pc[t]
    BY <1>1, <1>3, WakeUpElsewhere DEF LeaveQueue
  <2>4. Awake(m)
    BY DEF NoLostWakeup, Awake
  <2> QED
    BY <2>2, <2>3, <2>4, StaysAwake
<1> QED
  BY <1>2, <1>3 DEF NoLostWakeup, Awake

\* Giving a permit back.
LEMMA ReleaseAwake ==
  ASSUME SlotInvariant, NoLostWakeup, NEW s \in Shards, pc[s] \in {"holding", "posting"},
         NEW to, to # "queued", Release(node[s], s, to), UNCHANGED <<waiters, cancelled>>
  PROVE  NoLostWakeup'
<1>1. PICK n \in Nodes : n = node[s]
  BY DEF SlotInvariant, Placed
<1>2. Awake(n)'
  BY <1>1, ReleaseWakes
<1>3. ASSUME NEW m \in Nodes, m # n PROVE Awake(m)'
  <2>1. permits'[m] = permits[m] /\ \A t \in Waiting(m) : pc'[t] = pc[t]
    BY <1>1, <1>3, WakeUpElsewhere DEF Release
  <2>2. Awake(m)
    BY DEF NoLostWakeup, Awake
  <2> QED
    BY <2>1, <2>2, StaysAwake
<1> QED
  BY <1>2, <1>3 DEF NoLostWakeup, Awake

\* A step that leaves the semaphores and whoever waits for them alone.
LEMMA NobodyStirs ==
  ASSUME SlotInvariant, NoLostWakeup, UNCHANGED semVars,
         \A t \in Shards : pc[t] \in {"queued", "granted"} =>
             /\ pc'[t] = pc[t]
             /\ cancelled[JobOf(t)] => cancelled'[JobOf(t)]
  PROVE  NoLostWakeup'
<1>1. ASSUME NEW n \in Nodes PROVE Awake(n)'
  <2>1. Awake(n)
    BY DEF NoLostWakeup, Awake
  <2>2. \A t \in Waiting(n) : /\ pc'[t] = pc[t]
                              /\ cancelled[JobOf(t)] => cancelled'[JobOf(t)]
    BY WaitersWait
  <2> QED
    BY <2>1, <2>2, StaysAwake DEF semVars
<1> QED
  BY <1>1 DEF NoLostWakeup, Awake

LEMMA ShardStepAwake ==
  ASSUME SlotInvariant, NoLostWakeup, NEW s \in Shards, ShardStep(s)
  PROVE  NoLostWakeup'
<1>0. pc \in [Shards -> PCs]
  BY DEF SlotInvariant, TypeOK
<1>1. CASE Acquire(s)
  BY <1>1, AcquireAwake
<1>2. CASE Granted(s)
  BY <1>2, LeaveQueueAwake DEF Granted, jobVars
<1>3. CASE Dispatch(s)
  BY <1>0, <1>3, NobodyStirs DEF Dispatch, jobVars
<1>4. CASE Unavailable(s) \/ RequestFailed(s)
  <2> DEFINE to == IF attempt[s] = 0 THEN "acquire" ELSE "reassign"
  <2>1. /\ pc[s] \in {"holding", "posting"} /\ Release(node[s], s, to)
        /\ UNCHANGED <<waiters, cancelled>> /\ to # "queued"
    BY <1>4 DEF Unavailable, RequestFailed, AttemptFailed, jobVars
  <2> HIDE DEF to
  <2> QED
    BY <2>1, ReleaseAwake
<1>5. ASSUME NEW o \in {"ok", "failed"}, NEW m, RequestAnswered(s, o, m)
      PROVE  NoLostWakeup'
  BY <1>5, ReleaseAwake DEF RequestAnswered, jobVars
<1>6. ASSUME NEW reported, Reassign(s, reported) PROVE NoLostWakeup'
  BY <1>0, <1>6, NobodyStirs DEF Reassign
<1>7. CASE Exhausted(s)
  BY <1>0, <1>7, NobodyStirs DEF Exhausted, jobVars
<1>8. CASE CancelShard(s)
  <2>1. UNCHANGED <<node, cancelled>> /\ pc[s] \in {"created", "queued", "granted", "posting"}
    BY <1>8 DEF CancelShard, jobVars
  <2>2. CASE pc[s] = "created"
    BY <1>0, <1>8, <2>1, <2>2, NobodyStirs DEF CancelShard
  <2>3. CASE pc[s] = "queued"
    BY <1>8, <2>1, <2>3, LeaveQueueAwake DEF CancelShard
  <2>4. CASE pc[s] = "granted"
    BY <1>8, <2>1, <2>4, LeaveQueueAwake DEF CancelShard
  <2>5. CASE pc[s] = "posting"
    BY <1>8, <2>1, <2>5, ReleaseAwake DEF CancelShard
  <2> QED
    BY <2>1, <2>2, <2>3, <2>4, <2>5
<1> QED
  BY <1>1, <1>2, <1>3, <1>4, <1>5, <1>6, <1>7, <1>8 DEF ShardStep, RequestEnds

LEMMA NextAwake ==
  SlotInvariant /\ JobsMatch /\ NoLostWakeup /\ [Next]_vars => NoLostWakeup'
<1> SUFFICES ASSUME SlotInvariant, JobsMatch, NoLostWakeup, [Next]_vars
             PROVE  NoLostWakeup'
  OBVIOUS
<1>1. ASSUME NEW j \in Jobs, NEW k, NEW pin, NEW count, NEW reported,
             Submit(j, k, pin, count, reported)
      PROVE  NoLostWakeup'
  BY <1>1, NobodyStirs DEF Submit
<1>2. ASSUME NEW j \in Jobs, StartJob(j) PROVE NoLostWakeup'
  <2>1. \A t \in Shards : pc[t] # "none" => pc'[t] = pc[t]
    BY <1>2 DEF StartJob, MayStart, ShardsOf, SlotInvariant, Placed
  <2> QED
    BY <1>2, <2>1, NobodyStirs DEF StartJob
<1>3. ASSUME NEW j \in Jobs, FinishJob(j) \/ CancelUnstarted(j) \/ CancelJob(j)
      PROVE  NoLostWakeup'
  BY <1>3, NobodyStirs DEF FinishJob, CancelUnstarted, CancelJob, shardVars
<1>4. CASE Close
  <2>1. \A j \in Jobs : ~cancelled[j]
    BY <1>4 DEF Close, JobsMatch
  <2> QED
    BY <1>4, <2>1, NobodyStirs, ShardParts DEF Close, shardVars
<1>5. CASE (\E n \in Nodes : NodeUsable(n) \/ NodeLost(n)) \/ UNCHANGED vars
  BY <1>5, NobodyStirs DEF NodeUsable, NodeLost, vars, jobVars, shardVars
<1> QED
  BY <1>1, <1>2, <1>3, <1>4, <1>5, ShardStepAwake DEF Next, JobStep

-----------------------------------------------------------------------------
(* The theorems. *)

LEMMA InitOutcome == Init => OutcomeInvariant
<1>1. Init => NoLostWakeup
  BY DEF Init, NoLostWakeup, Wakeable, Waiting
<1> QED
  BY <1>1, InitVerdicts DEF Verdicts, OutcomeInvariant

LEMMA NextOutcome == SlotInvariant /\ OutcomeInvariant /\ [Next]_vars => OutcomeInvariant'
<1>1. OutcomeInvariant <=> Verdicts /\ NoLostWakeup
  BY DEF OutcomeInvariant, Verdicts
<1>2. OutcomeInvariant' <=> Verdicts' /\ NoLostWakeup'
  BY DEF OutcomeInvariant, Verdicts
<1>3. Verdicts => JobsMatch
  BY DEF Verdicts
<1> QED
  BY <1>1, <1>2, <1>3, NextVerdicts, NextAwake

\* Whatever nodes fail, refuse, come and go, whatever order shards run in and
\* whenever close() is called: the retries stay within their bounds, the job's
\* record names every node that got a part of it, its verdict is that of its
\* shards and is announced once, and no shard sleeps beside a free permit.
THEOREM OutcomeIsRight == Spec => []OutcomeInvariant
<1>1. SlotInvariant /\ OutcomeInvariant /\ [Next]_vars => OutcomeInvariant'
  BY NextOutcome
<1> QED
  BY <1>1, InitOutcome, SlotsAreOwned, PTL DEF Spec

\* _run_shard asks one node at most twice and never returns to one it gave up.
THEOREM RetriesAreBounded == Spec => []AtMostTwicePerNode
<1>1. OutcomeInvariant => AtMostTwicePerNode
  BY DEF OutcomeInvariant
<1> QED
  BY <1>1, OutcomeIsRight, PTL

\* The response's assigned_nodes names every node that was sent a shard.
THEOREM AssignedIsComplete == Spec => []AssignedCoversDispatch
<1>1. OutcomeInvariant => AssignedCoversDispatch
  BY DEF OutcomeInvariant
<1> QED
  BY <1>1, OutcomeIsRight, PTL

\* "done" and "failed" are what the shards' answers amount to (_run_job).
THEOREM VerdictsAreRight == Spec => []VerdictIsRight
<1>1. OutcomeInvariant => VerdictIsRight
  BY DEF OutcomeInvariant
<1> QED
  BY <1>1, OutcomeIsRight, PTL

\* A job that is over leaves nothing in a queue, with a permit or in a POST.
THEOREM SettledJobsAreQuiet == Spec => []SettledIsQuiet
<1>1. OutcomeInvariant => SettledIsQuiet
  BY DEF OutcomeInvariant
<1> QED
  BY <1>1, OutcomeIsRight, PTL

\* The feed announces a job's end once, as GET /jobs/{id} tells it.
THEOREM EndIsToldOnce == Spec => []OneTerminalEvent
<1>1. OutcomeInvariant => OneTerminalEvent
  BY DEF OutcomeInvariant
<1> QED
  BY <1>1, OutcomeIsRight, PTL

\* No shard sleeps beside a free permit, for any limit and any number of waiters.
THEOREM NobodyOversleeps == Spec => []NoLostWakeup
<1>1. OutcomeInvariant => NoLostWakeup
  BY DEF OutcomeInvariant
<1> QED
  BY <1>1, OutcomeIsRight, PTL

-----------------------------------------------------------------------------
(* The queue implements the ledger, step by step. *)

LEMMA LedgerInit == Init => Ledger!Init
  BY DEF Init, Ledger!Init

\* A step that touches no status and does not close is one the ledger does not see.
LEMMA LedgerStutters ==
  ASSUME UNCHANGED <<status, closed>>
  PROVE  UNCHANGED Ledger!vars
  BY DEF Ledger!vars

LEMMA LedgerStep ==
  ASSUME SlotInvariant, JobsMatch, [Next]_vars
  PROVE  [Ledger!Next]_(Ledger!vars)
<1> USE DEF Ledger!Move
<1>0. status \in [Jobs -> {"none", "queued", "running"} \cup Settled] /\ closed \in BOOLEAN
  BY DEF SlotInvariant, TypeOK
<1>1. ASSUME NEW j \in Jobs, NEW k, NEW pin, NEW count, NEW reported,
             Submit(j, k, pin, count, reported)
      PROVE  Ledger!Accept(j)
  BY <1>1 DEF Submit, Ledger!Accept
<1>2. ASSUME NEW j \in Jobs, StartJob(j) PROVE Ledger!Start(j)
  <2>1. ~closed
    BY <1>2 DEF StartJob, MayStart, JobsMatch
  <2> QED
    BY <1>2, <2>1 DEF StartJob, MayStart, Ledger!Start
<1>3. ASSUME NEW j \in Jobs, FinishJob(j) PROVE Ledger!Settle(j)
  <2>1. ~closed
    BY <1>3 DEF FinishJob, JobsMatch
  <2> QED
    BY <1>3, <2>1 DEF FinishJob, Ledger!Settle
<1>4. ASSUME NEW j \in Jobs, CancelJob(j) PROVE Ledger!Settle(j)
  BY <1>4 DEF CancelJob, Ledger!Settle
<1>5. CASE Close
  <2>1. Ledger!Shut
    BY <1>5 DEF Close, Ledger!Shut
  <2> QED
    BY <2>1 DEF Ledger!Next
<1>6. ASSUME NEW s \in Shards, ShardStep(s) PROVE UNCHANGED Ledger!vars
  BY <1>6, ShardStepShape, LedgerStutters DEF ShardMoves
<1>7. ASSUME NEW j \in Jobs, CancelUnstarted(j) PROVE UNCHANGED Ledger!vars
  BY <1>7, LedgerStutters DEF CancelUnstarted
<1>8. CASE (\E n \in Nodes : NodeUsable(n) \/ NodeLost(n)) \/ UNCHANGED vars
  BY <1>8, LedgerStutters DEF NodeUsable, NodeLost, vars, jobVars
<1> QED
  BY <1>1, <1>2, <1>3, <1>4, <1>5, <1>6, <1>7, <1>8 DEF Next, JobStep, Ledger!Next

\* To a caller of POST /jobs and GET /jobs/{id} the queue is its ledger: no job
\* is accepted or started after close(), none is settled twice or unsettled, and
\* "done" is only ever said before close().
THEOREM QueueKeepsTheLedger == Spec => Ledger!Safety
<1>1. OutcomeInvariant => JobsMatch
  BY DEF OutcomeInvariant
<1>2. SlotInvariant /\ JobsMatch /\ [Next]_vars => [Ledger!Next]_(Ledger!vars)
  BY LedgerStep
<1> QED
  BY <1>1, <1>2, LedgerInit, SlotsAreOwned, OutcomeIsRight, PTL DEF Spec, Ledger!Safety
=============================================================================
