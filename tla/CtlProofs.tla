------------------------------ MODULE CtlProofs ------------------------------
(***************************************************************************)
(* What is proved of the control plane's samples, of its feed and of the   *)
(* results of shards, for every value of the constants.                    *)
(***************************************************************************)
EXTENDS MCCtl, InductionFacts, SequenceTheorems

(***************************************************************************)
(* The samples ctl keeps                                                   *)
(***************************************************************************)

LEMMA SamplesNumbers ==
    /\ HistoryLimit \in Nat /\ HistoryLimit # 0 /\ MaxSamples \in Nat /\ MaxChurn \in Nat
    /\ Samples!Numbers = 1..MaxSamples
  BY CtlConstants DEF Samples!TelemetryAssumption, Samples!Numbers

\* A history within its limit, not empty, that ends in the sample.
LEMMA AppendedHistory ==
    ASSUME NEW S, NEW h \in Seq(S), NEW x \in S, NEW limit0 \in Nat, limit0 # 0, Len(h) <= limit0,
           NEW new, Len(h) = limit0 => new = Append(Tail(h), x),
           Len(h) # limit0 => new = Append(h, x)
    PROVE  new \in Seq(S) /\ Len(new) <= limit0 /\ new # <<>> /\ Samples!Last(new) = x
<1>0. PICK n \in Nat : n = Len(h) /\ n <= limit0
  BY LenProperties
<1>1. ASSUME NEW t \in Seq(S)
      PROVE  /\ Append(t, x) \in Seq(S) /\ Append(t, x) # <<>> /\ Len(Append(t, x)) = Len(t) + 1
             /\ Samples!Last(Append(t, x)) = x
  <2>1. /\ Append(t, x) \in Seq(S) /\ Append(t, x) # <<>> /\ Len(Append(t, x)) = Len(t) + 1
        /\ Append(t, x)[Len(Append(t, x))] = x
    BY <1>1, AppendProperties
  <2> QED BY <2>1 DEF Samples!Last
<1>2. CASE Len(h) = limit0
  <2>1. h # <<>>
    BY <1>0, <1>2, EmptySeq, LenProperties
  <2>2. Tail(h) \in Seq(S) /\ Len(Tail(h)) = n - 1
    BY <2>1, <1>0, HeadTailProperties
  <2>3. new = Append(Tail(h), x)
    BY <1>2
  <2>4. Len(new) = (n - 1) + 1
    BY <2>2, <2>3, <1>1
  <2>5. Len(new) <= limit0
    BY <2>4, <1>0
  <2>6. new \in Seq(S) /\ new # <<>> /\ Samples!Last(new) = x
    BY <2>2, <2>3, <1>1
  <2> QED BY <2>5, <2>6
<1>3. CASE Len(h) # limit0
  <2>3. new = Append(h, x)
    BY <1>3
  <2>4. Len(new) = n + 1
    BY <1>0, <2>3, <1>1
  <2>5. Len(new) <= limit0
    BY <2>4, <1>0, <1>3
  <2>6. new \in Seq(S) /\ new # <<>> /\ Samples!Last(new) = x
    BY <2>3, <1>1
  <2> QED BY <2>5, <2>6
<1> QED BY <1>2, <1>3

\* What the invariant says of latest and samples.
Kept(l, h) ==
    /\ l \in [Nodes -> 0..MaxSamples] /\ h \in [Nodes -> Seq(1..MaxSamples)]
    /\ \A n \in Nodes : Len(h[n]) <= HistoryLimit
    /\ \A n \in Nodes : /\ l[n] # 0 <=> h[n] # <<>>
                        /\ l[n] # 0 => l[n] = Samples!Last(h[n])

LEMMA RecordKeeps ==
    ASSUME NEW n \in Nodes, NEW x \in 1..MaxSamples, Kept(latest, samples), Samples!Record(n, x)
    PROVE  Kept(latest', samples')
<1> USE SamplesNumbers
<1>1. samples[n] \in Seq(1..MaxSamples) /\ Len(samples[n]) <= HistoryLimit
  BY DEF Kept
<1>0. PICK new : new = IF Len(samples[n]) = HistoryLimit THEN Append(Tail(samples[n]), x)
                       ELSE Append(samples[n], x)
  OBVIOUS
<1>2. new \in Seq(1..MaxSamples) /\ Len(new) <= HistoryLimit /\ new # <<>> /\ Samples!Last(new) = x
  <2> HIDE SamplesNumbers
  <2>1. PICK S, h, k : S = 1..MaxSamples /\ h = samples[n] /\ k = HistoryLimit
    OBVIOUS
  <2>2. h \in Seq(S) /\ x \in S /\ k \in Nat /\ k # 0 /\ Len(h) <= k
    BY <1>1, <2>1, SamplesNumbers
  <2>3. (Len(h) = k => new = Append(Tail(h), x)) /\ (Len(h) # k => new = Append(h, x))
    BY <1>0, <2>1
  <2>4. new \in Seq(S) /\ Len(new) <= k /\ new # <<>> /\ Samples!Last(new) = x
    BY <2>2, <2>3, AppendedHistory, Zenon
  <2> QED BY <2>1, <2>4
<1>3. samples' = [samples EXCEPT ![n] = new] /\ latest' = [latest EXCEPT ![n] = x]
  BY <1>0 DEF Samples!Record
<1>4. x # 0
  OBVIOUS
<1> QED BY <1>2, <1>3, <1>4 DEF Kept

LEMMA ForgetKeeps ==
    ASSUME NEW n \in Nodes, Kept(latest, samples), Samples!Forget(n)
    PROVE  Kept(latest', samples')
<1> USE SamplesNumbers
<1>1. <<>> \in Seq(1..MaxSamples) /\ Len(<<>>) = 0
  BY EmptySeq
<1>2. samples' = [samples EXCEPT ![n] = <<>>] /\ latest' = [latest EXCEPT ![n] = 0]
  BY DEF Samples!Forget, Samples!None
<1> QED BY <1>1, <1>2 DEF Kept

\* The rest of the invariant.
Polling ==
    /\ state \in [Nodes -> {"absent", "idle", "offline"}]
    /\ taken \in [Nodes -> 0..MaxSamples] /\ beat \in [Nodes -> 0..MaxSamples]
    /\ errors \subseteq Nodes \cup {"telemetry"}
    /\ task \in {"none", "sleeps", "polls", "records", "closed"} /\ polled \subseteq Nodes
    /\ reply \in [Nodes -> 0..(MaxSamples + 2)]
    /\ churn \in 0..MaxChurn
    /\ task \in {"polls", "records"} => \A n \in polled : reply[n] # 0
    /\ task = "records" => \A n \in polled : reply[n] # MaxSamples + 2

LEMMA SamplesParts == Samples!SamplesInvariant <=> Kept(latest, samples) /\ Polling
<1> USE SamplesNumbers
<1>1. Samples!Numbers \cup {Samples!None, Samples!Failed, Samples!Waiting} = 0..(MaxSamples + 2)
  BY DEF Samples!None, Samples!Failed, Samples!Waiting
<1> QED
  BY <1>1 DEF Samples!SamplesInvariant, Samples!TypeOK, Samples!FrameIsWhole,
     Samples!AnswersAreOfThisCycle, Kept, Polling, Samples!None, Samples!Waiting

LEMMA SamplesStart == Samples!Init => Samples!SamplesInvariant
<1> USE SamplesNumbers
<1> SUFFICES ASSUME Samples!Init PROVE Kept(latest, samples) /\ Polling
  BY SamplesParts
<1>1. <<>> \in Seq(1..MaxSamples) /\ Len(<<>>) = 0
  BY EmptySeq
<1>2. Kept(latest, samples)
  BY <1>1 DEF Samples!Init, Samples!None, Kept
<1>3. Polling
  BY DEF Samples!Init, Samples!None, Polling
<1> QED BY <1>2, <1>3

LEMMA SamplesSteps ==
    ASSUME Samples!SamplesInvariant, Samples!Next
    PROVE  Samples!SamplesInvariant'
<1> USE SamplesNumbers
<1>0. Kept(latest, samples) /\ Polling
  BY SamplesParts
<1> SUFFICES Kept(latest', samples') /\ Polling'
  <2>1. Samples!SamplesInvariant' <=> (Kept(latest, samples) /\ Polling)'
    BY SamplesParts, PTL
  <2> QED BY <2>1 DEF Kept
<1>1. CASE Samples!Start
  BY <1>0, <1>1 DEF Samples!Start, Polling
<1>2. CASE Samples!Close
  BY <1>0, <1>2 DEF Samples!Close, Samples!None, Polling
<1>3. CASE Samples!PollOnce
  BY <1>0, <1>3 DEF Samples!PollOnce, Samples!None, Samples!Waiting, Polling
<1>4. CASE Samples!Gathered
  BY <1>0, <1>4 DEF Samples!Gathered, Samples!Waiting, Polling
<1>5. CASE Samples!CycleEnds
  BY <1>0, <1>5 DEF Samples!CycleEnds, Samples!None, Samples!AfterError, Polling
<1>6. ASSUME NEW n \in Nodes, Samples!PollNode(n) PROVE Kept(latest', samples') /\ Polling'
  <2>1. PICK x \in 1..(MaxSamples + 1) : reply' = [reply EXCEPT ![n] = x]
    BY <1>0, <1>6 DEF Samples!PollNode, Samples!Failed, Polling
  <2>2. taken' \in [Nodes -> 0..MaxSamples] /\ task = "polls" /\ task' = task /\ polled' = polled
    BY <1>0, <1>6 DEF Samples!PollNode, Polling
  <2>3. reply' \in [Nodes -> 0..(MaxSamples + 2)] /\ \A m \in polled : reply'[m] # 0
    BY <1>0, <2>1, <2>2 DEF Polling
  <2> QED BY <1>0, <1>6, <2>2, <2>3 DEF Samples!PollNode, Polling
<1>7. ASSUME NEW n \in Nodes, Samples!RecordPoll(n) PROVE Kept(latest', samples') /\ Polling'
  <2>1. Polling'
    BY <1>0, <1>7 DEF Samples!RecordPoll, Polling
  <2>2. CASE reply[n] = Samples!Failed /\ UNCHANGED <<latest, samples>>
    BY <1>0, <2>1, <2>2
  <2>3. CASE reply[n] # Samples!Failed /\ Samples!Record(n, reply[n])
    <3>1. reply[n] \in 1..MaxSamples
      BY <1>0, <1>7, <2>3 DEF Samples!RecordPoll, Polling, Samples!Failed
    <3> QED BY <1>0, <2>1, <2>3, <3>1, RecordKeeps
  <2> QED BY <1>7, <2>2, <2>3 DEF Samples!RecordPoll
<1>8. ASSUME NEW n \in Nodes, Samples!Sample(n) PROVE Kept(latest', samples') /\ Polling'
  BY <1>0, <1>8 DEF Samples!Sample, Samples!None, Polling
<1>9. ASSUME NEW n \in Nodes, Samples!Heartbeat(n) PROVE Kept(latest', samples') /\ Polling'
  <2>1. Polling'
    <3>1. state' \in [Nodes -> {"absent", "idle", "offline"}]
      <4>1. state' = state \/ state' = [state EXCEPT ![n] = "idle"]
        BY <1>9 DEF Samples!Heartbeat
      <4> QED BY <1>0, <4>1 DEF Polling
    <3>2. beat' \in [Nodes -> 0..MaxSamples]
      BY <1>0, <1>9 DEF Samples!Heartbeat, Polling, Samples!None
    <3> QED BY <1>0, <1>9, <3>1, <3>2 DEF Samples!Heartbeat, Polling
  <2>2. CASE UNCHANGED <<latest, samples>>
    BY <1>0, <2>1, <2>2
  <2>3. CASE Samples!Record(n, beat[n])
    <3>1. beat[n] \in 1..MaxSamples
      BY <1>0, <1>9 DEF Samples!Heartbeat, Polling, Samples!None
    <3> QED BY <1>0, <2>1, <2>3, <3>1, RecordKeeps
  <2> QED BY <1>9, <2>2, <2>3 DEF Samples!Heartbeat
<1>10. ASSUME NEW n \in Nodes, Samples!Change(n) PROVE Kept(latest', samples') /\ Polling'
  <2>1. Polling'
    <3>1. state' \in [Nodes -> {"absent", "idle", "offline"}]
      <4>1. PICK x \in {"absent", "idle", "offline"} : state' = [state EXCEPT ![n] = x]
        BY <1>10 DEF Samples!Change
      <4> QED BY <1>0, <4>1 DEF Polling
    <3>2. errors' \subseteq Nodes \cup {"telemetry"} /\ churn' \in 0..MaxChurn
      BY <1>0, <1>10 DEF Samples!Change, Polling
    <3> QED BY <1>0, <1>10, <3>1, <3>2 DEF Samples!Change, Polling
  <2>2. CASE UNCHANGED <<latest, samples>>
    BY <1>0, <2>1, <2>2
  <2>3. CASE Samples!Forget(n)
    BY <1>0, <2>1, <2>3, ForgetKeeps
  <2> QED BY <1>10, <2>2, <2>3 DEF Samples!Change
<1> QED
  BY <1>1, <1>2, <1>3, <1>4, <1>5, <1>6, <1>7, <1>8, <1>9, <1>10 DEF Samples!Next, Samples!Poll

(***************************************************************************)
(* The feed.  What is proved of it does not depend on which of the two     *)
(* instances runs: both take steps of the one where nodes may be removed   *)
(* and the job may be submitted anywhere.                                  *)
(***************************************************************************)
AnyFeed == INSTANCE Feed WITH Removals <- TRUE, Submits <- BOOLEAN

LEMMA FeedNumbers == MaxChanges \in Nat /\ MaxDrops \in Nat /\ MaxRefresh \in Nat
  BY CtlConstants DEF NodeFeed!FeedAssumption

\* OnTheirWay of the first n frames of a sequence.
Way(c, n, type, first, last) ==
    /\ first <= last + 1
    /\ \A i \in 1..n : c[i].type = type => c[i].content.sequence \in first..last
    /\ \A s \in first..last : \E i \in 1..n : c[i].type = type /\ c[i].content.sequence = s
    /\ \A i, j \in 1..n : c[i].type = type /\ c[j].type = type /\ i < j =>
          c[i].content.sequence < c[j].content.sequence

LEMMA WayIs ==
    ASSUME NEW type, NEW a, NEW b, NEW n \in Nat, DOMAIN channel = 1..n
    PROVE  AnyFeed!OnTheirWay(type, a, b) <=> Way(channel, n, type, a, b)
  BY DEF AnyFeed!OnTheirWay, Way

LEMMA WayOfNothing ==
    ASSUME NEW c, NEW type, NEW a \in Nat, NEW b \in Nat, a = b + 1
    PROVE  Way(c, 0, type, a, b)
  BY DEF Way

\* More frames that are not of this type.
LEMMA WayOfOthers ==
    ASSUME NEW c, NEW d, NEW n \in Nat, NEW m \in Nat, NEW type, NEW a, NEW b, n <= m,
           Way(c, n, type, a, b), \A i \in 1..n : d[i] = c[i],
           \A i \in (n + 1)..m : d[i].type # type
    PROVE  Way(d, m, type, a, b)
<1>1. \A i \in 1..m : d[i].type = type => i \in 1..n /\ d[i] = c[i]
  OBVIOUS
<1>2. 1..n \subseteq 1..m
  OBVIOUS
<1>3. \A i \in 1..m : d[i].type = type => d[i].content.sequence \in a..b
  BY <1>1 DEF Way
<1>4. ASSUME NEW s \in a..b
      PROVE  \E i \in 1..m : d[i].type = type /\ d[i].content.sequence = s
  <2>1. PICK i \in 1..n : c[i].type = type /\ c[i].content.sequence = s
    BY DEF Way
  <2> QED BY <2>1, <1>2
<1>5. ASSUME NEW i \in 1..m, NEW j \in 1..m, d[i].type = type, d[j].type = type, i < j
      PROVE  d[i].content.sequence < d[j].content.sequence
  <2>1. i \in 1..n /\ j \in 1..n /\ d[i] = c[i] /\ d[j] = c[j]
    BY <1>1, <1>5
  <2> QED BY <2>1, <1>5 DEF Way
<1> QED BY <1>3, <1>4, <1>5 DEF Way

\* The next events of this type.
LEMMA WayOfMore ==
    ASSUME NEW c, NEW d, NEW n \in Nat, NEW k \in Nat, NEW type, NEW a \in Nat, NEW b \in Nat,
           Way(c, n, type, a, b), \A i \in 1..n : d[i] = c[i],
           \A i \in 1..k : d[n + i].type = type /\ d[n + i].content.sequence = b + i
    PROVE  Way(d, n + k, type, a, b + k)
<1>0. a <= b + 1 /\ a <= b + k + 1
  BY DEF Way
<1>1. \A i \in 1..n : d[i].type = type => d[i].content.sequence \in a..b
  BY DEF Way
<1>2. ASSUME NEW i \in (n + 1)..(n + k)
      PROVE  d[i].type = type /\ d[i].content.sequence = b + (i - n)
  <2>1. i - n \in 1..k /\ n + (i - n) = i
    OBVIOUS
  <2> QED BY <2>1
<1>3. ASSUME NEW i \in 1..(n + k), d[i].type = type PROVE d[i].content.sequence \in a..(b + k)
  <2>1. CASE i \in 1..n
    <3>1. PICK s \in a..b : s = d[i].content.sequence
      BY <1>1, <1>3, <2>1
    <3>2. s \in a..(b + k)
      OBVIOUS
    <3> QED BY <3>1, <3>2
  <2>2. CASE i \in (n + 1)..(n + k)
    <3>1. d[i].content.sequence = b + (i - n)
      BY <1>2, <2>2
    <3>2. b + (i - n) \in a..(b + k)
      BY <1>0, <2>2
    <3> QED BY <3>1, <3>2
  <2> QED BY <2>1, <2>2
<1>4. ASSUME NEW s \in a..(b + k)
      PROVE  \E i \in 1..(n + k) : d[i].type = type /\ d[i].content.sequence = s
  <2>1. CASE s <= b
    <3>1. s \in a..b
      BY <2>1
    <3>2. PICK i \in 1..n : c[i].type = type /\ c[i].content.sequence = s
      BY <3>1 DEF Way
    <3>3. i \in 1..(n + k) /\ d[i] = c[i]
      OBVIOUS
    <3> QED BY <3>2, <3>3
  <2>2. CASE s > b
    <3>1. n + (s - b) \in (n + 1)..(n + k) /\ n + (s - b) \in 1..(n + k) /\ s - b \in 1..k
      BY <2>2
    <3>2. d[n + (s - b)].type = type /\ d[n + (s - b)].content.sequence = b + (s - b)
      BY <3>1
    <3>3. b + (s - b) = s
      OBVIOUS
    <3> QED BY <3>1, <3>2, <3>3
  <2> QED BY <2>1, <2>2
<1>5. ASSUME NEW i \in 1..(n + k), NEW j \in 1..(n + k), d[i].type = type, d[j].type = type, i < j
      PROVE  d[i].content.sequence < d[j].content.sequence
  <2>1. CASE j \in 1..n
    <3>1. i \in 1..n /\ d[i] = c[i] /\ d[j] = c[j]
      BY <1>5, <2>1
    <3> QED BY <3>1, <2>1, <1>5 DEF Way
  <2>2. CASE j \in (n + 1)..(n + k) /\ i \in 1..n
    <3>1. PICK s \in a..b : s = d[i].content.sequence
      BY <1>1, <1>5, <2>2
    <3>2. d[j].content.sequence = b + (j - n)
      BY <1>2, <2>2
    <3>3. s < b + (j - n)
      BY <2>2
    <3> QED BY <3>1, <3>2, <3>3
  <2>3. CASE j \in (n + 1)..(n + k) /\ i \in (n + 1)..(n + k)
    <3>1. d[i].content.sequence = b + (i - n) /\ d[j].content.sequence = b + (j - n)
      BY <1>2, <2>3
    <3> QED BY <3>1, <1>5, <2>3
  <2> QED BY <2>1, <2>2, <2>3
<1> QED BY <1>0, <1>3, <1>4, <1>5 DEF Way

\* The first frame is gone.
LEMMA WayOfTail ==
    ASSUME NEW c, NEW d, NEW n \in Nat, n # 0, NEW type, NEW a \in Nat, NEW b \in Nat,
           Way(c, n, type, a, b), \A i \in 1..(n - 1) : d[i] = c[i + 1]
    PROVE  /\ c[1].type # type => Way(d, n - 1, type, a, b)
           /\ c[1].type = type => c[1].content.sequence = a /\ a <= b /\ Way(d, n - 1, type, a + 1, b)
<1>0. ASSUME NEW i \in 1..(n - 1) PROVE d[i] = c[i + 1] /\ i + 1 \in 1..n /\ 1 < i + 1 /\ 1 \in 1..n
  OBVIOUS
<1>1. ASSUME NEW i \in 1..(n - 1), d[i].type = type PROVE d[i].content.sequence \in a..b
  BY <1>0, <1>1 DEF Way
<1>2. ASSUME NEW i \in 1..(n - 1), NEW j \in 1..(n - 1), d[i].type = type, d[j].type = type, i < j
      PROVE  d[i].content.sequence < d[j].content.sequence
  <2>1. d[i] = c[i + 1] /\ i + 1 \in 1..n /\ d[j] = c[j + 1] /\ j + 1 \in 1..n /\ i + 1 < j + 1
    BY <1>0, <1>2
  <2> QED BY <2>1, <1>2 DEF Way
<1>3. ASSUME NEW s \in a..b, ~(c[1].type = type /\ c[1].content.sequence = s)
      PROVE  \E i \in 1..(n - 1) : d[i].type = type /\ d[i].content.sequence = s
  <2>1. PICK j \in 1..n : c[j].type = type /\ c[j].content.sequence = s
    BY DEF Way
  <2>2. j # 1
    BY <1>3, <2>1
  <2>3. j - 1 \in 1..(n - 1) /\ (j - 1) + 1 = j
    BY <2>2
  <2>4. d[j - 1] = c[j]
    BY <2>3
  <2> QED BY <2>1, <2>3, <2>4
<1>4. CASE c[1].type # type
  BY <1>1, <1>2, <1>3, <1>4 DEF Way
<1>5. CASE c[1].type = type
  <2>1. PICK q \in a..b : q = c[1].content.sequence
    BY <1>5 DEF Way
  <2>2. a \in a..b /\ a <= b
    BY <2>1
  <2>3. q = a
    <3>1. PICK j \in 1..n : c[j].type = type /\ c[j].content.sequence = a
      BY <2>2 DEF Way
    <3>2. CASE j = 1
      BY <3>1, <3>2, <2>1
    <3>3. CASE j # 1
      <4>1. 1 < j /\ 1 \in 1..n
        BY <3>3
      <4>2. q < a
        BY <4>1, <3>1, <2>1, <1>5 DEF Way
      <4> QED BY <4>2, <2>1
    <3> QED BY <3>2, <3>3
  <2>4. ASSUME NEW i \in 1..(n - 1), d[i].type = type PROVE d[i].content.sequence \in (a + 1)..b
    <3>1. PICK s \in a..b : s = d[i].content.sequence
      BY <1>1, <2>4
    <3>2. q < s
      <4>1. c[i + 1].type = type /\ c[i + 1].content.sequence = s /\ i + 1 \in 1..n /\ 1 < i + 1 /\ 1 \in 1..n
        BY <1>0, <2>4, <3>1
      <4> QED BY <4>1, <1>5, <2>1 DEF Way
    <3>3. s \in (a + 1)..b
      BY <3>2, <2>3
    <3> QED BY <3>1, <3>3
  <2>5. ASSUME NEW s \in (a + 1)..b
        PROVE  \E i \in 1..(n - 1) : d[i].type = type /\ d[i].content.sequence = s
    <3>1. s \in a..b /\ s # q
      BY <2>3
    <3> QED BY <3>1, <2>1, <1>3
  <2> QED BY <1>5, <2>1, <2>2, <2>3, <2>4, <2>5, <1>2 DEF Way
<1> QED BY <1>4, <1>5

\* The channel and the places in the two histories.
Flows(c, cyc, g, registry, queue) ==
    /\ c \in Seq(AnyFeed!Frames)
    /\ cyc \in {"closed", "opens"} => c = <<>>
    /\ cyc = "opens" => g.registry = 0 /\ g.queue = 0
    /\ cyc \notin {"closed", "opens"} =>
          /\ Way(c, Len(c), "registry", g.registry + 1, registry)
          /\ Way(c, Len(c), "queue", g.queue + 1, queue)

LEMMA FeedParts ==
    AnyFeed!FeedInvariant <=>
        /\ AnyFeed!TypeOK /\ (job = "absent" => jobEvents = <<>>)
        /\ Flows(channel, cycle, got, lastRegistry, lastQueue)
<1>1. ASSUME channel \in Seq(AnyFeed!Frames)
      PROVE  /\ AnyFeed!OnTheirWay("registry", got.registry + 1, lastRegistry)
                    <=> Way(channel, Len(channel), "registry", got.registry + 1, lastRegistry)
             /\ AnyFeed!OnTheirWay("queue", got.queue + 1, lastQueue)
                    <=> Way(channel, Len(channel), "queue", got.queue + 1, lastQueue)
  <2>1. Len(channel) \in Nat /\ DOMAIN channel = 1..Len(channel)
    BY <1>1, LenProperties
  <2> QED BY <2>1, WayIs
<1> QED
  BY <1>1 DEF AnyFeed!FeedInvariant, AnyFeed!NothingIsSkipped, Flows

LEMMA FeedPartsNext ==
    AnyFeed!FeedInvariant' <=>
        /\ AnyFeed!TypeOK' /\ (job' = "absent" => jobEvents' = <<>>)
        /\ Flows(channel', cycle', got', lastRegistry', lastQueue')
<1>1. AnyFeed!FeedInvariant' <=>
        (/\ AnyFeed!TypeOK /\ (job = "absent" => jobEvents = <<>>)
         /\ Flows(channel, cycle, got, lastRegistry, lastQueue))'
  BY FeedParts, PTL
<1> QED BY <1>1 DEF Flows, Way

\* The lengths of the histories, as numbers.
LEMMA FeedLengths ==
    ASSUME AnyFeed!TypeOK
    PROVE  /\ events \in Seq(Nodes) /\ jobEvents \in Seq(AnyFeed!Status)
           /\ Len(events) \in Nat /\ Len(jobEvents) \in Nat
           /\ lastRegistry \in Nat /\ lastQueue \in Nat
           /\ lastRegistry <= Len(events) /\ lastQueue <= Len(jobEvents)
           /\ got.registry \in Nat /\ got.queue \in Nat
           /\ got.registry <= Len(events) /\ got.queue <= Len(jobEvents)
           /\ got = [registry |-> got.registry, queue |-> got.queue]
<1>1. events \in Seq(Nodes) /\ jobEvents \in Seq(AnyFeed!Status)
  BY DEF AnyFeed!TypeOK
<1>2. PICK k \in Nat, m \in Nat : k = Len(events) /\ m = Len(jobEvents)
  BY <1>1, LenProperties
<1>3. lastRegistry \in 0..k /\ lastQueue \in 0..m /\ got \in [registry : 0..k, queue : 0..m]
  BY <1>2 DEF AnyFeed!TypeOK
<1> QED BY <1>1, <1>2, <1>3

\* Longer histories keep the places in their range.
LEMMA PlacesKept ==
    ASSUME NEW k \in Nat, NEW m \in Nat, NEW r \in Nat, NEW q \in Nat,
           NEW gr \in Nat, NEW gq \in Nat, r <= k, q <= m, gr <= k, gq <= m
    PROVE  r \in 0..k /\ q \in 0..m /\ [registry |-> gr, queue |-> gq] \in [registry : 0..k, queue : 0..m]
  OBVIOUS

LEMMA FeedStart == NodeFeed!Init => AnyFeed!FeedInvariant
<1> SUFFICES ASSUME NodeFeed!Init PROVE AnyFeed!FeedInvariant
  OBVIOUS
<1> USE FeedNumbers
<1>1. <<>> \in Seq(Nodes) /\ <<>> \in Seq(AnyFeed!Status) /\ <<>> \in Seq(AnyFeed!Frames) /\ Len(<<>>) = 0
  BY EmptySeq
<1>2. AnyFeed!TypeOK
  BY <1>1 DEF NodeFeed!Init, NodeFeed!Nothing, NodeFeed!NoNode, AnyFeed!TypeOK, AnyFeed!NoNode,
     AnyFeed!Status, AnyFeed!JobStates, AnyFeed!States
<1>3. Flows(channel, cycle, got, lastRegistry, lastQueue) /\ jobEvents = <<>>
  BY <1>1 DEF NodeFeed!Init, Flows
<1> QED BY <1>2, <1>3, FeedParts

\* Steps of the control plane: longer histories.
LEMMA HistoryGrows ==
    ASSUME AnyFeed!FeedInvariant,
           (\E n \in Nodes : AnyFeed!Change(n)) \/ AnyFeed!Submit \/ AnyFeed!Advance
    PROVE  AnyFeed!FeedInvariant'
<1> USE FeedNumbers
<1>0. AnyFeed!TypeOK /\ (job = "absent" => jobEvents = <<>>)
      /\ Flows(channel, cycle, got, lastRegistry, lastQueue)
  BY FeedParts
<1>1. UNCHANGED <<channel, cycle, lastTopology, lastRegistry, lastQueue, nodes, shown, jobsRef, got, drops,
                  refreshes>>
  BY DEF AnyFeed!Change, AnyFeed!Submit, AnyFeed!Advance, AnyFeed!sender, AnyFeed!dashboard, AnyFeed!bounds
<1>2. Flows(channel', cycle', got', lastRegistry', lastQueue')
  BY <1>0, <1>1
<1>3. events' \in Seq(Nodes) /\ Len(events') \in Nat /\ Len(events) <= Len(events')
  <2>1. events' = events \/ \E n \in Nodes : events' = Append(events, n)
    BY DEF AnyFeed!Change, AnyFeed!Submit, AnyFeed!Advance
  <2>2. CASE events' = events
    BY <2>2, <1>0, FeedLengths
  <2>3. ASSUME NEW n \in Nodes, events' = Append(events, n)
        PROVE  events' \in Seq(Nodes) /\ Len(events') \in Nat /\ Len(events) <= Len(events')
    <3>1. events \in Seq(Nodes) /\ Len(events) \in Nat
      BY <1>0, FeedLengths
    <3>2. events' \in Seq(Nodes) /\ Len(events') = Len(events) + 1
      BY <3>1, <2>3, AppendProperties
    <3> QED BY <3>1, <3>2
  <2> QED BY <2>1, <2>2, <2>3
<1>4. jobEvents' \in Seq(AnyFeed!Status) /\ Len(jobEvents') \in Nat /\ Len(jobEvents) <= Len(jobEvents')
  <2>1. \/ jobEvents' = jobEvents
        \/ jobEvents = <<>> /\ jobEvents' = <<"queued">>
        \/ \E x \in AnyFeed!Status : jobEvents' = Append(jobEvents, x)
    BY <1>0 DEF AnyFeed!Change, AnyFeed!Submit, AnyFeed!Advance, AnyFeed!Status
  <2>2. CASE jobEvents' = jobEvents
    BY <2>2, <1>0, FeedLengths
  <2>3. CASE jobEvents = <<>> /\ jobEvents' = <<"queued">>
    <3>1. "queued" \in AnyFeed!Status
      BY DEF AnyFeed!Status
    <3>2. <<"queued">> \in Seq(AnyFeed!Status) /\ Len(<<"queued">>) = 1 /\ Len(<<>>) = 0
      BY <3>1
    <3> QED BY <2>3, <3>2
  <2>4. ASSUME NEW x \in AnyFeed!Status, jobEvents' = Append(jobEvents, x)
        PROVE  jobEvents' \in Seq(AnyFeed!Status) /\ Len(jobEvents') \in Nat /\ Len(jobEvents) <= Len(jobEvents')
    <3>1. jobEvents \in Seq(AnyFeed!Status) /\ Len(jobEvents) \in Nat
      BY <1>0, FeedLengths
    <3>2. jobEvents' \in Seq(AnyFeed!Status) /\ Len(jobEvents') = Len(jobEvents) + 1
      BY <3>1, <2>4, AppendProperties
    <3> QED BY <3>1, <3>2
  <2> QED BY <2>1, <2>2, <2>3, <2>4
<1>5. /\ lastRegistry' \in 0..Len(events') /\ lastQueue' \in 0..Len(jobEvents')
      /\ got' \in [registry : 0..Len(events'), queue : 0..Len(jobEvents')]
  <2>1. PICK k \in Nat, m \in Nat, k2 \in Nat, m2 \in Nat :
            /\ k = Len(events) /\ m = Len(jobEvents) /\ k2 = Len(events') /\ m2 = Len(jobEvents')
            /\ k <= k2 /\ m <= m2
    BY <1>0, <1>3, <1>4, FeedLengths
  <2>2. PICK gr \in Nat, gq \in Nat : got = [registry |-> gr, queue |-> gq] /\ gr <= k /\ gq <= m
    BY <1>0, <2>1, FeedLengths
  <2>3. lastRegistry \in Nat /\ lastQueue \in Nat /\ lastRegistry <= k /\ lastQueue <= m
    BY <1>0, <2>1, FeedLengths
  <2>4. /\ lastRegistry \in 0..k2 /\ lastQueue \in 0..m2 /\ got \in [registry : 0..k2, queue : 0..m2]
    BY <2>1, <2>2, <2>3, PlacesKept
  <2> QED BY <2>1, <2>4, <1>1
<1>6. /\ members' \in [Nodes -> AnyFeed!States \cup {AnyFeed!NoNode}] /\ job' \in AnyFeed!JobStates
      /\ fetch' \in [Slots -> {"none", "asked"} \cup AnyFeed!Status] /\ changes' \in 0..MaxChanges
  <2>0. /\ {"idle", "offline"} \subseteq AnyFeed!States /\ {"queued", "running", "done"} \subseteq AnyFeed!Status
        /\ {"queued", "running", "done"} \subseteq AnyFeed!JobStates
    BY DEF AnyFeed!States, AnyFeed!Status, AnyFeed!JobStates
  <2>1. members' \in [Nodes -> AnyFeed!States \cup {AnyFeed!NoNode}]
    <3>1. members' = members \/ \E n \in Nodes, x \in AnyFeed!States \cup {AnyFeed!NoNode} :
                                    members' = [members EXCEPT ![n] = x]
      BY <2>0 DEF AnyFeed!Change, AnyFeed!Submit, AnyFeed!Advance
    <3>2. members \in [Nodes -> AnyFeed!States \cup {AnyFeed!NoNode}]
      BY <1>0 DEF AnyFeed!TypeOK
    <3> QED BY <3>1, <3>2
  <2>2. job' \in AnyFeed!JobStates
    BY <1>0, <2>0 DEF AnyFeed!Change, AnyFeed!Submit, AnyFeed!Advance, AnyFeed!TypeOK
  <2>3. fetch' \in [Slots -> {"none", "asked"} \cup AnyFeed!Status]
    <3>1. fetch' = fetch \/ \E s \in Slots : fetch' = [fetch EXCEPT ![s] = "queued"]
      BY DEF AnyFeed!Change, AnyFeed!Submit, AnyFeed!Advance, AnyFeed!dashboard
    <3>2. fetch \in [Slots -> {"none", "asked"} \cup AnyFeed!Status]
      BY <1>0 DEF AnyFeed!TypeOK
    <3> QED BY <2>0, <3>1, <3>2
  <2>4. changes' \in 0..MaxChanges
    <3>1. changes \in 0..MaxChanges
      BY <1>0 DEF AnyFeed!TypeOK
    <3>2. changes' = changes \/ (changes < MaxChanges /\ changes' = changes + 1)
      BY DEF AnyFeed!Change, AnyFeed!Submit, AnyFeed!Advance, AnyFeed!bounds
    <3> QED BY <3>1, <3>2
  <2> QED BY <2>1, <2>2, <2>3, <2>4
<1>7. AnyFeed!TypeOK'
  BY <1>0, <1>1, <1>3, <1>4, <1>5, <1>6 DEF AnyFeed!TypeOK
<1>8. job' = "absent" => jobEvents' = <<>>
  BY <1>0 DEF AnyFeed!Change, AnyFeed!Submit, AnyFeed!Advance
<1> QED BY <1>2, <1>7, <1>8, FeedPartsNext

\* Renders and requests of the dashboard for the job.
LEMMA RequestsKeep ==
    ASSUME AnyFeed!FeedInvariant,
           \/ AnyFeed!Render \/ AnyFeed!RefreshStale
           \/ \E s \in Slots : AnyFeed!ServeJob(s) \/ AnyFeed!JobArrives(s) \/ AnyFeed!FetchFails(s)
    PROVE  AnyFeed!FeedInvariant'
<1> USE FeedNumbers
<1>0. AnyFeed!TypeOK /\ (job = "absent" => jobEvents = <<>>)
      /\ Flows(channel, cycle, got, lastRegistry, lastQueue)
  BY FeedParts
<1>1. UNCHANGED <<members, events, job, jobEvents, channel, cycle, lastTopology, lastRegistry, lastQueue,
                  nodes, got, changes, refreshes>>
  BY DEF AnyFeed!Render, AnyFeed!RefreshStale, AnyFeed!ServeJob, AnyFeed!JobArrives, AnyFeed!FetchFails,
     AnyFeed!ctl, AnyFeed!sender, AnyFeed!bounds
<1>2. job \in AnyFeed!JobStates /\ shown \in AnyFeed!Status /\ jobsRef \in AnyFeed!Status
      /\ fetch \in [Slots -> {"none", "asked"} \cup AnyFeed!Status]
  BY <1>0 DEF AnyFeed!TypeOK
<1>3. shown' \in AnyFeed!Status /\ jobsRef' \in AnyFeed!Status
      /\ fetch' \in [Slots -> {"none", "asked"} \cup AnyFeed!Status]
  <2>1. CASE AnyFeed!Render
    BY <1>2, <2>1 DEF AnyFeed!Render
  <2>2. CASE AnyFeed!RefreshStale
    BY <1>2, <2>2 DEF AnyFeed!RefreshStale, AnyFeed!Ask
  <2>3. ASSUME NEW s \in Slots, AnyFeed!ServeJob(s)
        PROVE  shown' \in AnyFeed!Status /\ jobsRef' \in AnyFeed!Status
               /\ fetch' \in [Slots -> {"none", "asked"} \cup AnyFeed!Status]
    <3>1. PICK x : x = IF job = "forgotten" THEN "absent" ELSE job
      OBVIOUS
    <3>2. x \in AnyFeed!Status
      BY <1>2, <3>1 DEF AnyFeed!JobStates, AnyFeed!Status
    <3>3. fetch' = [fetch EXCEPT ![s] = x] /\ shown' = shown /\ jobsRef' = jobsRef
      BY <2>3, <3>1 DEF AnyFeed!ServeJob
    <3> QED BY <1>2, <3>2, <3>3
  <2>4. ASSUME NEW s \in Slots, AnyFeed!JobArrives(s)
        PROVE  shown' \in AnyFeed!Status /\ jobsRef' \in AnyFeed!Status
               /\ fetch' \in [Slots -> {"none", "asked"} \cup AnyFeed!Status]
    BY <1>2, <2>4 DEF AnyFeed!JobArrives
  <2>5. ASSUME NEW s \in Slots, AnyFeed!FetchFails(s)
        PROVE  shown' \in AnyFeed!Status /\ jobsRef' \in AnyFeed!Status
               /\ fetch' \in [Slots -> {"none", "asked"} \cup AnyFeed!Status]
    BY <1>2, <2>5 DEF AnyFeed!FetchFails
  <2> QED BY <2>1, <2>2, <2>3, <2>4, <2>5
<1>4. drops' \in 0..MaxDrops
  <2>1. drops \in 0..MaxDrops
    BY <1>0 DEF AnyFeed!TypeOK
  <2>2. drops' = drops \/ (drops < MaxDrops /\ drops' = drops + 1)
    BY DEF AnyFeed!Render, AnyFeed!RefreshStale, AnyFeed!ServeJob, AnyFeed!JobArrives,
       AnyFeed!FetchFails, AnyFeed!bounds
  <2> QED BY <2>1, <2>2
<1>5. AnyFeed!TypeOK'
  BY <1>0, <1>1, <1>3, <1>4 DEF AnyFeed!TypeOK
<1>6. Flows(channel', cycle', got', lastRegistry', lastQueue') /\ (job' = "absent" => jobEvents' = <<>>)
  BY <1>0, <1>1
<1> QED BY <1>5, <1>6, FeedPartsNext

\* A connection begins or breaks.
LEMMA ConnectionsKeep ==
    ASSUME AnyFeed!FeedInvariant, AnyFeed!Connect \/ AnyFeed!Drop
    PROVE  AnyFeed!FeedInvariant'
<1> USE FeedNumbers
<1>0. AnyFeed!TypeOK /\ (job = "absent" => jobEvents = <<>>)
  BY FeedParts
<1>1. UNCHANGED <<members, events, job, jobEvents, lastTopology, lastRegistry, lastQueue,
                  nodes, shown, jobsRef, fetch, changes, refreshes>>
  BY DEF AnyFeed!Connect, AnyFeed!Drop, AnyFeed!ctl, AnyFeed!dashboard, AnyFeed!bounds
<1>2. cycle' \in {"closed", "opens"} /\ channel' = <<>> /\ (cycle' = "opens" => got' = [registry |-> 0, queue |-> 0])
  BY DEF AnyFeed!Connect, AnyFeed!Drop
<1>3. <<>> \in Seq(AnyFeed!Frames)
  BY EmptySeq
<1>4. Flows(channel', cycle', got', lastRegistry', lastQueue')
  BY <1>2, <1>3 DEF Flows
<1>5. got' \in [registry : 0..Len(events), queue : 0..Len(jobEvents)]
  <2>1. CASE got' = got
    BY <1>0, <2>1 DEF AnyFeed!TypeOK
  <2>2. CASE got' = [registry |-> 0, queue |-> 0]
    <3>1. PICK k \in Nat, m \in Nat : k = Len(events) /\ m = Len(jobEvents)
      BY <1>0, FeedLengths
    <3> QED BY <2>2, <3>1
  <2> QED BY <2>1, <2>2 DEF AnyFeed!Connect, AnyFeed!Drop, AnyFeed!dashboard
<1>6. drops' \in 0..MaxDrops
  <2>1. drops \in 0..MaxDrops
    BY <1>0 DEF AnyFeed!TypeOK
  <2>2. drops' = drops \/ (drops < MaxDrops /\ drops' = drops + 1)
    BY DEF AnyFeed!Connect, AnyFeed!Drop, AnyFeed!bounds
  <2> QED BY <2>1, <2>2
<1>7. AnyFeed!TypeOK'
  BY <1>0, <1>1, <1>2, <1>5, <1>6 DEF AnyFeed!TypeOK
<1> QED BY <1>0, <1>1, <1>4, <1>7, FeedPartsNext

\* A restart of ctl: its histories are empty again.
LEMMA RestartKeeps ==
    ASSUME AnyFeed!FeedInvariant, AnyFeed!Restart
    PROVE  AnyFeed!FeedInvariant'
<1> USE FeedNumbers
<1>0. AnyFeed!TypeOK /\ (job = "absent" => jobEvents = <<>>)
  BY FeedParts
<1>1. <<>> \in Seq(Nodes) /\ <<>> \in Seq(AnyFeed!Status) /\ <<>> \in Seq(AnyFeed!Frames) /\ Len(<<>>) = 0
  BY EmptySeq
<1>2. /\ events' = <<>> /\ jobEvents' = <<>> /\ cycle' = "closed" /\ channel' = <<>>
      /\ lastRegistry' = 0 /\ lastQueue' = 0 /\ got' = [registry |-> 0, queue |-> 0]
      /\ UNCHANGED <<nodes, shown, jobsRef, changes, refreshes>>
  BY DEF AnyFeed!Restart
<1>3. /\ members' \in [Nodes -> AnyFeed!States \cup {AnyFeed!NoNode}]
      /\ lastTopology' \in [Nodes -> AnyFeed!States \cup {AnyFeed!NoNode}]
  BY DEF AnyFeed!Restart, AnyFeed!Nothing
<1>4. job' \in AnyFeed!JobStates
  BY DEF AnyFeed!Restart, AnyFeed!JobStates, AnyFeed!Status
<1>5. fetch' \in [Slots -> {"none", "asked"} \cup AnyFeed!Status]
  <2>1. fetch \in [Slots -> {"none", "asked"} \cup AnyFeed!Status]
    BY <1>0 DEF AnyFeed!TypeOK
  <2> QED BY <2>1 DEF AnyFeed!Restart
<1>6. drops' \in 0..MaxDrops
  <2>1. drops \in 0..MaxDrops
    BY <1>0 DEF AnyFeed!TypeOK
  <2>2. drops < MaxDrops /\ drops' = drops + 1
    BY DEF AnyFeed!Restart
  <2> QED BY <2>1, <2>2
<1>p. /\ lastRegistry' \in 0..Len(events') /\ lastQueue' \in 0..Len(jobEvents')
      /\ got' \in [registry : 0..Len(events'), queue : 0..Len(jobEvents')]
  <2>1. 0 \in 0..Len(events') /\ 0 \in 0..Len(jobEvents')
    BY <1>1, <1>2
  <2> QED BY <1>2, <2>1
<1>q. events' \in Seq(Nodes) /\ jobEvents' \in Seq(AnyFeed!Status) /\ cycle' = "closed"
  BY <1>1, <1>2
<1>r. UNCHANGED <<nodes, shown, jobsRef, changes, refreshes>>
  BY <1>2
<1>7. AnyFeed!TypeOK'
  BY <1>0, <1>3, <1>4, <1>5, <1>6, <1>p, <1>q, <1>r DEF AnyFeed!TypeOK
<1>8. Flows(channel', cycle', got', lastRegistry', lastQueue')
  BY <1>1, <1>2 DEF Flows
<1> QED BY <1>2, <1>7, <1>8, FeedPartsNext

\* A frame of the topology.
LEMMA TopologyFrame ==
    ASSUME AnyFeed!TypeOK
    PROVE  LET f == AnyFeed!Frame("topology", members) IN f \in AnyFeed!Frames /\ f.type = "topology"
  BY DEF AnyFeed!Frame, AnyFeed!Frames, AnyFeed!TypeOK

\* Sending frames that are not of a type leaves what is on its way of it.
LEMMA SentOther ==
    ASSUME NEW c \in Seq(AnyFeed!Frames), NEW d \in Seq(AnyFeed!Frames), NEW type, NEW a, NEW b,
           \A i \in 1..Len(d) : d[i].type # type, Way(c, Len(c), type, a, b)
    PROVE  Way(c \o d, Len(c \o d), type, a, b)
<1>1. PICK n \in Nat, k \in Nat : n = Len(c) /\ k = Len(d)
  BY LenProperties
<1>2. Len(c \o d) = n + k
  BY <1>1, ConcatProperties
<1>3. \A i \in 1..(n + k) : (c \o d)[i] = IF i <= n THEN c[i] ELSE d[i - n]
  BY <1>1, ConcatProperties
<1>4. PICK e : e = c \o d
  OBVIOUS
<1>5. ASSUME NEW i \in 1..n PROVE e[i] = c[i]
  <2>1. i \in 1..(n + k) /\ i <= n
    OBVIOUS
  <2> QED BY <2>1, <1>3, <1>4
<1>6. ASSUME NEW i \in (n + 1)..(n + k) PROVE e[i].type # type
  <2>1. i \in 1..(n + k) /\ ~(i <= n) /\ i - n \in 1..k
    OBVIOUS
  <2>2. e[i] = d[i - n]
    BY <2>1, <1>3, <1>4
  <2> QED BY <2>1, <2>2, <1>1
<1>7. n + k \in Nat /\ n <= n + k /\ Way(c, n, type, a, b)
  BY <1>1
<1>8. Way(e, n + k, type, a, b)
  BY <1>5, <1>6, <1>7, WayOfOthers
<1> QED BY <1>2, <1>4, <1>8

\* Sending the next events of a type puts them on their way.
LEMMA SentNext ==
    ASSUME NEW c \in Seq(AnyFeed!Frames), NEW d \in Seq(AnyFeed!Frames), NEW type,
           NEW a \in Nat, NEW b \in Nat, Way(c, Len(c), type, a, b),
           \A i \in 1..Len(d) : d[i].type = type /\ d[i].content.sequence = b + i
    PROVE  Way(c \o d, Len(c \o d), type, a, b + Len(d))
<1>1. PICK n \in Nat, k \in Nat : n = Len(c) /\ k = Len(d)
  BY LenProperties
<1>2. Len(c \o d) = n + k
  BY <1>1, ConcatProperties
<1>3. \A i \in 1..(n + k) : (c \o d)[i] = IF i <= n THEN c[i] ELSE d[i - n]
  BY <1>1, ConcatProperties
<1>4. PICK e : e = c \o d
  OBVIOUS
<1>5. ASSUME NEW i \in 1..n PROVE e[i] = c[i]
  <2>1. i \in 1..(n + k) /\ i <= n
    OBVIOUS
  <2> QED BY <2>1, <1>3, <1>4
<1>6. ASSUME NEW i \in 1..k PROVE e[n + i].type = type /\ e[n + i].content.sequence = b + i
  <2>1. n + i \in 1..(n + k) /\ ~(n + i <= n) /\ (n + i) - n = i
    OBVIOUS
  <2>2. e[n + i] = d[i]
    BY <2>1, <1>3, <1>4
  <2> QED BY <2>2, <1>1
<1>7. Way(c, n, type, a, b)
  BY <1>1
<1>8. Way(e, n + k, type, a, b + k)
  BY <1>5, <1>6, <1>7, WayOfMore
<1> QED BY <1>1, <1>2, <1>4, <1>8

\* What a step of send_feed leaves alone.
LEMMA SendingLeaves ==
    ASSUME AnyFeed!SendFeed
    PROVE  /\ UNCHANGED <<members, events, job, jobEvents, nodes, shown, jobsRef, fetch, got, changes, drops,
                       refreshes>>
           /\ cycle' \in {"topology", "registry", "queue"}
           /\ lastTopology' \in {members, lastTopology}
  BY DEF AnyFeed!SendFeed, AnyFeed!Open, AnyFeed!SendTopology, AnyFeed!SendRegistryEvents,
     AnyFeed!SendQueueEvents, AnyFeed!ctl, AnyFeed!dashboard, AnyFeed!bounds

\* So only the channel and the places are left to look at.
LEMMA SendingKeepsIf ==
    ASSUME AnyFeed!FeedInvariant, AnyFeed!SendFeed,
           lastRegistry' \in 0..Len(events), lastQueue' \in 0..Len(jobEvents),
           channel' \in Seq(AnyFeed!Frames),
           Way(channel', Len(channel'), "registry", got.registry + 1, lastRegistry'),
           Way(channel', Len(channel'), "queue", got.queue + 1, lastQueue')
    PROVE  AnyFeed!FeedInvariant'
<1>0. AnyFeed!TypeOK /\ (job = "absent" => jobEvents = <<>>)
  BY FeedParts
<1>1. lastTopology' \in [Nodes -> AnyFeed!States \cup {AnyFeed!NoNode}]
  BY <1>0, SendingLeaves DEF AnyFeed!TypeOK
<1>2. AnyFeed!TypeOK'
  BY <1>0, <1>1, SendingLeaves DEF AnyFeed!TypeOK
<1>3. Flows(channel', cycle', got', lastRegistry', lastQueue')
  BY SendingLeaves DEF Flows
<1>4. job' = "absent" => jobEvents' = <<>>
  BY <1>0, SendingLeaves
<1> QED BY <1>2, <1>3, <1>4, FeedPartsNext

LEMMA TopologySent ==
    ASSUME AnyFeed!TypeOK, channel \in Seq(AnyFeed!Frames), NEW type, type # "topology", NEW a, NEW b,
           Way(channel, Len(channel), type, a, b)
    PROVE  LET c == Append(channel, AnyFeed!Frame("topology", members)) IN
           c \in Seq(AnyFeed!Frames) /\ Way(c, Len(c), type, a, b)
<1>1. PICK f : f = AnyFeed!Frame("topology", members) /\ f \in AnyFeed!Frames /\ f.type = "topology"
  BY TopologyFrame
<1>2. PICK n \in Nat : n = Len(channel)
  BY LenProperties
<1>3. PICK c : c = Append(channel, f)
  OBVIOUS
<1>4. c \in Seq(AnyFeed!Frames) /\ Len(c) = n + 1 /\ (\A i \in 1..n : c[i] = channel[i]) /\ c[n + 1] = f
  BY <1>1, <1>2, <1>3, AppendProperties
<1>5. \A i \in (n + 1)..(n + 1) : c[i].type # type
  BY <1>1, <1>4
<1>6. n <= n + 1 /\ n + 1 \in Nat /\ Way(channel, n, type, a, b)
  BY <1>2
<1>7. Way(c, n + 1, type, a, b)
  BY <1>4, <1>5, <1>6, WayOfOthers
<1> QED BY <1>1, <1>3, <1>4, <1>7

\* The frames of the two histories after their places.
LEMMA RegistryFramesAfter ==
    ASSUME NEW h \in Seq(Nodes), NEW x \in Nat, x <= Len(h),
           NEW d, d = AnyFeed!FramesOf("registry", h, x)
    PROVE  /\ d \in Seq(AnyFeed!Frames) /\ Len(d) = Len(h) - x
           /\ \A i \in 1..Len(d) : d[i].type = "registry" /\ d[i].content.sequence = x + i
<1>1. PICK n \in Nat : n = Len(h) /\ x <= n
  BY LenProperties
<1>2. n - x \in Nat
  BY <1>1
<1>3. PICK k \in Nat : k = n - x
  BY <1>2
<1> DEFINE e(i) == AnyFeed!Frame("registry", [sequence |-> x + i, event |-> h[x + i]])
<1>4. d = [i \in 1..k |-> e(i)]
  <2>1. (n + 1) - (x + 1) = k /\ \A i \in 1..k : (x + 1) + i - 1 = x + i
    BY <1>3
  <2> QED BY <1>1, <2>1 DEF AnyFeed!FramesOf, AnyFeed!EventsAfter
<1>5. ASSUME NEW i \in 1..k PROVE e(i) \in AnyFeed!Frames /\ e(i).type = "registry" /\ e(i).content.sequence = x + i
  <2>1. x + i \in 1..n /\ x + i \in Nat
    BY <1>1, <1>3
  <2>2. PICK v \in Nodes : v = h[x + i]
    BY <2>1, <1>1, ElementOfSeq
  <2> QED BY <2>1, <2>2 DEF AnyFeed!Frame, AnyFeed!Frames
<1> HIDE DEF e
<1>6. d \in Seq(AnyFeed!Frames)
  BY <1>4, <1>5, IsASeq
<1>7. DOMAIN d = 1..k /\ \A i \in 1..k : d[i] = e(i)
  BY <1>4
<1>8. Len(d) = k
  <2>1. PICK m \in Nat : m = Len(d) /\ 1..m = 1..k
    BY <1>6, <1>7, LenProperties
  <2> QED BY <2>1
<1> QED BY <1>1, <1>3, <1>5, <1>6, <1>7, <1>8

LEMMA QueueFramesAfter ==
    ASSUME NEW h \in Seq(AnyFeed!Status), NEW x \in Nat, x <= Len(h),
           NEW d, d = AnyFeed!FramesOf("queue", h, x)
    PROVE  /\ d \in Seq(AnyFeed!Frames) /\ Len(d) = Len(h) - x
           /\ \A i \in 1..Len(d) : d[i].type = "queue" /\ d[i].content.sequence = x + i
<1>1. PICK n \in Nat : n = Len(h) /\ x <= n
  BY LenProperties
<1>2. n - x \in Nat
  BY <1>1
<1>3. PICK k \in Nat : k = n - x
  BY <1>2
<1> DEFINE e(i) == AnyFeed!Frame("queue", [sequence |-> x + i, event |-> h[x + i]])
<1>4. d = [i \in 1..k |-> e(i)]
  <2>1. (n + 1) - (x + 1) = k /\ \A i \in 1..k : (x + 1) + i - 1 = x + i
    BY <1>3
  <2> QED BY <1>1, <2>1 DEF AnyFeed!FramesOf, AnyFeed!EventsAfter
<1>5. ASSUME NEW i \in 1..k PROVE e(i) \in AnyFeed!Frames /\ e(i).type = "queue" /\ e(i).content.sequence = x + i
  <2>1. x + i \in 1..n /\ x + i \in Nat
    BY <1>1, <1>3
  <2>2. PICK v \in AnyFeed!Status : v = h[x + i]
    BY <2>1, <1>1, ElementOfSeq
  <2> QED BY <2>1, <2>2 DEF AnyFeed!Frame, AnyFeed!Frames
<1> HIDE DEF e
<1>6. d \in Seq(AnyFeed!Frames)
  BY <1>4, <1>5, IsASeq
<1>7. DOMAIN d = 1..k /\ \A i \in 1..k : d[i] = e(i)
  BY <1>4
<1>8. Len(d) = k
  <2>1. PICK m \in Nat : m = Len(d) /\ 1..m = 1..k
    BY <1>6, <1>7, LenProperties
  <2> QED BY <2>1
<1> QED BY <1>1, <1>3, <1>5, <1>6, <1>7, <1>8

LEMMA SendingKeeps ==
    ASSUME AnyFeed!FeedInvariant, AnyFeed!SendFeed
    PROVE  AnyFeed!FeedInvariant'
<1>0. AnyFeed!TypeOK /\ Flows(channel, cycle, got, lastRegistry, lastQueue)
  BY FeedParts
<1>a. channel \in Seq(AnyFeed!Frames)
  BY <1>0 DEF Flows
<1>b. PICK gr \in Nat, gq \in Nat : gr = got.registry /\ gq = got.queue
  BY <1>0, FeedLengths
<1>c. PICK k \in Nat, m \in Nat : k = Len(events) /\ m = Len(jobEvents)
  BY <1>0, FeedLengths
<1>d. lastRegistry \in Nat /\ lastQueue \in Nat /\ lastRegistry <= k /\ lastQueue <= m
      /\ events \in Seq(Nodes) /\ jobEvents \in Seq(AnyFeed!Status)
  BY <1>0, <1>c, FeedLengths
<1>1. CASE AnyFeed!Open
  <2>1. /\ cycle = "opens" /\ lastRegistry' = 0 /\ lastQueue' = 0
        /\ channel' = Append(channel, AnyFeed!Frame("topology", members))
    BY <1>1 DEF AnyFeed!Open
  <2>2. channel = <<>> /\ gr = 0 /\ gq = 0
    BY <1>0, <1>b, <2>1 DEF Flows
  <2>3. Len(channel) = 0
    BY <2>2, EmptySeq
  <2>4. Way(channel, Len(channel), "registry", gr + 1, 0) /\ Way(channel, Len(channel), "queue", gq + 1, 0)
    <3>1. gr + 1 = 0 + 1 /\ gq + 1 = 0 + 1 /\ 0 + 1 \in Nat
      BY <2>2
    <3>2. \A type : Way(channel, 0, type, 0 + 1, 0)
      BY <3>1, WayOfNothing
    <3> QED BY <3>1, <3>2, <2>3
  <2>5. /\ channel' \in Seq(AnyFeed!Frames)
        /\ Way(channel', Len(channel'), "registry", gr + 1, 0) /\ Way(channel', Len(channel'), "queue", gq + 1, 0)
    BY <1>0, <1>a, <2>1, <2>4, TopologySent
  <2>6. lastRegistry' \in 0..Len(events) /\ lastQueue' \in 0..Len(jobEvents)
    BY <2>1, <1>c
  <2> QED BY <1>b, <2>1, <2>5, <2>6, SendingKeepsIf
<1>2. ASSUME cycle \in {"topology", "registry", "queue"}
      PROVE  /\ Way(channel, Len(channel), "registry", gr + 1, lastRegistry)
             /\ Way(channel, Len(channel), "queue", gq + 1, lastQueue)
  BY <1>0, <1>2, <1>b DEF Flows
<1>3. CASE AnyFeed!SendTopology
  <2>1. cycle = "topology" /\ lastRegistry' = lastRegistry /\ lastQueue' = lastQueue
        /\ channel' \in {channel, Append(channel, AnyFeed!Frame("topology", members))}
    BY <1>3 DEF AnyFeed!SendTopology
  <2>2. /\ channel' \in Seq(AnyFeed!Frames)
        /\ Way(channel', Len(channel'), "registry", gr + 1, lastRegistry)
        /\ Way(channel', Len(channel'), "queue", gq + 1, lastQueue)
    BY <1>0, <1>2, <1>a, <2>1, TopologySent
  <2>3. lastRegistry' \in 0..Len(events) /\ lastQueue' \in 0..Len(jobEvents)
    BY <1>c, <1>d, <2>1
  <2> QED BY <1>b, <2>1, <2>2, <2>3, SendingKeepsIf
<1>4. CASE AnyFeed!SendRegistryEvents
  <2>1. PICK d : d = AnyFeed!FramesOf("registry", events, lastRegistry)
    OBVIOUS
  <2>2. cycle = "registry" /\ lastRegistry' = k /\ lastQueue' = lastQueue /\ channel' = channel \o d
    BY <1>4, <1>c, <2>1 DEF AnyFeed!SendRegistryEvents
  <2>4. /\ d \in Seq(AnyFeed!Frames) /\ Len(d) = k - lastRegistry
        /\ \A i \in 1..Len(d) : d[i].type = "registry" /\ d[i].content.sequence = lastRegistry + i
    <3>1. PICK h, x : h = events /\ x = lastRegistry
      OBVIOUS
    <3>2. h \in Seq(Nodes) /\ x \in Nat /\ x <= Len(h) /\ d = AnyFeed!FramesOf("registry", h, x)
      BY <1>c, <1>d, <2>1, <3>1
    <3>3. /\ d \in Seq(AnyFeed!Frames) /\ Len(d) = Len(h) - x
          /\ \A i \in 1..Len(d) : d[i].type = "registry" /\ d[i].content.sequence = x + i
      BY <3>2, RegistryFramesAfter
    <3> QED BY <3>1, <3>3, <1>c
  <2>5. channel' \in Seq(AnyFeed!Frames)
    BY <1>a, <2>2, <2>4, ConcatProperties
  <2>6. lastRegistry + Len(d) = k /\ gr + 1 \in Nat
    BY <1>d, <2>4
  <2>7. Way(channel \o d, Len(channel \o d), "registry", gr + 1, lastRegistry + Len(d))
    BY <1>2, <1>a, <1>d, <2>2, <2>4, <2>6, SentNext
  <2>8. Way(channel \o d, Len(channel \o d), "queue", gq + 1, lastQueue)
    BY <1>2, <1>a, <2>2, <2>4, SentOther
  <2>9. lastRegistry' \in 0..Len(events) /\ lastQueue' \in 0..Len(jobEvents)
    BY <1>c, <1>d, <2>2
  <2> QED BY <1>b, <2>2, <2>5, <2>6, <2>7, <2>8, <2>9, SendingKeepsIf
<1>5. CASE AnyFeed!SendQueueEvents
  <2>1. PICK d : d = AnyFeed!FramesOf("queue", jobEvents, lastQueue)
    OBVIOUS
  <2>2. cycle = "queue" /\ lastQueue' = m /\ lastRegistry' = lastRegistry /\ channel' = channel \o d
    BY <1>5, <1>c, <2>1 DEF AnyFeed!SendQueueEvents
  <2>4. /\ d \in Seq(AnyFeed!Frames) /\ Len(d) = m - lastQueue
        /\ \A i \in 1..Len(d) : d[i].type = "queue" /\ d[i].content.sequence = lastQueue + i
    <3>1. PICK h, x : h = jobEvents /\ x = lastQueue
      OBVIOUS
    <3>2. h \in Seq(AnyFeed!Status) /\ x \in Nat /\ x <= Len(h) /\ d = AnyFeed!FramesOf("queue", h, x)
      BY <1>c, <1>d, <2>1, <3>1
    <3>3. /\ d \in Seq(AnyFeed!Frames) /\ Len(d) = Len(h) - x
          /\ \A i \in 1..Len(d) : d[i].type = "queue" /\ d[i].content.sequence = x + i
      BY <3>2, QueueFramesAfter
    <3> QED BY <3>1, <3>3, <1>c
  <2>5. channel' \in Seq(AnyFeed!Frames)
    BY <1>a, <2>2, <2>4, ConcatProperties
  <2>6. lastQueue + Len(d) = m /\ gq + 1 \in Nat
    BY <1>d, <2>4
  <2>7. Way(channel \o d, Len(channel \o d), "queue", gq + 1, lastQueue + Len(d))
    BY <1>2, <1>a, <1>d, <2>2, <2>4, <2>6, SentNext
  <2>8. Way(channel \o d, Len(channel \o d), "registry", gr + 1, lastRegistry)
    BY <1>2, <1>a, <2>2, <2>4, SentOther
  <2>9. lastRegistry' \in 0..Len(events) /\ lastQueue' \in 0..Len(jobEvents)
    BY <1>c, <1>d, <2>2
  <2> QED BY <1>b, <2>2, <2>5, <2>6, <2>7, <2>8, <2>9, SendingKeepsIf
<1> QED BY <1>1, <1>3, <1>4, <1>5 DEF AnyFeed!SendFeed

\* The first frame on its way, if it is an event, is the one after the last one got.
LEMMA HeadIsNext ==
    ASSUME AnyFeed!FeedInvariant, channel # <<>>
    PROVE  /\ cycle \in {"topology", "registry", "queue"} /\ Head(channel) \in AnyFeed!Frames
           /\ Tail(channel) \in Seq(AnyFeed!Frames)
           /\ Way(Tail(channel), Len(Tail(channel)), "registry",
                  IF Head(channel).type = "registry" THEN got.registry + 2 ELSE got.registry + 1, lastRegistry)
           /\ Way(Tail(channel), Len(Tail(channel)), "queue",
                  IF Head(channel).type = "queue" THEN got.queue + 2 ELSE got.queue + 1, lastQueue)
           /\ Head(channel).type = "registry" =>
                 Head(channel).content.sequence = got.registry + 1 /\ got.registry < lastRegistry
           /\ Head(channel).type = "queue" =>
                 Head(channel).content.sequence = got.queue + 1 /\ got.queue < lastQueue
<1>0. AnyFeed!TypeOK /\ Flows(channel, cycle, got, lastRegistry, lastQueue)
  BY FeedParts
<1>1. cycle \in {"topology", "registry", "queue"}
  BY <1>0 DEF Flows, AnyFeed!TypeOK
<1>2. channel \in Seq(AnyFeed!Frames)
  BY <1>0 DEF Flows
<1>3. PICK gr \in Nat, gq \in Nat : gr = got.registry /\ gq = got.queue
  BY <1>0, FeedLengths
<1>4. lastRegistry \in Nat /\ lastQueue \in Nat
  BY <1>0, FeedLengths
<1>5. PICK n \in Nat : n = Len(channel) /\ n # 0
  BY <1>2, EmptySeq, LenProperties
<1>6. PICK t : t = Tail(channel)
  OBVIOUS
<1>7. t \in Seq(AnyFeed!Frames) /\ Len(t) = n - 1 /\ \A i \in 1..(n - 1) : t[i] = channel[i + 1]
  BY <1>2, <1>5, <1>6, HeadTailProperties
<1>8. Head(channel) = channel[1] /\ Head(channel) \in AnyFeed!Frames
  BY <1>2, HeadTailProperties
<1>9. Way(channel, n, "registry", gr + 1, lastRegistry) /\ Way(channel, n, "queue", gq + 1, lastQueue)
  BY <1>0, <1>1, <1>3, <1>5 DEF Flows
<1>10. gr + 1 \in Nat /\ gq + 1 \in Nat /\ (gr + 1) + 1 = gr + 2 /\ (gq + 1) + 1 = gq + 2
  OBVIOUS
<1>11. /\ channel[1].type # "registry" => Way(t, n - 1, "registry", gr + 1, lastRegistry)
       /\ channel[1].type = "registry" => /\ channel[1].content.sequence = gr + 1 /\ gr + 1 <= lastRegistry
                                          /\ Way(t, n - 1, "registry", gr + 2, lastRegistry)
  <2>1. PICK a \in Nat, b \in Nat : a = gr + 1 /\ b = lastRegistry
    BY <1>4, <1>10
  <2>2. Way(channel, n, "registry", a, b) /\ a + 1 = gr + 2
    BY <1>9, <1>10, <2>1
  <2>3. /\ channel[1].type # "registry" => Way(t, n - 1, "registry", a, b)
        /\ channel[1].type = "registry" =>
               channel[1].content.sequence = a /\ a <= b /\ Way(t, n - 1, "registry", a + 1, b)
    <3>1. n # 0 /\ \A i \in 1..(n - 1) : t[i] = channel[i + 1]
      BY <1>5, <1>7
    <3>2. Way(channel, n, "registry", a, b)
      BY <2>2
    <3> QED BY ONLY n \in Nat, a \in Nat, b \in Nat, <3>1, <3>2, WayOfTail
  <2> QED BY <2>1, <2>2, <2>3
<1>12. /\ channel[1].type # "queue" => Way(t, n - 1, "queue", gq + 1, lastQueue)
       /\ channel[1].type = "queue" => /\ channel[1].content.sequence = gq + 1 /\ gq + 1 <= lastQueue
                                       /\ Way(t, n - 1, "queue", gq + 2, lastQueue)
  <2>1. PICK a \in Nat, b \in Nat : a = gq + 1 /\ b = lastQueue
    BY <1>4, <1>10
  <2>2. Way(channel, n, "queue", a, b) /\ a + 1 = gq + 2
    BY <1>9, <1>10, <2>1
  <2>3. /\ channel[1].type # "queue" => Way(t, n - 1, "queue", a, b)
        /\ channel[1].type = "queue" =>
               channel[1].content.sequence = a /\ a <= b /\ Way(t, n - 1, "queue", a + 1, b)
    <3>1. n # 0 /\ \A i \in 1..(n - 1) : t[i] = channel[i + 1]
      BY <1>5, <1>7
    <3>2. Way(channel, n, "queue", a, b)
      BY <2>2
    <3> QED BY ONLY n \in Nat, a \in Nat, b \in Nat, <3>1, <3>2, WayOfTail
  <2> QED BY <2>1, <2>2, <2>3
<1>13. (gr + 1 <= lastRegistry => gr < lastRegistry) /\ (gq + 1 <= lastQueue => gq < lastQueue)
  BY <1>4
<1> QED BY <1>1, <1>3, <1>6, <1>7, <1>8, <1>11, <1>12, <1>13

\* What is done with a frame keeps the types of the dashboard.
LEMMA HandlingKeepsTypes ==
    ASSUME AnyFeed!TypeOK, NEW f \in AnyFeed!Frames,
           \/ f.type = "topology" /\ AnyFeed!GotTopology(f.content)
           \/ f.type = "registry" /\ AnyFeed!GotRegistryEvent(f.content)
           \/ f.type = "queue" /\ AnyFeed!GotQueueEvent(f.content)
    PROVE  /\ nodes' \in [Nodes -> AnyFeed!States \cup {AnyFeed!NoNode, "no state"}]
           /\ shown' \in AnyFeed!Status /\ fetch' \in [Slots -> {"none", "asked"} \cup AnyFeed!Status]
           /\ refreshes' \in 0..MaxRefresh
<1> USE FeedNumbers
<1>0. /\ nodes \in [Nodes -> AnyFeed!States \cup {AnyFeed!NoNode, "no state"}]
      /\ shown \in AnyFeed!Status /\ fetch \in [Slots -> {"none", "asked"} \cup AnyFeed!Status]
      /\ refreshes \in 0..MaxRefresh
  BY DEF AnyFeed!TypeOK
<1>1. CASE f.type = "topology" /\ AnyFeed!GotTopology(f.content)
  <2>1. f.content \in [Nodes -> AnyFeed!States \cup {AnyFeed!NoNode}]
    BY <1>1 DEF AnyFeed!Frames
  <2>2. nodes' = f.content /\ UNCHANGED <<shown, fetch, refreshes>>
    BY <1>1 DEF AnyFeed!GotTopology
  <2> QED BY <1>0, <2>1, <2>2
<1>2. CASE f.type = "registry" /\ AnyFeed!GotRegistryEvent(f.content)
  <2>1. PICK n \in Nodes : n = f.content.event
    BY <1>2 DEF AnyFeed!Frames
  <2>2. nodes' = [nodes EXCEPT ![n] = AnyFeed!Merged(n)] /\ UNCHANGED <<shown, fetch, refreshes>>
    BY <1>2, <2>1 DEF AnyFeed!GotRegistryEvent
  <2>3. AnyFeed!Merged(n) \in AnyFeed!States \cup {AnyFeed!NoNode, "no state"}
    BY <1>0 DEF AnyFeed!Merged
  <2> QED BY <1>0, <2>2, <2>3
<1>3. CASE f.type = "queue" /\ AnyFeed!GotQueueEvent(f.content)
  <2>1. f.content.event \in AnyFeed!Status
    BY <1>3 DEF AnyFeed!Frames
  <2>2. shown' = f.content.event /\ nodes' = nodes
    BY <1>3 DEF AnyFeed!GotQueueEvent
  <2>3. \/ fetch' = fetch /\ refreshes' = refreshes
        \/ /\ refreshes < MaxRefresh /\ refreshes' = refreshes + 1
           /\ \E s \in Slots : fetch' = [fetch EXCEPT ![s] = "asked"]
    BY <1>3 DEF AnyFeed!GotQueueEvent, AnyFeed!Ask
  <2>4. fetch' \in [Slots -> {"none", "asked"} \cup AnyFeed!Status] /\ refreshes' \in 0..MaxRefresh
    <3>1. CASE fetch' = fetch /\ refreshes' = refreshes
      BY <1>0, <3>1
    <3>2. ASSUME NEW s \in Slots, fetch' = [fetch EXCEPT ![s] = "asked"]
          PROVE  fetch' \in [Slots -> {"none", "asked"} \cup AnyFeed!Status]
      BY <1>0, <3>2
    <3>3. refreshes' \in 0..MaxRefresh
      <4>1. refreshes \in 0..MaxRefresh
        BY <1>0
      <4>2. refreshes' = refreshes \/ (refreshes < MaxRefresh /\ refreshes' = refreshes + 1)
        BY <2>3
      <4> HIDE <1>0
      <4> QED BY <4>1, <4>2
    <3> QED BY <2>3, <3>1, <3>2, <3>3
  <2> QED BY <1>0, <2>1, <2>2, <2>4
<1> QED BY <1>1, <1>2, <1>3

LEMMA HandlingKeeps ==
    ASSUME AnyFeed!FeedInvariant, AnyFeed!HandleFrame
    PROVE  AnyFeed!FeedInvariant'
<1>0. AnyFeed!TypeOK /\ (job = "absent" => jobEvents = <<>>)
  BY FeedParts
<1>1. channel # <<>> /\ channel' = Tail(channel)
      /\ UNCHANGED <<members, events, job, jobEvents, cycle, lastTopology, lastRegistry, lastQueue, jobsRef,
                     changes, drops>>
  BY DEF AnyFeed!HandleFrame, AnyFeed!ctl, AnyFeed!sender
<1>2. PICK f : f = Head(channel) /\ f \in AnyFeed!Frames
  BY <1>1, HeadIsNext
<1>3. \/ f.type = "topology" /\ AnyFeed!GotTopology(f.content)
      \/ f.type = "registry" /\ AnyFeed!GotRegistryEvent(f.content)
      \/ f.type = "queue" /\ AnyFeed!GotQueueEvent(f.content)
  BY <1>2 DEF AnyFeed!HandleFrame
<1>4. PICK k \in Nat, m \in Nat : k = Len(events) /\ m = Len(jobEvents)
  BY <1>0, FeedLengths
<1>5. PICK gr \in Nat, gq \in Nat : got = [registry |-> gr, queue |-> gq] /\ gr <= k /\ gq <= m
  BY <1>0, <1>4, FeedLengths
<1>6. lastRegistry \in Nat /\ lastQueue \in Nat /\ lastRegistry <= k /\ lastQueue <= m
  BY <1>0, <1>4, FeedLengths
<1>7. /\ f.type = "registry" => got' = [registry |-> gr + 1, queue |-> gq] /\ gr + 1 <= k
      /\ f.type = "queue" => got' = [registry |-> gr, queue |-> gq + 1] /\ gq + 1 <= m
      /\ f.type = "topology" => got' = got
  <2>1. CASE f.type = "registry"
    <3>1. f.content.sequence = gr + 1 /\ gr < lastRegistry
      BY <1>1, <1>2, <1>5, <2>1, HeadIsNext
    <3>2. got' = [got EXCEPT !.registry = gr + 1]
      BY <1>3, <2>1, <3>1 DEF AnyFeed!GotRegistryEvent
    <3>3. gr + 1 <= k
      BY <1>6, <3>1
    <3> QED BY <1>5, <2>1, <3>2, <3>3
  <2>2. CASE f.type = "queue"
    <3>1. f.content.sequence = gq + 1 /\ gq < lastQueue
      BY <1>1, <1>2, <1>5, <2>2, HeadIsNext
    <3>2. got' = [got EXCEPT !.queue = gq + 1]
      BY <1>3, <2>2, <3>1 DEF AnyFeed!GotQueueEvent
    <3>3. gq + 1 <= m
      BY <1>6, <3>1
    <3> QED BY <1>5, <2>2, <3>2, <3>3
  <2>3. CASE f.type = "topology"
    BY <1>3, <2>3 DEF AnyFeed!GotTopology
  <2> QED BY <2>1, <2>2, <2>3
<1>8. f.type \in {"topology", "registry", "queue"}
  BY <1>3
<1>9. got' \in [registry : 0..k, queue : 0..m]
  BY <1>5, <1>7, <1>8
<1>10. AnyFeed!TypeOK'
  <2>1. /\ nodes' \in [Nodes -> AnyFeed!States \cup {AnyFeed!NoNode, "no state"}]
        /\ shown' \in AnyFeed!Status /\ fetch' \in [Slots -> {"none", "asked"} \cup AnyFeed!Status]
        /\ refreshes' \in 0..MaxRefresh
    BY <1>0, <1>2, <1>3, HandlingKeepsTypes
  <2> QED BY <1>0, <1>1, <1>4, <1>9, <2>1 DEF AnyFeed!TypeOK
<1>11. PICK t : t = Tail(channel)
  OBVIOUS
<1>12. /\ cycle \in {"topology", "registry", "queue"} /\ t \in Seq(AnyFeed!Frames)
       /\ Way(t, Len(t), "registry", IF f.type = "registry" THEN gr + 2 ELSE gr + 1, lastRegistry)
       /\ Way(t, Len(t), "queue", IF f.type = "queue" THEN gq + 2 ELSE gq + 1, lastQueue)
  BY <1>1, <1>2, <1>5, <1>11, HeadIsNext
<1>13. /\ Way(t, Len(t), "registry", got'.registry + 1, lastRegistry)
       /\ Way(t, Len(t), "queue", got'.queue + 1, lastQueue)
  <2>1. (gr + 1) + 1 = gr + 2 /\ (gq + 1) + 1 = gq + 2
    OBVIOUS
  <2> QED BY <1>5, <1>7, <1>8, <1>12, <2>1
<1>14. Flows(channel', cycle', got', lastRegistry', lastQueue')
  BY <1>1, <1>11, <1>12, <1>13 DEF Flows
<1> QED BY <1>0, <1>1, <1>10, <1>14, FeedPartsNext

LEMMA FeedSteps ==
    ASSUME AnyFeed!FeedInvariant, AnyFeed!Next
    PROVE  AnyFeed!FeedInvariant'
  BY HistoryGrows, RequestsKeep, ConnectionsKeep, RestartKeeps, SendingKeeps, HandlingKeeps DEF AnyFeed!Next

\* A step of either instance is a step of this one.
LEMMA NodeFeedStep ==
    ASSUME NodeFeed!Next PROVE AnyFeed!Next
<1>1. ASSUME NEW n \in Nodes, NodeFeed!Change(n) PROVE AnyFeed!Change(n)
  BY <1>1 DEF NodeFeed!Change, AnyFeed!Change, NodeFeed!NoNode, AnyFeed!NoNode, NodeFeed!sender,
     AnyFeed!sender, NodeFeed!dashboard, AnyFeed!dashboard
<1>2. ~NodeFeed!Submit
  BY DEF NodeFeed!Submit
<1>3. NodeFeed!Advance => AnyFeed!Advance
  BY DEF NodeFeed!Advance, AnyFeed!Advance, NodeFeed!sender, AnyFeed!sender,
     NodeFeed!dashboard, AnyFeed!dashboard, NodeFeed!bounds, AnyFeed!bounds
<1>4. NodeFeed!SendFeed => AnyFeed!SendFeed
  BY DEF NodeFeed!SendFeed, AnyFeed!SendFeed, NodeFeed!Open, AnyFeed!Open, NodeFeed!SendTopology,
     AnyFeed!SendTopology, NodeFeed!SendRegistryEvents, AnyFeed!SendRegistryEvents,
     NodeFeed!SendQueueEvents, AnyFeed!SendQueueEvents, NodeFeed!FramesOf, AnyFeed!FramesOf,
     NodeFeed!EventsAfter, AnyFeed!EventsAfter, NodeFeed!Frame, AnyFeed!Frame,
     NodeFeed!TopologyChanged, AnyFeed!TopologyChanged, NodeFeed!ctl, AnyFeed!ctl,
     NodeFeed!dashboard, AnyFeed!dashboard, NodeFeed!bounds, AnyFeed!bounds
<1>5. NodeFeed!Connect \/ NodeFeed!Drop => AnyFeed!Connect \/ AnyFeed!Drop
  BY DEF NodeFeed!Connect, NodeFeed!Drop, AnyFeed!Connect, AnyFeed!Drop, NodeFeed!ctl, AnyFeed!ctl,
     NodeFeed!dashboard, AnyFeed!dashboard, NodeFeed!bounds, AnyFeed!bounds
<1>6. NodeFeed!HandleFrame => AnyFeed!HandleFrame
  BY DEF NodeFeed!HandleFrame, AnyFeed!HandleFrame, NodeFeed!GotTopology, AnyFeed!GotTopology,
     NodeFeed!GotRegistryEvent, AnyFeed!GotRegistryEvent, NodeFeed!GotQueueEvent, AnyFeed!GotQueueEvent,
     NodeFeed!Merged, AnyFeed!Merged, NodeFeed!NoNode, AnyFeed!NoNode, NodeFeed!Ask, AnyFeed!Ask,
     NodeFeed!ctl, AnyFeed!ctl, NodeFeed!sender, AnyFeed!sender
<1>7. NodeFeed!RefreshStale => AnyFeed!RefreshStale
  BY DEF NodeFeed!RefreshStale, AnyFeed!RefreshStale, NodeFeed!Stale, AnyFeed!Stale, NodeFeed!Ask,
     AnyFeed!Ask, NodeFeed!ctl, AnyFeed!ctl, NodeFeed!sender, AnyFeed!sender, NodeFeed!bounds, AnyFeed!bounds
<1>8. ASSUME NEW s \in Slots
      PROVE  NodeFeed!ServeJob(s) \/ NodeFeed!JobArrives(s) \/ NodeFeed!FetchFails(s) =>
                 AnyFeed!ServeJob(s) \/ AnyFeed!JobArrives(s) \/ AnyFeed!FetchFails(s)
  BY DEF NodeFeed!ServeJob, AnyFeed!ServeJob, NodeFeed!JobArrives, AnyFeed!JobArrives, NodeFeed!FetchFails,
     AnyFeed!FetchFails, NodeFeed!Status, AnyFeed!Status, NodeFeed!ctl, AnyFeed!ctl, NodeFeed!sender,
     AnyFeed!sender, NodeFeed!bounds, AnyFeed!bounds
<1>9. NodeFeed!Render => AnyFeed!Render
  BY DEF NodeFeed!Render, AnyFeed!Render, NodeFeed!ctl, AnyFeed!ctl, NodeFeed!sender, AnyFeed!sender,
     NodeFeed!bounds, AnyFeed!bounds
<1>10. NodeFeed!Restart => AnyFeed!Restart
  BY DEF NodeFeed!Restart, AnyFeed!Restart, NodeFeed!Nothing, AnyFeed!Nothing, NodeFeed!NoNode, AnyFeed!NoNode
<1> QED BY <1>1, <1>2, <1>3, <1>4, <1>5, <1>6, <1>7, <1>8, <1>9, <1>10 DEF NodeFeed!Next, AnyFeed!Next

LEMMA JobFeedStep ==
    ASSUME AnyFeed!FeedInvariant, JobFeed!Next PROVE AnyFeed!Next
<1>1. ASSUME NEW n \in Nodes PROVE ~JobFeed!Change(n)
  <2>1. changes \in Nat
    <3>1. changes \in 0..MaxChanges
      BY FeedParts DEF AnyFeed!TypeOK
    <3> QED BY <3>1, FeedNumbers
  <2>2. JobFeed!Change(n) => changes < 0
    BY DEF JobFeed!Change
  <2> QED BY <2>1, <2>2
<1>2. JobFeed!Submit => AnyFeed!Submit
  BY DEF JobFeed!Submit, AnyFeed!Submit, JobFeed!sender, AnyFeed!sender, JobFeed!bounds, AnyFeed!bounds
<1>3. JobFeed!Advance => AnyFeed!Advance
  BY DEF JobFeed!Advance, AnyFeed!Advance, JobFeed!sender, AnyFeed!sender,
     JobFeed!dashboard, AnyFeed!dashboard, JobFeed!bounds, AnyFeed!bounds
<1>4. JobFeed!SendFeed => AnyFeed!SendFeed
  BY DEF JobFeed!SendFeed, AnyFeed!SendFeed, JobFeed!Open, AnyFeed!Open, JobFeed!SendTopology,
     AnyFeed!SendTopology, JobFeed!SendRegistryEvents, AnyFeed!SendRegistryEvents,
     JobFeed!SendQueueEvents, AnyFeed!SendQueueEvents, JobFeed!FramesOf, AnyFeed!FramesOf,
     JobFeed!EventsAfter, AnyFeed!EventsAfter, JobFeed!Frame, AnyFeed!Frame,
     JobFeed!TopologyChanged, AnyFeed!TopologyChanged, JobFeed!ctl, AnyFeed!ctl,
     JobFeed!dashboard, AnyFeed!dashboard, JobFeed!bounds, AnyFeed!bounds
<1>5. JobFeed!Connect \/ JobFeed!Drop => AnyFeed!Connect \/ AnyFeed!Drop
  BY DEF JobFeed!Connect, JobFeed!Drop, AnyFeed!Connect, AnyFeed!Drop, JobFeed!ctl, AnyFeed!ctl,
     JobFeed!dashboard, AnyFeed!dashboard, JobFeed!bounds, AnyFeed!bounds
<1>6. JobFeed!HandleFrame => AnyFeed!HandleFrame
  BY DEF JobFeed!HandleFrame, AnyFeed!HandleFrame, JobFeed!GotTopology, AnyFeed!GotTopology,
     JobFeed!GotRegistryEvent, AnyFeed!GotRegistryEvent, JobFeed!GotQueueEvent, AnyFeed!GotQueueEvent,
     JobFeed!Merged, AnyFeed!Merged, JobFeed!NoNode, AnyFeed!NoNode, JobFeed!Ask, AnyFeed!Ask,
     JobFeed!ctl, AnyFeed!ctl, JobFeed!sender, AnyFeed!sender
<1>7. JobFeed!RefreshStale => AnyFeed!RefreshStale
  BY DEF JobFeed!RefreshStale, AnyFeed!RefreshStale, JobFeed!Stale, AnyFeed!Stale, JobFeed!Ask,
     AnyFeed!Ask, JobFeed!ctl, AnyFeed!ctl, JobFeed!sender, AnyFeed!sender, JobFeed!bounds, AnyFeed!bounds
<1>8. ASSUME NEW s \in Slots
      PROVE  JobFeed!ServeJob(s) \/ JobFeed!JobArrives(s) \/ JobFeed!FetchFails(s) =>
                 AnyFeed!ServeJob(s) \/ AnyFeed!JobArrives(s) \/ AnyFeed!FetchFails(s)
  BY DEF JobFeed!ServeJob, AnyFeed!ServeJob, JobFeed!JobArrives, AnyFeed!JobArrives, JobFeed!FetchFails,
     AnyFeed!FetchFails, JobFeed!Status, AnyFeed!Status, JobFeed!ctl, AnyFeed!ctl, JobFeed!sender,
     AnyFeed!sender, JobFeed!bounds, AnyFeed!bounds
<1>9. JobFeed!Render => AnyFeed!Render
  BY DEF JobFeed!Render, AnyFeed!Render, JobFeed!ctl, AnyFeed!ctl, JobFeed!sender, AnyFeed!sender,
     JobFeed!bounds, AnyFeed!bounds
<1>10. JobFeed!Restart => AnyFeed!Restart
  BY DEF JobFeed!Restart, AnyFeed!Restart, JobFeed!Nothing, AnyFeed!Nothing, JobFeed!NoNode, AnyFeed!NoNode
<1> QED BY <1>1, <1>2, <1>3, <1>4, <1>5, <1>6, <1>7, <1>8, <1>9, <1>10 DEF JobFeed!Next, AnyFeed!Next

(***************************************************************************)
(* The results of shards.  First, the best of a finite set in an order.    *)
(***************************************************************************)
Ahead(S, R, x) == {y \in S : <<y, x>> \in R}
Best(S, R, K) == {x \in S : Cardinality(Ahead(S, R, x)) < K}
StrictOrder(S, R) ==
    /\ \A x \in S : <<x, x>> \notin R
    /\ \A x, y, z \in S : <<x, y>> \in R /\ <<y, z>> \in R => <<x, z>> \in R
    /\ \A x, y \in S : x = y \/ <<x, y>> \in R \/ <<y, x>> \in R

LEMMA RanksGrow ==
    ASSUME NEW S, NEW R, IsFiniteSet(S), StrictOrder(S, R), NEW x \in S
    PROVE  /\ Cardinality(Ahead(S, R, x)) \in Nat
           /\ \A y \in S : <<x, y>> \in R => Cardinality(Ahead(S, R, x)) < Cardinality(Ahead(S, R, y))
<1>1. ASSUME NEW z \in S PROVE IsFiniteSet(Ahead(S, R, z)) /\ Cardinality(Ahead(S, R, z)) \in Nat
  <2>1. Ahead(S, R, z) \in SUBSET S
    BY DEF Ahead
  <2> QED BY <2>1, FS_Subset, FS_CardinalityType
<1>2. ASSUME NEW y \in S, <<x, y>> \in R
      PROVE  Cardinality(Ahead(S, R, x)) < Cardinality(Ahead(S, R, y))
  <2>1. Ahead(S, R, x) \cup {x} \in SUBSET Ahead(S, R, y)
    BY <1>2 DEF StrictOrder, Ahead
  <2>2. x \notin Ahead(S, R, x)
    BY DEF StrictOrder, Ahead
  <2>3. Cardinality(Ahead(S, R, x) \cup {x}) = Cardinality(Ahead(S, R, x)) + 1
    BY <1>1, <2>2, FS_AddElement
  <2>4. Cardinality(Ahead(S, R, x) \cup {x}) <= Cardinality(Ahead(S, R, y))
    BY <1>1, <2>1, FS_Subset
  <2>5. PICK a \in Nat, b \in Nat : a = Cardinality(Ahead(S, R, x)) /\ b = Cardinality(Ahead(S, R, y))
    BY <1>1
  <2> QED BY <2>3, <2>4, <2>5
<1> QED BY <1>1, <1>2

\* What is left out comes after everything that is kept.
LEMMA BestComeFirst ==
    ASSUME NEW S, NEW R, IsFiniteSet(S), StrictOrder(S, R), NEW K \in Nat,
           NEW x \in S \ Best(S, R, K), NEW t \in Best(S, R, K)
    PROVE  <<t, x>> \in R
<1>1. t \in S /\ x \in S /\ t # x
  BY DEF Best
<1>2. PICK a \in Nat, b \in Nat : a = Cardinality(Ahead(S, R, x)) /\ b = Cardinality(Ahead(S, R, t))
  BY <1>1, RanksGrow
<1>3. b < K /\ ~(a < K)
  BY <1>1, <1>2 DEF Best
<1>4. CASE <<x, t>> \in R
  BY <1>1, <1>2, <1>3, <1>4, RanksGrow
<1> QED BY <1>1, <1>4 DEF StrictOrder

LEMMA BestAreFew ==
    ASSUME NEW S, NEW R, IsFiniteSet(S), StrictOrder(S, R), NEW K \in Nat
    PROVE  IsFiniteSet(Best(S, R, K)) /\ Cardinality(Best(S, R, K)) <= K
<1> DEFINE B == Best(S, R, K)
<1>1. IsFiniteSet(B) /\ B \in SUBSET S /\ Cardinality(B) \in Nat
  <2>1. B \in SUBSET S
    BY DEF Best
  <2> QED BY <2>1, FS_Subset, FS_CardinalityType
<1>2. CASE B = {}
  BY <1>1, <1>2, FS_EmptySet
<1>3. CASE B # {}
  <2> DEFINE Ranks == {Cardinality(Ahead(S, R, t)) : t \in B}
  <2>1. Ranks \in SUBSET Nat /\ \A r \in Ranks : r <= K
    <3>1. ASSUME NEW t \in B PROVE Cardinality(Ahead(S, R, t)) \in Nat /\ Cardinality(Ahead(S, R, t)) <= K
      <4>1. t \in S /\ Cardinality(Ahead(S, R, t)) < K
        BY DEF Best
      <4>2. Cardinality(Ahead(S, R, t)) \in Nat
        BY <4>1, RanksGrow
      <4> QED BY <4>1, <4>2
    <3> QED BY <3>1
  <2>2. Ranks # {} /\ IsFiniteSet(Ranks)
    BY <1>3, <2>1, FS_BoundedSetOfNaturals
  <2>3. PICK r \in Ranks : \A q \in Ranks : q <= r
    BY <2>1, <2>2, FiniteHasLargest
  <2>4. PICK t \in B : r = Cardinality(Ahead(S, R, t))
    OBVIOUS
  <2>5. t \in S /\ r < K /\ r \in Nat
    BY <2>1, <2>4 DEF Best
  <2>6. B \ {t} \in SUBSET Ahead(S, R, t)
    <3>1. ASSUME NEW y \in B \ {t}, <<t, y>> \in R PROVE FALSE
      <4>1. y \in S /\ Cardinality(Ahead(S, R, y)) \in Ranks
        BY <1>1
      <4>2. PICK q \in Nat : q = Cardinality(Ahead(S, R, y)) /\ q <= r
        BY <2>1, <2>3, <4>1
      <4>3. r < q
        BY <2>4, <2>5, <3>1, <4>1, <4>2, RanksGrow
      <4> QED BY <2>5, <4>2, <4>3
    <3>2. ASSUME NEW y \in B \ {t} PROVE y \in Ahead(S, R, t)
      <4>1. y \in S /\ t \in S /\ y # t
        BY <1>1, <2>5
      <4>2. <<y, t>> \in R
        BY <3>1, <4>1 DEF StrictOrder
      <4> QED BY <4>1, <4>2 DEF Ahead
    <3> QED BY <3>2
  <2>7. IsFiniteSet(Ahead(S, R, t))
    <3>1. Ahead(S, R, t) \in SUBSET S
      BY DEF Ahead
    <3> QED BY <3>1, FS_Subset
  <2>8. Cardinality(B \ {t}) <= r
    BY <2>4, <2>6, <2>7, FS_Subset
  <2>9. Cardinality(B \ {t}) = Cardinality(B) - 1
    BY <1>1, FS_RemoveElement
  <2>10. PICK c \in Nat : c = Cardinality(B)
    BY <1>1
  <2>11. c - 1 <= r
    BY <2>8, <2>9, <2>10
  <2> QED BY <1>1, <2>5, <2>10, <2>11
<1> QED BY <1>2, <1>3

\* When something is left out, the list is full.
LEMMA BestAreFull ==
    ASSUME NEW S, NEW R, IsFiniteSet(S), StrictOrder(S, R), NEW K \in Nat, Best(S, R, K) # S
    PROVE  Cardinality(Best(S, R, K)) = K
<1> DEFINE B == Best(S, R, K)
<1>1. B \subseteq S /\ S \ B # {}
  BY DEF Best
<1> DEFINE Ranks == {Cardinality(Ahead(S, R, y)) : y \in S \ B}
<1>2. Ranks \in SUBSET Nat /\ Ranks # {}
  BY <1>1, RanksGrow
<1>3. PICK r \in Ranks : \A q \in Ranks : r <= q
  BY <1>2, SmallestExists
<1>4. PICK x \in S \ B : r = Cardinality(Ahead(S, R, x))
  OBVIOUS
<1>5. r \in Nat /\ r >= K
  <2>1. r \in Nat
    BY <1>2
  <2>2. ~(r < K)
    BY <1>4 DEF Best
  <2> QED BY <2>1, <2>2
<1>6. ASSUME NEW t \in B PROVE t \in Ahead(S, R, x)
  <2>1. <<t, x>> \in R /\ t \in S
    BY <1>1, BestComeFirst
  <2> QED BY <2>1 DEF Ahead
<1>7. ASSUME NEW y \in Ahead(S, R, x) PROVE y \in B
  <2>1. y \in S /\ <<y, x>> \in R
    BY DEF Ahead
  <2>2. CASE y \in S \ B
    <3>1. Cardinality(Ahead(S, R, y)) \in Ranks
      BY <2>2
    <3>2. PICK q \in Nat : q = Cardinality(Ahead(S, R, y)) /\ r <= q
      BY <1>2, <1>3, <3>1
    <3>3. q < r
      BY <1>4, <2>1, <3>2, RanksGrow
    <3> QED BY <1>5, <3>2, <3>3
  <2> QED BY <2>1, <2>2
<1>8. B = Ahead(S, R, x)
  BY <1>6, <1>7
<1>9. Cardinality(B) = r
  BY <1>4, <1>8
<1>10. Cardinality(B) <= K
  BY BestAreFew
<1> QED BY <1>5, <1>9, <1>10

(***************************************************************************)
(* Tasks dealt out to shards.                                              *)
(***************************************************************************)
LEMMA Quotient ==
    ASSUME NEW x \in Nat, NEW c \in Nat, c # 0
    PROVE  x \div c \in Nat /\ c * (x \div c) <= x /\ x < c * (x \div c) + c
  OBVIOUS

LEMMA ProductGrows ==
    ASSUME NEW a \in Nat, NEW b \in Nat, NEW c \in Nat
    PROVE  /\ a <= b => c * a <= c * b
           /\ a < b => c * a + c <= c * b
           /\ c * a < c * b => a < b
<1>1. ASSUME a <= b PROVE c * a <= c * b
  <2>1. b - a \in Nat /\ b = a + (b - a)
    BY <1>1
  <2>2. c * (b - a) \in Nat /\ c * b = c * a + c * (b - a)
    BY <2>1
  <2> QED BY <2>2
<1>2. ASSUME a < b PROVE c * a + c <= c * b
  <2>1. b - a - 1 \in Nat /\ b = (a + 1) + (b - a - 1)
    BY <1>2
  <2>2. c * (b - a - 1) \in Nat /\ c * b = c * (a + 1) + c * (b - a - 1) /\ c * (a + 1) = c * a + c
    BY <2>1
  <2> QED BY <2>2
<1>3. ASSUME c * a < c * b, ~(a < b) PROVE FALSE
  <2>1. b <= a
    BY <1>3
  <2>2. b < a => c * b + c <= c * a
    <3>1. ASSUME b < a PROVE c * b + c <= c * a
      <4>1. a - b - 1 \in Nat /\ a = (b + 1) + (a - b - 1)
        BY <3>1
      <4>2. c * (a - b - 1) \in Nat /\ c * a = c * (b + 1) + c * (a - b - 1) /\ c * (b + 1) = c * b + c
        BY <4>1
      <4> QED BY <4>2
    <3> QED BY <3>1
  <2>3. c * a \in Nat /\ c * b \in Nat
    OBVIOUS
  <2> QED BY <1>3, <2>1, <2>2, <2>3
<1> QED BY <1>1, <1>2, <1>3

\* The number of tasks of the i-th of c shards, and its k-th task, of n.
Count(n, c, i) == (n - i) \div c + 1
Task(c, i, k) == i + (k - 1) * c

LEMMA TaskFacts ==
    ASSUME NEW n \in Nat, NEW c \in Nat, c # 0, c <= n, NEW i \in 1..c
    PROVE  /\ Count(n, c, i) \in Nat /\ Count(n, c, i) >= 1
           /\ \A k \in 1..Count(n, c, i) : Task(c, i, k) \in 1..n
           /\ \A k \in 1..n : Task(c, i, k) \in 1..n => k <= Count(n, c, i)
<1>1. n - i \in Nat
  OBVIOUS
<1>2. PICK q \in Nat : q = (n - i) \div c /\ c * q <= n - i /\ n - i < c * q + c
  BY <1>1, Quotient
<1>3. Count(n, c, i) = q + 1
  BY <1>2 DEF Count
<1>4. ASSUME NEW k \in 1..(q + 1) PROVE Task(c, i, k) \in 1..n
  <2>1. k - 1 \in Nat /\ k - 1 <= q
    OBVIOUS
  <2>2. PICK p \in Nat : p = c * (k - 1) /\ p <= c * q
    BY <2>1, ProductGrows
  <2>3. Task(c, i, k) = i + p
    BY <2>1, <2>2 DEF Task
  <2>4. PICK z \in Nat : z = c * q
    OBVIOUS
  <2> QED BY <1>2, <2>2, <2>3, <2>4
<1>5. ASSUME NEW k \in 1..n, Task(c, i, k) \in 1..n, ~(k <= q + 1) PROVE FALSE
  <2>1. k - 1 \in Nat /\ q < k - 1
    BY <1>5
  <2>2. c * q + c <= c * (k - 1)
    BY <2>1, ProductGrows
  <2>3. PICK p \in Nat, z \in Nat : p = c * (k - 1) /\ z = c * q
    BY <2>1
  <2>4. Task(c, i, k) = i + p
    BY <2>1, <2>3 DEF Task
  <2> QED BY <1>2, <1>5, <2>2, <2>3, <2>4
<1> QED BY <1>3, <1>4, <1>5

\* Every task is the k-th of one shard.
LEMMA TaskExists ==
    ASSUME NEW n \in Nat, NEW c \in Nat, c # 0, c <= n, NEW t \in 1..n
    PROVE  \E i \in 1..c, k \in 1..n : k <= Count(n, c, i) /\ Task(c, i, k) = t
<1>1. t - 1 \in Nat
  OBVIOUS
<1>2. PICK q \in Nat : c * q <= t - 1 /\ t - 1 < c * q + c
  BY <1>1, Quotient
<1>3. PICK z \in Nat : z = c * q
  OBVIOUS
<1>4. PICK i \in 1..c : i = t - z
  <2>1. t - z \in 1..c
    BY <1>2, <1>3
  <2> QED BY <2>1
<1>5. q <= z
  <2>1. PICK e \in Nat : c = 1 + e
    <3>1. c - 1 \in Nat /\ c = 1 + (c - 1)
      OBVIOUS
    <3> QED BY <3>1
  <2>2. e * q \in Nat /\ z = q + e * q
    BY <1>3, <2>1
  <2> QED BY <2>2
<1>6. q + 1 \in 1..n
  BY <1>2, <1>3, <1>5
<1>7. Task(c, i, q + 1) = t
  <2>1. (q + 1) - 1 = q /\ q * c = z
    BY <1>3
  <2> QED BY <1>4, <2>1 DEF Task
<1> QED BY <1>6, <1>7, TaskFacts

LEMMA TaskUnique ==
    ASSUME NEW c \in Nat, c # 0, NEW i \in 1..c, NEW j \in 1..c, NEW k \in Nat, NEW m \in Nat,
           k >= 1, m >= 1, Task(c, i, k) = Task(c, j, m)
    PROVE  i = j /\ k = m
<1>1. PICK a \in Nat, b \in Nat : a = k - 1 /\ b = m - 1
  <2>1. k - 1 \in Nat /\ m - 1 \in Nat
    OBVIOUS
  <2> QED BY <2>1
<1>2. PICK p \in Nat, r \in Nat : p = c * a /\ r = c * b
  OBVIOUS
<1>3. i + p = j + r
  <2>1. (k - 1) * c = p /\ (m - 1) * c = r
    BY <1>1, <1>2
  <2> QED BY <2>1 DEF Task
<1>4. ~(a < b)
  <2>1. a < b => p + c <= r
    BY <1>2, ProductGrows
  <2> QED BY <1>3, <2>1
<1>5. ~(b < a)
  <2>1. b < a => r + c <= p
    BY <1>2, ProductGrows
  <2> QED BY <1>3, <2>1
<1>6. a = b
  BY <1>4, <1>5
<1>7. p = r
  BY <1>2, <1>6
<1> QED BY <1>1, <1>3, <1>6, <1>7

LEMMA TasksAscend ==
    ASSUME NEW c \in Nat, c # 0, NEW i \in Nat, NEW k \in Nat, k >= 2
    PROVE  Task(c, i, k - 1) < Task(c, i, k)
<1>1. PICK a \in Nat : k = a + 2
  <2>1. k - 2 \in Nat /\ k = (k - 2) + 2
    OBVIOUS
  <2> QED BY <2>1
<1>2. (k - 1) - 1 = a /\ k - 1 = a + 1
  BY <1>1
<1>3. (a + 1) * c = a * c + c /\ a * c \in Nat
  OBVIOUS
<1> QED BY <1>2, <1>3 DEF Task

\* No shard has two more than another.
LEMMA CountsAreEven ==
    ASSUME NEW n \in Nat, NEW c \in Nat, c # 0, c <= n, NEW i \in 1..c, NEW j \in 1..c
    PROVE  Count(n, c, i) <= Count(n, c, j) + 1
<1>1. n - i \in Nat /\ n - j \in Nat
  OBVIOUS
<1>2. PICK p \in Nat : p = (n - i) \div c /\ c * p <= n - i
  BY <1>1, Quotient
<1>3. PICK q \in Nat : q = (n - j) \div c /\ n - j < c * q + c
  BY <1>1, Quotient
<1>4. PICK x \in Nat, z \in Nat : x = c * p /\ z = c * q
  OBVIOUS
<1>5. c * (q + 2) = z + c + c
  BY <1>4
<1>6. c * p < c * (q + 2)
  BY <1>2, <1>3, <1>4, <1>5
<1>7. p < q + 2
  BY <1>6, ProductGrows
<1>8. Count(n, c, i) = p + 1 /\ Count(n, c, j) = q + 1
  BY <1>2, <1>3 DEF Count
<1> QED BY <1>7, <1>8

LEMMA ShardNumbers ==
    /\ IsFiniteSet(Workers) /\ IsFiniteSet(Paths)
    /\ Workers \subseteq Nat /\ Paths \subseteq Nat /\ Scores \subseteq Nat /\ Limits \subseteq Nat
    /\ DefaultLimit \in Nat /\ DefaultLimit # 0 /\ MaxFanout \in Nat /\ MaxFanout # 0
    /\ MaxTasks \in Nat /\ MaxMoves \in Nat
<1>1. Results!IsFiniteSet(Workers) /\ Results!IsFiniteSet(Paths)
  BY CtlConstants DEF Results!ShardAssumption
<1>2. IsFiniteSet(Workers) /\ IsFiniteSet(Paths)
  BY <1>1 DEF Results!IsFiniteSet, IsFiniteSet
<1> QED BY <1>2, CtlConstants DEF Results!ShardAssumption

LEMMA CardinalitiesAgree == \A S : Results!Cardinality(S) = Cardinality(S)
  BY DEF Results!Cardinality, Cardinality

\* What a payload is split into.
IsDealt(split, n, c) == split = [i \in 1..c |-> [k \in 1..Count(n, c, i) |-> Task(c, i, k)]]

LEMMA SplitIs ==
    ASSUME tasks \in Nat, NEW f \in Nat, f # 0, NEW split, split = Results!SplitPayload(f)
    PROVE  /\ tasks = 0 => split = [i \in 1..f |-> <<>>]
           /\ tasks # 0 => \E c \in Nat : c # 0 /\ c <= tasks /\ c <= f /\ IsDealt(split, tasks, c)
<1>1. CASE tasks = 0
  BY <1>1 DEF Results!SplitPayload
<1>2. CASE tasks # 0
  <2>1. PICK c \in Nat : c = (IF f < tasks THEN f ELSE tasks) /\ c # 0 /\ c <= tasks /\ c <= f
    BY <1>2
  <2>2. split = Results!RoundRobin(f)
    BY <1>2 DEF Results!SplitPayload
  <2>3. IsDealt(split, tasks, c)
    BY <2>1, <2>2 DEF Results!RoundRobin, IsDealt, Count, Task
  <2> QED BY <1>2, <2>1, <2>3
<1> QED BY <1>1, <1>2

LEMMA SplitTyped ==
    ASSUME tasks \in Nat, NEW f \in 1..MaxFanout, NEW split, split = Results!SplitPayload(f)
    PROVE  \E c \in 1..MaxFanout : Len(split) = c /\ split \in [1..c -> Seq(1..tasks)]
<1> USE ShardNumbers
<1>0. f \in Nat /\ f # 0 /\ f <= MaxFanout
  OBVIOUS
<1>1. ASSUME NEW c \in Nat, split \in [1..c -> Seq(1..tasks)] PROVE Len(split) = c
  <2>1. split \in Seq(Seq(1..tasks))
    BY <1>1, SeqDef
  <2>2. PICK m \in Nat : m = Len(split) /\ DOMAIN split = 1..m
    BY <2>1, LenProperties
  <2>3. 1..m = 1..c
    BY <1>1, <2>2
  <2> QED BY <2>2, <2>3
<1>2. CASE tasks = 0
  <2>1. split = [i \in 1..f |-> <<>>]
    BY <1>0, <1>2, SplitIs
  <2>2. <<>> \in Seq(1..tasks)
    BY EmptySeq
  <2>3. split \in [1..f -> Seq(1..tasks)]
    BY <2>1, <2>2
  <2> QED BY <1>0, <1>1, <2>3
<1>3. CASE tasks # 0
  <2>1. PICK c \in Nat : c # 0 /\ c <= tasks /\ c <= f /\ IsDealt(split, tasks, c)
    BY <1>0, <1>3, SplitIs
  <2>2. ASSUME NEW i \in 1..c PROVE [k \in 1..Count(tasks, c, i) |-> Task(c, i, k)] \in Seq(1..tasks)
    <3>1. PICK m \in Nat : m = Count(tasks, c, i)
      BY <2>1, TaskFacts
    <3>2. \A k \in 1..m : Task(c, i, k) \in 1..tasks
      BY <2>1, <3>1, TaskFacts
    <3>3. [k \in 1..m |-> Task(c, i, k)] \in Seq(1..tasks)
      BY <3>2, IsASeq
    <3> QED BY <3>1, <3>3
  <2>3. split \in [1..c -> Seq(1..tasks)]
    BY <2>1, <2>2 DEF IsDealt
  <2>4. c \in 1..MaxFanout
    BY <1>0, <2>1
  <2> QED BY <1>1, <2>3, <2>4
<1> QED BY <1>2, <1>3

\* Every task is given to exactly one shard.
LEMMA DealtOut ==
    ASSUME Results!ShardInvariant PROVE Results!TasksAreDealtOut
<1> USE ShardNumbers
<1> SUFFICES ASSUME selected # <<>>, tasks > 0
             PROVE  /\ \A t \in 1..tasks :
                          Results!Cardinality({p \in Results!Shards \X (1..tasks) :
                              /\ p[2] <= Len(chunks[p[1]]) /\ chunks[p[1]][p[2]] = t}) = 1
                    /\ \A i, j \in Results!Shards :
                          Len(chunks[i]) > 0 /\ Len(chunks[i]) <= Len(chunks[j]) + 1
                    /\ \A i \in Results!Shards : \A k \in 2..Len(chunks[i]) : chunks[i][k - 1] < chunks[i][k]
  BY DEF Results!TasksAreDealtOut
<1>1. tasks \in Nat /\ tasks # 0 /\ chunks \in [Results!Shards -> Seq(1..tasks)]
  BY DEF Results!ShardInvariant, Results!TypeOK
<1>2. PICK f \in 1..MaxFanout : chunks = Results!SplitPayload(f)
  BY DEF Results!ShardInvariant, Results!VerdictStands
<1>3. f \in Nat /\ f # 0
  OBVIOUS
<1>a. PICK c \in Nat : c # 0 /\ c <= tasks /\ IsDealt(chunks, tasks, c)
  BY <1>1, <1>2, <1>3, SplitIs
<1>4. c # 0 /\ c <= tasks /\ chunks = [i \in 1..c |-> [k \in 1..Count(tasks, c, i) |-> Task(c, i, k)]]
  BY <1>a DEF IsDealt
<1>5. Results!Shards = 1..c
  BY <1>1, <1>4
<1>6. ASSUME NEW i \in 1..c
      PROVE  /\ Len(chunks[i]) = Count(tasks, c, i)
             /\ \A k \in 1..Count(tasks, c, i) : chunks[i][k] = Task(c, i, k)
  <2>1. PICK m \in Nat : m = Count(tasks, c, i)
    BY <1>1, <1>4, TaskFacts
  <2>2. PICK s : s = chunks[i]
    OBVIOUS
  <2>3. s = [k \in 1..m |-> Task(c, i, k)]
    BY <1>4, <2>1, <2>2
  <2>4. s \in Seq(1..tasks)
    BY <1>1, <1>5, <2>2
  <2>5. PICK l \in Nat : l = Len(s) /\ DOMAIN s = 1..l
    BY <2>4, LenProperties
  <2>6. 1..l = 1..m
    BY <2>3, <2>5
  <2>7. l = m
    BY <2>6
  <2> QED BY <2>1, <2>2, <2>3, <2>5, <2>7
<1>7. ASSUME NEW t \in 1..tasks
      PROVE  Results!Cardinality({p \in Results!Shards \X (1..tasks) :
                 /\ p[2] <= Len(chunks[p[1]]) /\ chunks[p[1]][p[2]] = t}) = 1
  <2> DEFINE P == {p \in Results!Shards \X (1..tasks) :
                 /\ p[2] <= Len(chunks[p[1]]) /\ chunks[p[1]][p[2]] = t}
  <2>1. PICK i \in 1..c, k \in 1..tasks : k <= Count(tasks, c, i) /\ Task(c, i, k) = t
    <3>1. PICK n : n = tasks /\ n \in Nat /\ c \in Nat /\ c # 0 /\ c <= n /\ t \in 1..n
      BY <1>1, <1>4
    <3>2. \E i \in 1..c, k \in 1..n : k <= Count(n, c, i) /\ Task(c, i, k) = t
      BY ONLY <3>1, TaskExists, Zenon
    <3> QED BY <3>1, <3>2
  <2>2. ASSUME NEW j \in 1..c, NEW m \in 1..tasks
        PROVE  (m <= Len(chunks[j]) /\ chunks[j][m] = t) <=> (m <= Count(tasks, c, j) /\ Task(c, j, m) = t)
    <3>1. Len(chunks[j]) = Count(tasks, c, j)
      BY <1>6
    <3>2. m <= Count(tasks, c, j) => chunks[j][m] = Task(c, j, m)
      <4>1. PICK x \in Nat : x = Count(tasks, c, j)
        BY <1>1, <1>4, TaskFacts
      <4>2. m <= x => m \in 1..x
        OBVIOUS
      <4> QED BY <1>6, <4>1, <4>2
    <3> QED BY <3>1, <3>2
  <2>3. ASSUME NEW j \in 1..c, NEW m \in 1..tasks, Task(c, j, m) = t PROVE j = i /\ m = k
    <3>1. m \in Nat /\ m >= 1 /\ k \in Nat /\ k >= 1
      BY <1>1
    <3> QED BY <1>4, <2>1, <2>3, <3>1, TaskUnique
  <2>4. P = {<<i, k>>}
    <3>1. <<i, k>> \in P
      BY <1>5, <2>1, <2>2
    <3>2. ASSUME NEW p \in P PROVE p = <<i, k>>
      <4>1. PICK j \in 1..c, m \in 1..tasks : p = <<j, m>> /\ m <= Len(chunks[j]) /\ chunks[j][m] = t
        BY <1>5
      <4> QED BY <2>2, <2>3, <4>1
    <3> HIDE DEF P
    <3> QED BY <3>1, <3>2
  <2>5. Cardinality(P) = 1
    BY <2>4, FS_Singleton
  <2> QED BY <2>5, CardinalitiesAgree
<1>8. ASSUME NEW i \in 1..c, NEW j \in 1..c
      PROVE  Len(chunks[i]) > 0 /\ Len(chunks[i]) <= Len(chunks[j]) + 1
  <2>1. PICK x \in Nat, y \in Nat : x = Count(tasks, c, i) /\ y = Count(tasks, c, j) /\ x >= 1
    BY <1>1, <1>4, TaskFacts
  <2>2. x <= y + 1
    BY <1>1, <1>4, <2>1, CountsAreEven
  <2> QED BY <1>6, <2>1, <2>2
<1>9. ASSUME NEW i \in 1..c, NEW k \in 2..Len(chunks[i]) PROVE chunks[i][k - 1] < chunks[i][k]
  <2>1. PICK x \in Nat : x = Count(tasks, c, i)
    BY <1>1, <1>4, TaskFacts
  <2>2. k \in 2..x /\ k - 1 \in 1..x /\ k \in 1..x /\ k \in Nat /\ k >= 2
    BY <1>6, <2>1
  <2>3. chunks[i][k - 1] = Task(c, i, k - 1) /\ chunks[i][k] = Task(c, i, k)
    BY <1>6, <2>1, <2>2
  <2> QED BY <1>4, <2>2, <2>3, TasksAscend
<1> QED BY <1>5, <1>7, <1>8, <1>9

(***************************************************************************)
(* The steps of the shards.                                                *)
(***************************************************************************)
LEMMA ShardsStart == Results!Init => Results!ShardInvariant
<1> USE ShardNumbers
<1> SUFFICES ASSUME Results!Init PROVE Results!ShardInvariant
  OBVIOUS
<1>0. <<>> \in Seq(online) /\ Len(<<>>) = 0 /\ DOMAIN <<>> = {} /\ <<>> \in [{} -> Seq(1..tasks)]
      /\ <<>> \in [{} -> online] /\ <<>> \in [{} -> SUBSET online]
  BY EmptySeq
<1>1. Results!Shards = {}
  BY <1>0 DEF Results!Init, Results!Shards
<1>2. <<>> \in Results!Disks
  <2>1. <<>> \in [{} -> Scores]
    OBVIOUS
  <2>2. {} \in SUBSET Paths
    OBVIOUS
  <2>3. [{} -> Scores] \in {[indexed -> Scores] : indexed \in SUBSET Paths}
    BY <2>2
  <2> QED BY <2>1, <2>3 DEF Results!Disks
<1>3. online \subseteq Workers /\ disk \in [online -> Results!Disks] /\ embedder \in [online -> Models]
      /\ kind \in {"search", "exec"} /\ limit \in Limits \cup {0} /\ tasks \in 0..MaxTasks
  BY <1>2 DEF Results!Init
<1>4. result = [status |-> "queued", hits |-> {}] /\ selected = <<>> /\ chunks = <<>> /\ node = <<>>
      /\ attempted = <<>> /\ answers = <<>> /\ lost = {}
  BY DEF Results!Init
<1>5. Results!TypeOK
  BY <1>0, <1>1, <1>3, <1>4 DEF Results!TypeOK
<1>6. Results!VerdictStands
  BY <1>4 DEF Results!VerdictStands
<1> QED BY <1>5, <1>6 DEF Results!ShardInvariant

\* The merged hits are hits.
LEMMA MergedTyped ==
    ASSUME Results!TypeOK
    PROVE  /\ Results!MergedHits \subseteq Results!Hits
           /\ Results!MergeSearchResults \subseteq Results!MergedHits
           /\ \A h \in Results!MergedHits : \E i \in Results!Answered :
                 \E d \in Results!Search(node[i]) :
                    h = [score |-> d.score, node |-> d.node, path |-> d.path, shard |-> i]
           /\ \A i \in Results!Answered : \A d \in Results!Search(node[i]) :
                 [score |-> d.score, node |-> d.node, path |-> d.path, shard |-> i] \in Results!MergedHits
           /\ \A n \in online : \A d \in Results!OnDisk(n) :
                 d \in [score : Scores, node : {n}, path : Paths]
           /\ \A n \in online : Results!Search(n) \subseteq Results!OnDisk(n)
           /\ Results!Answered \subseteq Results!Shards /\ Results!Shards \subseteq 1..MaxFanout
           /\ \A i \in Results!Answered : node[i] \in online
<1> USE ShardNumbers
<1>1. Results!Answered \subseteq Results!Shards /\ \A i \in Results!Shards : node[i] \in online
  BY DEF Results!Answered, Results!TypeOK
<1>2. Results!Shards \subseteq 1..MaxFanout
  <2>1. selected \in Seq(online) /\ Len(selected) <= MaxFanout
    BY DEF Results!TypeOK
  <2>2. PICK m \in Nat : m = Len(selected) /\ DOMAIN selected = 1..m
    BY <2>1, LenProperties
  <2> QED BY <2>1, <2>2 DEF Results!Shards
<1>3. ASSUME NEW n \in online, NEW d \in Results!OnDisk(n) PROVE d \in [score : Scores, node : {n}, path : Paths]
  <2>1. PICK p \in DOMAIN disk[n] : d = [score |-> disk[n][p], node |-> n, path |-> p]
    BY DEF Results!OnDisk
  <2>2. PICK indexed \in SUBSET Paths : disk[n] \in [indexed -> Scores]
    BY DEF Results!TypeOK, Results!Disks
  <2> QED BY <2>1, <2>2
<1>4. \A n \in online : Results!Search(n) \subseteq Results!OnDisk(n)
  BY DEF Results!Search
<1>5. \A h \in Results!MergedHits : \E i \in Results!Answered :
         \E d \in Results!Search(node[i]) :
             h = [score |-> d.score, node |-> d.node, path |-> d.path, shard |-> i]
  BY DEF Results!MergedHits
<1>6. \A i \in Results!Answered : \A d \in Results!Search(node[i]) :
         [score |-> d.score, node |-> d.node, path |-> d.path, shard |-> i] \in Results!MergedHits
  BY DEF Results!MergedHits
<1>7. ASSUME NEW h \in Results!MergedHits PROVE h \in Results!Hits
  <2>0. PICK i \in Results!Answered : \E d \in Results!Search(node[i]) :
            h = [score |-> d.score, node |-> d.node, path |-> d.path, shard |-> i]
    BY <1>5
  <2>1. PICK d \in Results!Search(node[i]) :
            h = [score |-> d.score, node |-> d.node, path |-> d.path, shard |-> i]
    BY <2>0
  <2>2. node[i] \in online /\ node[i] \in Workers /\ i \in 1..MaxFanout
    BY <1>1, <1>2 DEF Results!TypeOK
  <2>3. d \in [score : Scores, node : {node[i]}, path : Paths]
    BY <1>3, <1>4, <2>2
  <2> QED BY <2>1, <2>2, <2>3 DEF Results!Hits
<1>8. Results!MergeSearchResults \subseteq Results!MergedHits
  BY DEF Results!MergeSearchResults
<1> QED BY <1>1, <1>2, <1>3, <1>4, <1>5, <1>6, <1>7, <1>8

\* Until its verdict the job's answers may change.
LEMMA OpenSteps ==
    ASSUME Results!ShardInvariant,
           (\E fanout \in 1..MaxFanout : Results!Submit(fanout))
             \/ \E i \in 1..MaxFanout : Results!Answer(i) \/ Results!Move(i) \/ Results!Reject(i)
    PROVE  result.status = "queued" /\ result' = result
<1>1. ASSUME selected = <<>> PROVE result.status = "queued"
  BY <1>1 DEF Results!ShardInvariant, Results!VerdictStands
<1>2. ASSUME NEW i, Results!Pending(i) PROVE result.status = "queued"
  BY <1>2 DEF Results!ShardInvariant, Results!VerdictStands, Results!Pending
<1> QED
  BY <1>1, <1>2 DEF Results!Submit, Results!Answer, Results!Move, Results!Reject

LEMMA SubmitKeeps ==
    ASSUME Results!ShardInvariant, NEW f \in 1..MaxFanout, Results!Submit(f)
    PROVE  Results!ShardInvariant'
<1> USE ShardNumbers
<1>0. Results!TypeOK /\ Results!VerdictStands
  BY DEF Results!ShardInvariant
<1>1. PICK split : split = Results!SplitPayload(f)
  OBVIOUS
<1>2. PICK count : count = Len(split)
  OBVIOUS
<1>3. tasks \in Nat
  BY <1>0 DEF Results!TypeOK
<1>4. count \in 1..MaxFanout /\ split \in [1..count -> Seq(1..tasks)]
  BY <1>1, <1>2, <1>3, SplitTyped
<1>5. PICK chosen \in [1..count -> online] : selected' = chosen /\ node' = chosen
  BY <1>1, <1>2 DEF Results!Submit
<1>6. /\ chunks' = split
      /\ attempted' = [i \in 1..count |-> {}] /\ answers' = [i \in 1..count |-> {}]
      /\ UNCHANGED <<online, disk, embedder, kind, limit, tasks, lost, result>>
      /\ selected = <<>>
  BY <1>1, <1>2 DEF Results!Submit, Results!given
<1>7. result.status = "queued"
  BY OpenSteps
<1>8. selected' \in Seq(online) /\ Len(selected') <= MaxFanout /\ Results!Shards' = 1..count
  <2>1. chosen \in Seq(online)
    BY <1>4, SeqDef
  <2>2. PICK m \in Nat : m = Len(chosen) /\ DOMAIN chosen = 1..m
    BY <2>1, LenProperties
  <2>3. 1..m = 1..count /\ count \in Nat /\ count <= MaxFanout
    BY <1>4, <2>2
  <2>4. m = count
    BY <2>3
  <2> QED BY <1>5, <2>1, <2>2, <2>3, <2>4 DEF Results!Shards
<1>9. lost = {}
  <2>1. DOMAIN <<>> = {}
    BY EmptySeq
  <2> QED BY <1>0, <1>6, <2>1 DEF Results!TypeOK, Results!Shards
<1>10. Results!TypeOK'
  BY <1>0, <1>4, <1>5, <1>6, <1>8, <1>9 DEF Results!TypeOK, Results!Hits
<1>11. Results!VerdictStands'
  <2>1. Results!SplitPayload(f)' = Results!SplitPayload(f)
    BY <1>6 DEF Results!SplitPayload, Results!RoundRobin
  <2>2. result.hits = {}
    BY <1>0, <1>7 DEF Results!VerdictStands
  <2> QED BY <1>1, <1>6, <1>7, <2>1, <2>2 DEF Results!VerdictStands
<1> QED BY <1>10, <1>11 DEF Results!ShardInvariant

LEMMA ShardStepKeeps ==
    ASSUME Results!ShardInvariant, NEW i \in 1..MaxFanout,
           Results!Answer(i) \/ Results!Move(i) \/ Results!Reject(i)
    PROVE  Results!ShardInvariant'
<1> USE ShardNumbers
<1>0. Results!TypeOK /\ Results!VerdictStands
  BY DEF Results!ShardInvariant
<1>1. result.status = "queued" /\ result' = result
  BY OpenSteps
<1>2. i \in Results!Shards /\ UNCHANGED <<online, disk, embedder, kind, limit, tasks, chunks, selected>>
  BY DEF Results!Answer, Results!Move, Results!Reject, Results!Pending, Results!given
<1>3. Results!Shards' = Results!Shards
  BY <1>2 DEF Results!Shards
<1>4. node \in [Results!Shards -> online] /\ attempted \in [Results!Shards -> SUBSET online]
      /\ answers \in [Results!Shards -> SUBSET online] /\ lost \subseteq Results!Shards
  BY <1>0 DEF Results!TypeOK
<1>5. /\ node' \in [Results!Shards -> online] /\ attempted' \in [Results!Shards -> SUBSET online]
      /\ answers' \in [Results!Shards -> SUBSET online] /\ lost' \subseteq Results!Shards
  <2>1. CASE Results!Answer(i)
    BY <1>2, <1>4, <2>1 DEF Results!Answer
  <2>2. CASE Results!Move(i)
    <3>1. PICK tried : tried = attempted[i] \cup {node[i]} /\ tried \in SUBSET online
      BY <1>2, <1>4
    <3>2. /\ attempted' = [attempted EXCEPT ![i] = tried] /\ answers' = answers
          /\ \/ lost' = lost \cup {i} /\ node' = node
             \/ lost' = lost /\ \E n \in online : node' = [node EXCEPT ![i] = n]
      BY <2>2, <3>1 DEF Results!Move
    <3> QED BY <1>2, <1>4, <3>1, <3>2
  <2>3. CASE Results!Reject(i)
    BY <1>2, <1>4, <2>3 DEF Results!Reject
  <2> QED BY <2>1, <2>2, <2>3
<1>6. Results!TypeOK'
  BY <1>0, <1>1, <1>2, <1>3, <1>5 DEF Results!TypeOK, Results!Hits
<1>7. Results!VerdictStands'
  <2>1. \A f : Results!SplitPayload(f)' = Results!SplitPayload(f)
    BY <1>2 DEF Results!SplitPayload, Results!RoundRobin
  <2>2. selected # <<>> => \E f \in 1..MaxFanout : chunks' = Results!SplitPayload(f)'
    BY <1>0, <1>2, <2>1 DEF Results!VerdictStands
  <2>3. result.hits = {}
    BY <1>0, <1>1 DEF Results!VerdictStands
  <2> QED BY <1>1, <1>2, <2>2, <2>3 DEF Results!VerdictStands
<1> QED BY <1>6, <1>7 DEF Results!ShardInvariant

LEMMA FinishKeeps ==
    ASSUME Results!ShardInvariant, Results!Finish PROVE Results!ShardInvariant'
<1> USE ShardNumbers
<1>0. Results!TypeOK /\ Results!VerdictStands
  BY DEF Results!ShardInvariant
<1>1. UNCHANGED <<online, disk, embedder, kind, limit, tasks, chunks, selected, node, attempted, answers, lost>>
  BY DEF Results!Finish, Results!given
<1> DEFINE H == IF kind = "search" /\ Results!OneModel THEN Results!MergeSearchResults ELSE {}
<1>2. PICK s \in {"done", "failed"} : result' = [status |-> s, hits |-> H]
  BY DEF Results!Finish
<1>3. H \subseteq Results!Hits
  BY <1>0, <1>2, MergedTyped
<1>4. Results!Hits' = Results!Hits /\ Results!Shards' = Results!Shards
  BY <1>1 DEF Results!Hits, Results!Shards
<1>5. Results!TypeOK'
  BY <1>0, <1>1, <1>2, <1>3, <1>4 DEF Results!TypeOK
<1>6. Results!OneModel' = Results!OneModel /\ Results!MergeSearchResults' = Results!MergeSearchResults
  BY <1>1 DEF Results!OneModel, Results!MergeSearchResults, Results!MergedHits, Results!Answered,
     Results!Shards, Results!Search, Results!OnDisk, Results!Limit, Results!Before
<1>7. selected # <<>> /\ \A i \in Results!Shards : ~Results!Pending(i)
  BY DEF Results!Finish
<1>8. \A i \in Results!Shards' : ~Results!Pending(i)'
  BY <1>1, <1>4, <1>7 DEF Results!Pending
<1>9. \E f \in 1..MaxFanout : chunks' = Results!SplitPayload(f)'
  <2>1. \A f : Results!SplitPayload(f)' = Results!SplitPayload(f)
    BY <1>1 DEF Results!SplitPayload, Results!RoundRobin
  <2> QED BY <1>0, <1>1, <1>7, <2>1 DEF Results!VerdictStands
<1>10. Results!VerdictStands'
  BY <1>1, <1>2, <1>6, <1>7, <1>8, <1>9 DEF Results!VerdictStands
<1> QED BY <1>5, <1>10 DEF Results!ShardInvariant

LEMMA ShardSteps ==
    ASSUME Results!ShardInvariant, Results!Next PROVE Results!ShardInvariant'
  BY SubmitKeeps, ShardStepKeeps, FinishKeeps DEF Results!Next

(***************************************************************************)
(* Merging.  Both the node and the controller keep the best of a finite    *)
(* set in a strict order.                                                  *)
(***************************************************************************)
NodeOrder(n) ==
    {p \in Results!OnDisk(n) \X Results!OnDisk(n) :
        \/ p[1].score > p[2].score
        \/ p[1].score = p[2].score /\ p[1].path < p[2].path}

MergeOrder ==
    {p \in Results!MergedHits \X Results!MergedHits :
        \/ Results!Before(p[1], p[2])
        \/ ~Results!Before(p[2], p[1]) /\ p[1].shard < p[2].shard}

Hit(d, i) == [score |-> d.score, node |-> d.node, path |-> d.path, shard |-> i]

LEMMA HitFields ==
    ASSUME Results!TypeOK
    PROVE  /\ \A h \in Results!MergedHits :
                 /\ h.score \in Nat /\ h.node \in Nat /\ h.path \in Nat /\ h.shard \in Nat
                 /\ h = [score |-> h.score, node |-> h.node, path |-> h.path, shard |-> h.shard]
           /\ \A n \in online : \A d \in Results!OnDisk(n) :
                 /\ d.score \in Nat /\ d.path \in Nat /\ d.node = n /\ n \in Nat
                 /\ d = [score |-> d.score, node |-> n, path |-> d.path]
                 /\ d.path \in DOMAIN disk[n] /\ d.score = disk[n][d.path]
<1> USE ShardNumbers
<1>1. ASSUME NEW h \in Results!MergedHits
      PROVE  /\ h.score \in Nat /\ h.node \in Nat /\ h.path \in Nat /\ h.shard \in Nat
             /\ h = [score |-> h.score, node |-> h.node, path |-> h.path, shard |-> h.shard]
  <2>1. h \in [score : Scores, node : Workers, path : Paths, shard : 1..MaxFanout]
    BY MergedTyped DEF Results!Hits
  <2>2. h = [score |-> h.score, node |-> h.node, path |-> h.path, shard |-> h.shard]
    BY <2>1
  <2>3. h.score \in Scores /\ h.node \in Workers /\ h.path \in Paths /\ h.shard \in 1..MaxFanout
    BY <2>1
  <2>4. h.shard \in Nat
    BY <2>3
  <2> QED BY <2>2, <2>3, <2>4
<1>2. ASSUME NEW n \in online, NEW d \in Results!OnDisk(n)
      PROVE  /\ d.score \in Nat /\ d.path \in Nat /\ d.node = n /\ n \in Nat
             /\ d = [score |-> d.score, node |-> n, path |-> d.path]
             /\ d.path \in DOMAIN disk[n] /\ d.score = disk[n][d.path]
  <2>1. d \in [score : Scores, node : {n}, path : Paths]
    BY MergedTyped
  <2>2. PICK p \in DOMAIN disk[n] : d = [score |-> disk[n][p], node |-> n, path |-> p]
    BY DEF Results!OnDisk
  <2>3. n \in Workers
    BY DEF Results!TypeOK
  <2> QED BY <2>1, <2>2, <2>3
<1> QED BY <1>1, <1>2

LEMMA NodeRanks ==
    ASSUME Results!TypeOK, NEW n \in online
    PROVE  StrictOrder(Results!OnDisk(n), NodeOrder(n))
<1> DEFINE D == Results!OnDisk(n)
<1>1. ASSUME NEW x \in D, NEW y \in D
      PROVE  <<x, y>> \in NodeOrder(n) <=> x.score > y.score \/ (x.score = y.score /\ x.path < y.path)
  BY DEF NodeOrder
<1>2. \A x \in D : /\ x.score \in Nat /\ x.path \in Nat
                   /\ x = [score |-> x.score, node |-> n, path |-> x.path]
  BY HitFields
<1> HIDE DEF D
<1>3. ASSUME NEW x \in D, NEW y \in D, NEW z \in D, <<x, y>> \in NodeOrder(n), <<y, z>> \in NodeOrder(n)
      PROVE  <<x, z>> \in NodeOrder(n)
  <2>1. PICK xs \in Nat, ys \in Nat, zs \in Nat, xp \in Nat, yp \in Nat, zp \in Nat :
            xs = x.score /\ ys = y.score /\ zs = z.score /\ xp = x.path /\ yp = y.path /\ zp = z.path
    BY <1>2
  <2>2. (xs > ys \/ (xs = ys /\ xp < yp)) /\ (ys > zs \/ (ys = zs /\ yp < zp))
    BY <1>1, <1>3, <2>1
  <2>3. xs > zs \/ (xs = zs /\ xp < zp)
    BY <2>2
  <2> QED BY <1>1, <2>1, <2>3
<1>4. ASSUME NEW x \in D, NEW y \in D, <<x, y>> \notin NodeOrder(n), <<y, x>> \notin NodeOrder(n)
      PROVE  x = y
  <2>1. PICK xs \in Nat, ys \in Nat, xp \in Nat, yp \in Nat :
            xs = x.score /\ ys = y.score /\ xp = x.path /\ yp = y.path
    BY <1>2
  <2>2. ~(xs > ys \/ (xs = ys /\ xp < yp)) /\ ~(ys > xs \/ (ys = xs /\ yp < xp))
    BY <1>1, <1>4, <2>1
  <2>3. xs = ys /\ xp = yp
    BY <2>2
  <2> QED BY <1>2, <2>1, <2>3
<1>5. ASSUME NEW x \in D PROVE <<x, x>> \notin NodeOrder(n)
  <2>1. PICK xs \in Nat, xp \in Nat : xs = x.score /\ xp = x.path
    BY <1>2
  <2> QED BY <1>1, <2>1
<1> QED BY <1>3, <1>4, <1>5 DEF StrictOrder, D

\* What Before says, in numbers.
LEMMA BeforeIs ==
    ASSUME NEW g, NEW h,
           g.score \in Nat, g.node \in Nat, g.path \in Nat,
           h.score \in Nat, h.node \in Nat, h.path \in Nat
    PROVE  /\ ~(Results!Before(g, h) /\ Results!Before(h, g))
           /\ ~Results!Before(g, h) /\ ~Results!Before(h, g) <=>
                 g.score = h.score /\ g.node = h.node /\ g.path = h.path
           /\ \A k : /\ k.score \in Nat /\ k.node \in Nat /\ k.path \in Nat
                     /\ Results!Before(g, h) /\ ~Results!Before(k, h)
                     => Results!Before(g, k)
<1>1. PICK gs \in Nat, gn \in Nat, gp \in Nat, hs \in Nat, hn \in Nat, hp \in Nat :
          gs = g.score /\ gn = g.node /\ gp = g.path /\ hs = h.score /\ hn = h.node /\ hp = h.path
  OBVIOUS
<1>2. /\ Results!Before(g, h) <=> gs > hs \/ (gs = hs /\ gn < hn) \/ (gs = hs /\ gn = hn /\ gp < hp)
      /\ Results!Before(h, g) <=> hs > gs \/ (hs = gs /\ hn < gn) \/ (hs = gs /\ hn = gn /\ hp < gp)
  BY <1>1 DEF Results!Before
<1>3. ASSUME NEW k, k.score \in Nat, k.node \in Nat, k.path \in Nat,
             Results!Before(g, h), ~Results!Before(k, h)
      PROVE  Results!Before(g, k)
  <2>1. PICK ks \in Nat, kn \in Nat, kp \in Nat : ks = k.score /\ kn = k.node /\ kp = k.path
    BY <1>3
  <2>2. ~(ks > hs \/ (ks = hs /\ kn < hn) \/ (ks = hs /\ kn = hn /\ kp < hp))
    BY <1>1, <1>3, <2>1 DEF Results!Before
  <2>3. gs > hs \/ (gs = hs /\ gn < hn) \/ (gs = hs /\ gn = hn /\ gp < hp)
    BY <1>2, <1>3
  <2>4. gs > ks \/ (gs = ks /\ gn < kn) \/ (gs = ks /\ gn = kn /\ gp < kp)
    BY <2>2, <2>3
  <2> QED BY <1>1, <2>1, <2>4 DEF Results!Before
<1>4. ~(Results!Before(g, h) /\ Results!Before(h, g))
  BY <1>2
<1>5. ~Results!Before(g, h) /\ ~Results!Before(h, g) <=> gs = hs /\ gn = hn /\ gp = hp
  BY <1>2
<1> QED BY <1>1, <1>3, <1>4, <1>5

LEMMA MergeRanks ==
    ASSUME Results!TypeOK
    PROVE  StrictOrder(Results!MergedHits, MergeOrder)
<1> DEFINE M == Results!MergedHits
<1>1. ASSUME NEW x \in M, NEW y \in M
      PROVE  <<x, y>> \in MergeOrder <=>
                Results!Before(x, y) \/ (~Results!Before(y, x) /\ x.shard < y.shard)
  BY DEF MergeOrder
<1>2. \A x \in M : /\ x.score \in Nat /\ x.node \in Nat /\ x.path \in Nat /\ x.shard \in Nat
                   /\ x = [score |-> x.score, node |-> x.node, path |-> x.path, shard |-> x.shard]
  BY HitFields
<1> HIDE DEF M
<1>3. ASSUME NEW x \in M, NEW y \in M, NEW z \in M, <<x, y>> \in MergeOrder, <<y, z>> \in MergeOrder
      PROVE  <<x, z>> \in MergeOrder
  <2>1. PICK a \in Nat, b \in Nat, c \in Nat : a = x.shard /\ b = y.shard /\ c = z.shard
    BY <1>2
  <2>2. Results!Before(x, y) \/ (~Results!Before(y, x) /\ a < b)
    BY <1>1, <1>3, <2>1
  <2>3. Results!Before(y, z) \/ (~Results!Before(z, y) /\ b < c)
    BY <1>1, <1>3, <2>1
  <2>4. CASE Results!Before(x, y)
    <3>1. ~Results!Before(z, y)
      <4>1. ~(Results!Before(y, z) /\ Results!Before(z, y))
        BY <1>2, BeforeIs
      <4> QED BY <2>3, <4>1
    <3>2. Results!Before(x, z)
      BY <1>2, <2>4, <3>1, BeforeIs
    <3> QED BY <1>1, <3>2
  <2>5. CASE ~Results!Before(x, y)
    <3>1. ~Results!Before(y, x) /\ a < b
      BY <2>2, <2>5
    <3>2. x.score = y.score /\ x.node = y.node /\ x.path = y.path
      BY <1>2, <2>5, <3>1, BeforeIs
    <3>3. (Results!Before(x, z) <=> Results!Before(y, z)) /\ (Results!Before(z, x) <=> Results!Before(z, y))
      BY <3>2 DEF Results!Before
    <3>4. Results!Before(x, z) \/ (~Results!Before(z, x) /\ a < c)
      <4>1. b < c => a < c
        BY <3>1
      <4> QED BY <2>3, <3>3, <4>1
    <3> QED BY <1>1, <2>1, <3>4
  <2> QED BY <2>4, <2>5
<1>4. ASSUME NEW x \in M, NEW y \in M, <<x, y>> \notin MergeOrder, <<y, x>> \notin MergeOrder
      PROVE  x = y
  <2>1. PICK a \in Nat, b \in Nat : a = x.shard /\ b = y.shard
    BY <1>2
  <2>2. ~Results!Before(x, y) /\ ~Results!Before(y, x) /\ ~(a < b) /\ ~(b < a)
    BY <1>1, <1>4, <2>1
  <2>3. x.score = y.score /\ x.node = y.node /\ x.path = y.path
    BY <1>2, <2>2, BeforeIs
  <2>4. a = b
    BY <2>2
  <2> QED BY <1>2, <2>1, <2>3, <2>4
<1>5. ASSUME NEW x \in M PROVE <<x, x>> \notin MergeOrder
  <2>1. PICK a \in Nat : a = x.shard
    BY <1>2
  <2>2. ~Results!Before(x, x)
    BY <1>2, BeforeIs
  <2> QED BY <1>1, <2>1, <2>2
<1> QED BY <1>3, <1>4, <1>5 DEF StrictOrder, M

LEMMA DisksAreFinite ==
    ASSUME Results!TypeOK, NEW n \in online
    PROVE  IsFiniteSet(Results!OnDisk(n))
<1>1. IsFiniteSet(DOMAIN disk[n])
  <2>1. PICK indexed \in SUBSET Paths : disk[n] \in [indexed -> Scores]
    BY DEF Results!TypeOK, Results!Disks
  <2> QED BY <2>1, ShardNumbers, FS_Subset
<1> DEFINE f == [p \in DOMAIN disk[n] |-> [score |-> disk[n][p], node |-> n, path |-> p]]
<1>2. f \in Surjection(DOMAIN disk[n], Results!OnDisk(n))
  BY DEF Surjection, Results!OnDisk
<1> QED BY <1>1, <1>2, FS_Surjection

LEMMA HitsAreFinite ==
    ASSUME Results!TypeOK
    PROVE  IsFiniteSet(Results!MergedHits) /\ IsFiniteSet(Results!Answered)
<1>1. IsFiniteSet(1..MaxFanout)
  BY ShardNumbers, FS_Interval
<1>2. IsFiniteSet((1..MaxFanout) \X Paths)
  BY <1>1, ShardNumbers, FS_Product
<1> DEFINE hit(x) == [score |-> disk[node[x[1]]][x[2]], node |-> node[x[1]], path |-> x[2], shard |-> x[1]]
           Of == {hit(x) : x \in (1..MaxFanout) \X Paths}
           f == [x \in (1..MaxFanout) \X Paths |-> hit(x)]
<1>3. f \in Surjection((1..MaxFanout) \X Paths, Of)
  BY DEF Surjection
<1>4. IsFiniteSet(Of)
  <2> HIDE DEF f, Of
  <2> QED BY <1>2, <1>3, FS_Surjection
<1>5. ASSUME NEW h \in Results!MergedHits PROVE h \in Of
  <2>1. PICK i \in Results!Answered : \E d \in Results!Search(node[i]) : h = Hit(d, i)
    BY MergedTyped DEF Hit
  <2>2. PICK d \in Results!Search(node[i]) : h = Hit(d, i)
    BY <2>1
  <2>3. i \in 1..MaxFanout /\ node[i] \in online /\ d \in Results!OnDisk(node[i])
    BY MergedTyped
  <2>4. d \in [score : Scores, node : {node[i]}, path : Paths]
    BY <2>3, MergedTyped
  <2>5. d.path \in Paths /\ d.node = node[i] /\ d.score = disk[node[i]][d.path]
    BY <2>3, <2>4, HitFields
  <2>6. <<i, d.path>> \in (1..MaxFanout) \X Paths /\ h = hit(<<i, d.path>>)
    BY <2>2, <2>3, <2>5 DEF Hit
  <2> QED BY <2>6
<1>6. Results!MergedHits \in SUBSET Of
  <2> HIDE DEF Of
  <2> QED BY <1>5
<1>7. Results!Answered \in SUBSET (1..MaxFanout)
  BY MergedTyped
<1> HIDE DEF Of
<1> QED BY <1>1, <1>4, <1>6, <1>7, FS_Subset

LEMMA SearchIsBest ==
    ASSUME Results!TypeOK, NEW n \in online
    PROVE  Results!Search(n) = Best(Results!OnDisk(n), NodeOrder(n), Results!Limit)
<1>1. ASSUME NEW d \in Results!OnDisk(n)
      PROVE  {e \in Results!OnDisk(n) : \/ e.score > d.score
                                        \/ e.score = d.score /\ e.path < d.path}
                = Ahead(Results!OnDisk(n), NodeOrder(n), d)
  BY DEF Ahead, NodeOrder
<1> QED BY <1>1, CardinalitiesAgree DEF Results!Search, Best

LEMMA MergeIsBest ==
    ASSUME Results!TypeOK
    PROVE  Results!MergeSearchResults = Best(Results!MergedHits, MergeOrder, Results!Limit)
<1>1. ASSUME NEW h \in Results!MergedHits
      PROVE  {g \in Results!MergedHits : \/ Results!Before(g, h)
                                         \/ ~Results!Before(h, g) /\ g.shard < h.shard}
                = Ahead(Results!MergedHits, MergeOrder, h)
  BY DEF Ahead, MergeOrder
<1> QED BY <1>1, CardinalitiesAgree DEF Results!MergeSearchResults, Best

\* What a shard's node sends, as hits of that shard, is no less than before.
LEMMA ShardSendsAll ==
    ASSUME Results!TypeOK, NEW i \in Results!Answered, NEW A \in SUBSET Results!MergedHits,
           \A s \in Results!Search(node[i]) : Hit(s, i) \in A
    PROVE  Cardinality(Results!Search(node[i])) <= Cardinality(A)
<1> DEFINE S == Results!Search(node[i])
           f == [s \in S |-> Hit(s, i)]
<1>1. node[i] \in online /\ S \subseteq Results!OnDisk(node[i])
  BY MergedTyped
<1>2. ASSUME NEW s \in S, NEW t \in S, Hit(s, i) = Hit(t, i) PROVE s = t
  <2>1. s.score = t.score /\ s.node = t.node /\ s.path = t.path
    BY <1>2 DEF Hit
  <2>2. s = [score |-> s.score, node |-> node[i], path |-> s.path]
        /\ t = [score |-> t.score, node |-> node[i], path |-> t.path]
    BY <1>1, HitFields
  <2> QED BY <2>1, <2>2
<1>3. f \in [S -> A] /\ \A s \in S : f[s] = Hit(s, i)
  OBVIOUS
<1> HIDE DEF f
<1>4. \A s, t \in S : f[s] = f[t] => s = t
  BY <1>2, <1>3
<1>5. f \in Injection(S, A)
  BY <1>3, <1>4 DEF Injection, IsInjective
<1>6. IsFiniteSet(A)
  BY HitsAreFinite, FS_Subset
<1> QED BY <1>5, <1>6, FS_Injection

LEMMA LimitIs == ASSUME Results!TypeOK PROVE Results!Limit \in Nat
  BY ShardNumbers DEF Results!TypeOK, Results!Limit

\* The hits a caller gets, once there is a verdict.
LEMMA HitsAreMerged ==
    ASSUME Results!ShardInvariant, NEW h \in result.hits
    PROVE  /\ kind = "search" /\ Results!OneModel /\ result.hits = Results!MergeSearchResults
           /\ h \in Results!MergedHits
           /\ \E i \in Results!Answered : \E d \in Results!Search(node[i]) : h = Hit(d, i)
<1>1. result.status # "queued"
  BY DEF Results!ShardInvariant, Results!VerdictStands
<1>2. kind = "search" /\ Results!OneModel /\ result.hits = Results!MergeSearchResults
  BY <1>1 DEF Results!ShardInvariant, Results!VerdictStands
<1>3. h \in Results!MergedHits
  BY <1>2, MergedTyped DEF Results!ShardInvariant
<1> QED BY <1>2, <1>3, MergedTyped DEF Results!ShardInvariant, Hit

LEMMA OneRanking ==
    ASSUME Results!ShardInvariant PROVE Results!OneModelPerRanking
<1> SUFFICES ASSUME NEW g \in result.hits, NEW h \in result.hits
             PROVE  embedder[g.node] = embedder[h.node]
  BY DEF Results!OneModelPerRanking
<1> DEFINE E == {embedder[node[k]] : k \in Results!Answered}
<1>0. Results!TypeOK
  BY DEF Results!ShardInvariant
<1>1. ASSUME NEW x \in result.hits PROVE embedder[x.node] \in E
  <2>1. PICK i \in Results!Answered : \E d \in Results!Search(node[i]) : x = Hit(d, i)
    BY HitsAreMerged
  <2>2. PICK d \in Results!Search(node[i]) : x = Hit(d, i)
    BY <2>1
  <2>3. d.node = node[i]
    BY <1>0, MergedTyped, HitFields
  <2>4. x.node = node[i]
    BY <2>2, <2>3 DEF Hit
  <2> QED BY <2>4
<1>2. IsFiniteSet(E)
  <2>1. [k \in Results!Answered |-> embedder[node[k]]] \in Surjection(Results!Answered, E)
    BY DEF Surjection
  <2> HIDE DEF E
  <2> QED BY <1>0, <2>1, HitsAreFinite, FS_Surjection
<1>3. Cardinality(E) <= 1
  BY HitsAreMerged, CardinalitiesAgree DEF Results!OneModel
<1> HIDE DEF E
<1>4. PICK a \in E, b \in E : a = embedder[g.node] /\ b = embedder[h.node]
  BY <1>1
<1>5. CASE a # b
  <2>1. Cardinality({a, b}) = 2
    <3>1. IsFiniteSet({a}) /\ Cardinality({a}) = 1
      BY FS_Singleton
    <3>2. {a, b} = {a} \cup {b} /\ b \notin {a}
      BY <1>5
    <3>3. Cardinality({a} \cup {b}) = 1 + 1
      BY <3>1, <3>2, FS_AddElement
    <3> QED BY <3>2, <3>3
  <2>2. Cardinality({a, b}) <= Cardinality(E)
    BY <1>2, FS_Subset
  <2>3. PICK c \in Nat : c = Cardinality(E)
    BY <1>2, FS_CardinalityType
  <2> QED BY <1>3, <2>1, <2>2, <2>3
<1> QED BY <1>4, <1>5

\* A document is named as it is by the hits for it.
LEMMA HitOnDisk ==
    ASSUME Results!TypeOK, NEW i \in Results!Answered, NEW d \in Results!OnDisk(node[i])
    PROVE  /\ d = [score |-> d.score, node |-> d.node, path |-> d.path]
           /\ d.score \in Nat /\ d.node \in Nat /\ d.path \in Nat
<1>1. node[i] \in online
  BY MergedTyped
<1> QED BY <1>1, HitFields

LEMMA BestOfAll ==
    ASSUME Results!ShardInvariant PROVE Results!MergedAreTheBest
<1> SUFFICES ASSUME result.status # "queued", kind = "search", Results!OneModel
             PROVE  LET all == UNION {Results!OnDisk(node[i]) : i \in Results!Answered} IN
                    /\ Results!Kept \subseteq all
                    /\ \A d \in all \ Results!Kept :
                          /\ Results!Cardinality(result.hits) = Results!Limit
                          /\ \A e \in Results!Kept : Results!Before(e, d)
  BY DEF Results!MergedAreTheBest, Results!Before
<1> DEFINE M == Results!MergedHits
           K == Results!Limit
           B == result.hits
<1>1. Results!TypeOK /\ K \in Nat
  BY LimitIs DEF Results!ShardInvariant
<1>2. B = Best(M, MergeOrder, K)
  <2>1. B = Results!MergeSearchResults
    BY DEF Results!ShardInvariant, Results!VerdictStands
  <2> QED BY <1>1, <2>1, MergeIsBest
<1>3. IsFiniteSet(M) /\ StrictOrder(M, MergeOrder)
  BY <1>1, HitsAreFinite, MergeRanks
<1>4. ASSUME NEW e \in Results!Kept
      PROVE  \E t \in B : e = [score |-> t.score, node |-> t.node, path |-> t.path]
  BY DEF Results!Kept
<1>5. ASSUME NEW e \in Results!Kept PROVE \E i \in Results!Answered : e \in Results!OnDisk(node[i])
  <2>1. PICK t \in B : e = [score |-> t.score, node |-> t.node, path |-> t.path]
    BY <1>4
  <2>2. PICK i \in Results!Answered : \E d \in Results!Search(node[i]) : t = Hit(d, i)
    BY HitsAreMerged
  <2>3. PICK d \in Results!Search(node[i]) : t = Hit(d, i)
    BY <2>2
  <2>4. d \in Results!OnDisk(node[i])
    BY <1>1, MergedTyped
  <2>5. e = d
    BY <1>1, <2>1, <2>3, <2>4, HitOnDisk DEF Hit
  <2> QED BY <2>4, <2>5
<1>6. ASSUME NEW i \in Results!Answered, NEW d \in Results!OnDisk(node[i]), d \notin Results!Kept
      PROVE  Cardinality(B) = K /\ \A t \in B : Results!Before(t, d)
  <2>0. node[i] \in online
    BY <1>1, MergedTyped
  <2>1. d.score \in Nat /\ d.node \in Nat /\ d.path \in Nat
        /\ d = [score |-> d.score, node |-> d.node, path |-> d.path]
    BY <1>1, HitOnDisk
  <2>2. ASSUME NEW t \in B
        PROVE  /\ t \in M /\ t.score \in Nat /\ t.node \in Nat /\ t.path \in Nat
               /\ ~(t.score = d.score /\ t.node = d.node /\ t.path = d.path)
    <3>1. t \in M
      BY HitsAreMerged
    <3>2. [score |-> t.score, node |-> t.node, path |-> t.path] \in Results!Kept
      BY DEF Results!Kept
    <3> QED BY <1>1, <1>6, <2>1, <3>1, <3>2, HitFields
  <2>3. CASE d \in Results!Search(node[i])
    <3> DEFINE h == Hit(d, i)
    <3>1. h \in M
      BY <1>1, <2>3, MergedTyped DEF Hit
    <3>2. h.score = d.score /\ h.node = d.node /\ h.path = d.path
      BY DEF Hit
    <3>3. h \notin B
      BY <2>2, <3>2
    <3> HIDE DEF h, M, K, B
    <3>4. Cardinality(B) = K
      BY <1>1, <1>2, <1>3, <3>1, <3>3, BestAreFull
    <3>5. ASSUME NEW t \in B PROVE Results!Before(t, d)
      <4>1. <<t, h>> \in MergeOrder
        BY <1>1, <1>2, <1>3, <3>1, <3>3, BestComeFirst
      <4>2. ~Results!Before(h, t)
        <5>1. Results!Before(t, h) \/ ~Results!Before(h, t)
          BY <4>1 DEF MergeOrder
        <5>2. ~(Results!Before(t, h) /\ Results!Before(h, t))
          BY <2>1, <2>2, <3>2, BeforeIs
        <5> QED BY <5>1, <5>2
      <4>3. Results!Before(t, h)
        BY <2>1, <2>2, <3>2, <4>2, BeforeIs
      <4> QED BY <3>2, <4>3 DEF Results!Before
    <3> QED BY <3>4, <3>5
  <2>4. CASE d \notin Results!Search(node[i])
    <3> DEFINE D == Results!OnDisk(node[i])
               S == Results!Search(node[i])
    <3>1. S = Best(D, NodeOrder(node[i]), K) /\ IsFiniteSet(D) /\ StrictOrder(D, NodeOrder(node[i]))
      BY <1>1, <2>0, SearchIsBest, DisksAreFinite, NodeRanks
    <3>2. Cardinality(S) = K
      <4> HIDE DEF D, S, K
      <4>1. d \in D /\ d \notin S
        BY <2>4 DEF D, S
      <4> QED BY <1>1, <3>1, <4>1, BestAreFull
    <3>3. ASSUME NEW s \in S
          PROVE  /\ s \in D /\ Results!Before(s, d)
                 /\ s.score \in Nat /\ s.node \in Nat /\ s.path \in Nat
      <4>1. <<s, d>> \in NodeOrder(node[i])
        <5> HIDE DEF D, S, K
        <5>1. d \in D \ S
          BY <2>4 DEF D, S
        <5> QED BY <1>1, <3>1, <5>1, BestComeFirst
      <4>2. s \in D
        BY <1>1, <2>0, MergedTyped
      <4>3. s.node = node[i] /\ d.node = node[i]
        BY <1>1, <2>0, <4>2, HitFields
      <4>4. s.score > d.score \/ (s.score = d.score /\ s.path < d.path)
        BY <4>1 DEF NodeOrder
      <4>5. s.score \in Nat /\ s.node \in Nat /\ s.path \in Nat
        BY <1>1, <4>2, HitOnDisk
      <4> QED BY <4>2, <4>3, <4>4, <4>5 DEF Results!Before
    <3>4. ASSUME NEW t \in B, ~Results!Before(t, d) PROVE FALSE
      <4> DEFINE A == Ahead(M, MergeOrder, t)
      <4>1. ASSUME NEW s \in S PROVE Hit(s, i) \in A
        <5>1. Hit(s, i) \in M
          BY <1>1, MergedTyped DEF Hit
        <5>2. Results!Before(s, t)
          BY <2>1, <2>2, <3>3, <3>4, BeforeIs
        <5>3. Results!Before(Hit(s, i), t)
          BY <5>2 DEF Results!Before, Hit
        <5> QED BY <2>2, <5>1, <5>3 DEF Ahead, MergeOrder
      <4>2. A \in SUBSET M
        BY DEF Ahead
      <4>3. K <= Cardinality(A)
        BY <1>1, <3>2, <4>1, <4>2, ShardSendsAll
      <4>4. Cardinality(A) < K
        BY <1>2 DEF Best
      <4>5. Cardinality(A) \in Nat
        <5> HIDE DEF A, M
        <5> QED BY <1>3, <4>2, FS_Subset, FS_CardinalityType
      <4> QED BY <1>1, <4>3, <4>4, <4>5
    <3>5. Cardinality(B) = K
      <4>1. CASE B = M
        <5>1. Cardinality(B) <= K /\ IsFiniteSet(B)
          <6> HIDE DEF K, M, B
          <6> QED BY <1>1, <1>2, <1>3, BestAreFew
        <5>2. K <= Cardinality(B)
          <6>1. \A s \in S : Hit(s, i) \in B
            BY <1>1, <4>1, MergedTyped DEF Hit
          <6>2. B \in SUBSET M
            BY <4>1
          <6> QED BY <1>1, <3>2, <6>1, <6>2, ShardSendsAll
        <5>3. Cardinality(B) \in Nat
          BY <5>1, FS_CardinalityType
        <5> QED BY <1>1, <5>1, <5>2, <5>3
      <4>2. CASE B # M
        <5> HIDE DEF K, M, B
        <5> QED BY <1>1, <1>2, <1>3, <4>2, BestAreFull
      <4> QED BY <4>1, <4>2
    <3> QED BY <3>4, <3>5
  <2> QED BY <2>3, <2>4
<1>7. ASSUME NEW i \in Results!Answered, NEW d \in Results!OnDisk(node[i]), d \notin Results!Kept,
             NEW e \in Results!Kept
      PROVE  Results!Before(e, d)
  <2>1. PICK t \in B : e = [score |-> t.score, node |-> t.node, path |-> t.path]
    BY <1>4
  <2>2. Results!Before(t, d)
    BY <1>6, <1>7
  <2> QED BY <2>1, <2>2 DEF Results!Before
<1>8. ASSUME NEW i \in Results!Answered, NEW d \in Results!OnDisk(node[i]), d \notin Results!Kept
      PROVE  Results!Cardinality(result.hits) = Results!Limit
  BY <1>6, <1>8, CardinalitiesAgree
<1> QED BY <1>5, <1>7, <1>8

LEMMA ResultsFollow == Results!ShardInvariant => Results!ResultsAreRight
  BY DealtOut, BestOfAll, OneRanking DEF Results!ResultsAreRight

(***************************************************************************)
(* The composition.  One part moves, and the others rest.                  *)
(***************************************************************************)
LEMMA FeedsAgree == NodeFeed!FeedInvariant <=> AnyFeed!FeedInvariant
  BY DEF NodeFeed!FeedInvariant, AnyFeed!FeedInvariant, NodeFeed!TypeOK, AnyFeed!TypeOK,
     NodeFeed!NothingIsSkipped, AnyFeed!NothingIsSkipped, NodeFeed!OnTheirWay, AnyFeed!OnTheirWay,
     NodeFeed!Frames, AnyFeed!Frames, NodeFeed!States, AnyFeed!States, NodeFeed!NoNode, AnyFeed!NoNode,
     NodeFeed!Status, AnyFeed!Status, NodeFeed!JobStates, AnyFeed!JobStates

CtlParts == Samples!SamplesInvariant /\ AnyFeed!FeedInvariant /\ Results!ShardInvariant
ctlVars == <<part, samplesVars, feedVars, resultsVars>>

LEMMA SamplesRest ==
    ASSUME Samples!SamplesInvariant, UNCHANGED samplesVars PROVE Samples!SamplesInvariant'
<1>1. Kept(latest, samples) /\ Polling
  BY SamplesParts
<1>u. UNCHANGED <<state, taken, beat, latest, samples, errors, task, polled, reply, churn>>
  BY DEF samplesVars
<1>2. Kept(latest', samples') /\ Polling'
  BY <1>1, <1>u DEF Polling
<1>3. Samples!SamplesInvariant' <=> (Kept(latest, samples) /\ Polling)'
  BY SamplesParts, PTL
<1> QED BY <1>2, <1>3 DEF Kept

LEMMA FeedRests ==
    ASSUME AnyFeed!FeedInvariant, UNCHANGED feedVars PROVE AnyFeed!FeedInvariant'
<1>1. UNCHANGED <<members, events, job, jobEvents, cycle, lastTopology, lastRegistry, lastQueue,
                  channel, nodes, shown, jobsRef, fetch, got, changes, drops, refreshes>>
  BY DEF feedVars
<1>2. AnyFeed!TypeOK /\ (job = "absent" => jobEvents = <<>>)
      /\ Flows(channel, cycle, got, lastRegistry, lastQueue)
  BY FeedParts
<1>3. AnyFeed!TypeOK'
  BY <1>1, <1>2, Zenon DEF AnyFeed!TypeOK
<1>4. Flows(channel', cycle', got', lastRegistry', lastQueue')
  BY <1>1, <1>2
<1> QED BY <1>1, <1>2, <1>3, <1>4, FeedPartsNext

LEMMA ResultsRest ==
    ASSUME Results!ShardInvariant, UNCHANGED resultsVars PROVE Results!ShardInvariant'
<1>1. UNCHANGED <<online, disk, embedder, kind, limit, tasks, chunks, selected, node, attempted,
                  answers, lost, result>>
  BY DEF resultsVars
<1>2. Results!TypeOK'
  BY <1>1 DEF Results!ShardInvariant, Results!TypeOK, Results!Shards, Results!Hits
<1>3. /\ Results!OneModel' = Results!OneModel /\ Results!MergeSearchResults' = Results!MergeSearchResults
      /\ Results!Shards' = Results!Shards /\ \A i : Results!Pending(i)' = Results!Pending(i)
      /\ \A f : Results!SplitPayload(f)' = Results!SplitPayload(f)
  BY <1>1 DEF Results!OneModel, Results!MergeSearchResults, Results!MergedHits, Results!Answered,
     Results!Shards, Results!Search, Results!OnDisk, Results!Limit, Results!Before, Results!Pending,
     Results!SplitPayload, Results!RoundRobin
<1>4. Results!VerdictStands'
  BY <1>1, <1>3 DEF Results!ShardInvariant, Results!VerdictStands
<1> QED BY <1>2, <1>4 DEF Results!ShardInvariant

LEMMA CtlInit == Init => CtlParts
<1> SUFFICES ASSUME Init PROVE CtlParts
  OBVIOUS
<1>0. Samples!Init /\ NodeFeed!Init /\ Results!Init
  BY Zenon DEF Init
<1>1. Samples!SamplesInvariant
  BY <1>0, SamplesStart
<1>2. AnyFeed!FeedInvariant
  BY <1>0, FeedStart
<1>3. Results!ShardInvariant
  BY <1>0, ShardsStart
<1> QED BY <1>1, <1>2, <1>3 DEF CtlParts

LEMMA CtlNext == CtlParts /\ [Next]_ctlVars => CtlParts'
<1> SUFFICES ASSUME CtlParts, [Next]_ctlVars PROVE CtlParts'
  OBVIOUS
<1>0. Samples!SamplesInvariant /\ AnyFeed!FeedInvariant /\ Results!ShardInvariant
  BY DEF CtlParts
<1>u. Next \/ (UNCHANGED samplesVars /\ UNCHANGED feedVars /\ UNCHANGED resultsVars)
  BY Zenon DEF ctlVars
<1>n. Next => /\ Samples!Next \/ UNCHANGED samplesVars
              /\ NodeFeed!Next \/ JobFeed!Next \/ UNCHANGED feedVars
              /\ Results!Next \/ UNCHANGED resultsVars
  BY Zenon DEF Next
<1>1. Samples!Next \/ UNCHANGED samplesVars
  BY <1>u, <1>n, Zenon
<1>2. NodeFeed!Next \/ JobFeed!Next \/ UNCHANGED feedVars
  BY <1>u, <1>n, Zenon
<1>3. Results!Next \/ UNCHANGED resultsVars
  BY <1>u, <1>n, Zenon
<1>4. Samples!SamplesInvariant'
  BY <1>0, <1>1, SamplesSteps, SamplesRest
<1>5. AnyFeed!FeedInvariant'
  BY <1>0, <1>2, NodeFeedStep, JobFeedStep, FeedSteps, FeedRests
<1>6. Results!ShardInvariant'
  BY <1>0, <1>3, ShardSteps, ResultsRest
<1> QED BY <1>4, <1>5, <1>6 DEF CtlParts

\* For any nodes, histories and payloads: a frame of samples agrees with itself
\* however polls, removals and readers interleave; what is on its way to a
\* dashboard is what it did not get yet, without a gap and without a repetition,
\* whatever connections drop; and a job's verdict is that of its shards' answers
\* (record, remove, frame, send_feed, _run_job).
THEOREM CtlIsSafe == Spec => []CtlInvariant
<1>1. CtlParts => CtlInvariant
  BY FeedsAgree DEF CtlParts, CtlInvariant
<1> QED BY <1>1, CtlInit, CtlNext, PTL DEF Spec, ctlVars

\* Over any disks, scores and number of shards: every task is dealt to exactly one
\* shard and no shard has two more than another; and although every node only
\* sends its own best hits, the merged ones are the best of all documents of the
\* nodes that answered, of one model (_split_payload, _merge_search_results).
THEOREM ResultsAreBest == Spec => []ResultsAreRight
<1>1. CtlParts => ResultsAreRight
  BY ResultsFollow DEF CtlParts, ResultsAreRight
<1> QED BY <1>1, CtlInit, CtlNext, PTL DEF Spec, ctlVars

\* Over one connection a dashboard gets every event of the registry and of the
\* queue once and in order, however many events a cycle of send_feed collects and
\* whatever is on its way when the next cycle begins (send_feed).
THEOREM EventsArriveOnce == Spec => EachEventOnce
<1> DEFINE Once == cycle' \notin {"opens", "closed"} /\ channel # <<>> /\ channel' = Tail(channel) =>
                       /\ Head(channel).type = "registry" =>
                             Head(channel).content.sequence = got.registry + 1
                       /\ Head(channel).type = "queue" =>
                             Head(channel).content.sequence = got.queue + 1
<1>1. CtlParts => [Once]_NodeFeed!vars
  BY HeadIsNext DEF CtlParts
<1>2. EachEventOnce <=> [][Once]_NodeFeed!vars
  BY DEF EachEventOnce, NodeFeed!EachEventOnce
<1> HIDE DEF Once
<1> QED BY <1>1, <1>2, CtlInit, CtlNext, PTL DEF Spec, ctlVars
=============================================================================
