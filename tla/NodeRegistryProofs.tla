-------------------------- MODULE NodeRegistryProofs --------------------------
(***************************************************************************)
(* Proofs about the node registry for any set of nodes, any heartbeat      *)
(* interval, miss count and sweep timing: the inductive RegistryInvariant, *)
(* and from it that a silent node is retired in bounded time and that a    *)
(* node is retired only when it really was silent.                         *)
(***************************************************************************)
EXTENDS NodeRegistry, InductionFacts

\* What sweep's integer division decides: k whole intervals have passed.
LEMMA WholeIntervals ==
    ASSUME NEW a \in Nat, NEW b \in Nat \ {0}, NEW k \in Nat
    PROVE  /\ a \div b \in Nat
           /\ a \div b >= k => a >= b * k
           /\ a \div b < k => a < b * k
<1> DEFINE q == a \div b
           r == a % b
<1>1. q \in Int /\ r \in Int /\ a = b * q + r /\ 0 <= r /\ r < b
  OBVIOUS
<1> HIDE DEF q, r
<1>2. q >= 0
  BY <1>1, SMT
<1>3. q >= k => b * q >= b * k
  BY <1>1, SMT
<1>4. q < k => b * (q + 1) <= b * k
  BY <1>1, SMT
<1>5. b * (q + 1) = b * q + b
  BY <1>1, SMT
<1>6. b * q \in Int /\ b * k \in Int
  BY <1>1, SMT
<1> QED BY <1>1, <1>2, <1>3, <1>4, <1>5, <1>6 DEF q

LEMMA OfflineAfterType == OfflineAfter \in Nat
  BY RegistryAssumption DEF OfflineAfter

\* A node that a sweep finds silent had no heartbeat for OfflineAfter by the
\* sweep's clock, one that it does not find silent had one more recently.
LEMMA SilentMeansSilence ==
    ASSUME TypeOK, NEW n \in Nodes, sweepAt # Asleep
    PROVE  /\ Missed(n) \in Nat
           /\ Missed(n) >= MissedOffline => sweepAt - lastBeat[n] >= OfflineAfter
           /\ Missed(n) < MissedOffline => sweepAt - lastBeat[n] < OfflineAfter
<1>1. Elapsed(n) \in Nat /\ sweepAt \in Nat /\ lastBeat[n] \in Nat
  BY DEF TypeOK, Elapsed, Asleep
<1>2. Elapsed(n) >= sweepAt - lastBeat[n]
  BY <1>1 DEF Elapsed
<1>3. Elapsed(n) = sweepAt - lastBeat[n] \/ Elapsed(n) = 0
  BY <1>1 DEF Elapsed
<1>4. OfflineAfter \in Nat /\ OfflineAfter > 0
  BY RegistryAssumption DEF OfflineAfter
<1>5. /\ Missed(n) \in Nat
      /\ Missed(n) >= MissedOffline => Elapsed(n) >= OfflineAfter
      /\ Missed(n) < MissedOffline => Elapsed(n) < OfflineAfter
  BY <1>1, WholeIntervals, RegistryAssumption DEF Missed, OfflineAfter
<1> QED BY <1>1, <1>2, <1>3, <1>4, <1>5

-----------------------------------------------------------------------------
LEMMA InitInvariant == Init => RegistryInvariant
<1> SUFFICES ASSUME Init PROVE RegistryInvariant
  OBVIOUS
<1> USE RegistryAssumption
<1>1. TypeOK
  <2> PICK seeded \in SUBSET Nodes :
        /\ now = 0
        /\ state = [n \in Nodes |-> IF n \in seeded THEN "idle" ELSE "absent"]
        /\ host \in [Nodes -> Hosts]
        /\ lastBeat = [n \in Nodes |-> 0]
        /\ missed = [n \in Nodes |-> 0]
        /\ required = [n \in Nodes |-> n \notin seeded]
        /\ metrics = [n \in Nodes |-> state[n] = "idle"]
        /\ log = [n \in Nodes |-> IF n \in seeded THEN <<"joined">> ELSE <<>>]
        /\ sweepAt = Asleep
        /\ lastSweep = 0
    BY DEF Init
  <2>1. <<"joined">> \in Seq(Events) /\ <<>> \in Seq(Events)
    BY DEF Events
  <2>2. log \in [Nodes -> Seq(Events)]
    BY <2>1
  <2>3. state \in [Nodes -> States]
    BY DEF States
  <2>4. required \in [Nodes -> BOOLEAN]
    <3>1. \A n \in Nodes : (n \notin seeded) \in BOOLEAN
      OBVIOUS
    <3> QED BY <3>1
  <2>5. metrics \in [Nodes -> BOOLEAN]
    OBVIOUS
  <2> QED BY <2>5, <2>2, <2>3, <2>4 DEF TypeOK
<1>2. SweepInTime
  BY DEF Init, SweepInTime, Asleep
<1>3. SweptOver
  <2>1. now = 0 /\ lastSweep = 0 /\ \A n \in Nodes : lastBeat[n] = 0
    BY DEF Init
  <2>2. 0 < OfflineAfter + SweepLag
    BY OfflineAfterType
  <2> SUFFICES ASSUME NEW n \in Nodes
               PROVE  /\ lastBeat[n] <= now
                      /\ lastSweep - lastBeat[n] < OfflineAfter + SweepLag
    BY DEF SweptOver
  <2> QED BY <2>1, <2>2
<1> QED BY <1>1, <1>2, <1>3 DEF RegistryInvariant

LEMMA EmitTyped ==
    ASSUME TypeOK, NEW n \in Nodes, NEW event \in Events, Emit(n, event)
    PROVE  log' \in [Nodes -> Seq(Events)]
  BY DEF TypeOK, Emit

\* A node that registers, sends a heartbeat or leaves does not disturb what the
\* sweep knows of the others.
LEMMA HeardFrom ==
    ASSUME RegistryInvariant, NEW n \in Nodes,
           lastBeat'[n] \in {0, now}, lastBeat'[n] = 0 => ~Watched(n)' \/ now = 0,
           \A m \in Nodes \ {n} : lastBeat'[m] = lastBeat[m] /\ Watched(m)' = Watched(m),
           UNCHANGED <<now, lastSweep>>
    PROVE  SweptOver'
<1> SUFFICES ASSUME NEW m \in Nodes
             PROVE  /\ lastBeat'[m] <= now'
                    /\ Watched(m)' => lastSweep' - lastBeat'[m] < OfflineAfter + SweepLag
  BY DEF SweptOver, OfflineAfter
<1>1. now \in Nat /\ lastSweep \in Nat /\ lastSweep <= now
  BY DEF RegistryInvariant, TypeOK, SweepInTime, Asleep
<1>2. CASE m = n
  BY <1>1, <1>2, OfflineAfterType, RegistryAssumption
<1>3. CASE m # n
  BY <1>3 DEF RegistryInvariant, SweptOver
<1> QED BY <1>2, <1>3

LEMMA RegisterNewKeeps ==
    ASSUME RegistryInvariant, NEW n \in Nodes, NEW h \in Hosts, RegisterNew(n, h)
    PROVE  RegistryInvariant'
<1> USE RegistryAssumption DEF RegistryInvariant, RegisterNew
<1>1. TypeOK'
  <2>1. log' \in [Nodes -> Seq(Events)]
    BY DEF TypeOK, Emit, Events
  <2>2. state' \in [Nodes -> States]
    BY DEF TypeOK, States
  <2>3. required' \in [Nodes -> BOOLEAN] /\ metrics' \in [Nodes -> BOOLEAN]
    BY Zenon DEF TypeOK
  <2>4. missed' \in [Nodes -> 0..MissedOffline]
    BY DEF TypeOK
  <2> QED BY <2>1, <2>2, <2>3, <2>4 DEF TypeOK
<1>2. SweepInTime'
  BY DEF SweepInTime, TypeOK
<1>3. SweptOver'
  <2>1. lastBeat'[n] \in {0, now}
    BY DEF TypeOK
  <2>2. lastBeat'[n] = 0 => ~Watched(n)' \/ now = 0
    BY DEF TypeOK, Watched
  <2>3. \A m \in Nodes \ {n} : lastBeat'[m] = lastBeat[m] /\ Watched(m)' = Watched(m)
    BY DEF TypeOK, Watched
  <2> QED BY <2>1, <2>2, <2>3, HeardFrom
<1> QED BY <1>1, <1>2, <1>3

LEMMA RegisterAgainKeeps ==
    ASSUME RegistryInvariant, NEW n \in Nodes, NEW h \in Hosts, RegisterAgain(n, h)
    PROVE  RegistryInvariant'
<1> USE RegistryAssumption DEF RegistryInvariant, RegisterAgain, StateKept
<1>1. TypeOK'
  <2>1. log' \in [Nodes -> Seq(Events)]
    <3>1. "readdressed" \in Events
      BY DEF Events
    <3>2. Emit(n, "readdressed") \/ UNCHANGED log
      BY DEF RegisterAgain
    <3> QED BY <3>1, <3>2, EmitTyped DEF TypeOK
  <2>2. state' \in [Nodes -> States]
    BY DEF TypeOK, States
  <2>3. required' \in [Nodes -> BOOLEAN] /\ metrics' \in [Nodes -> BOOLEAN]
    BY Zenon DEF TypeOK
  <2>4. missed' \in [Nodes -> 0..MissedOffline]
    BY DEF TypeOK
  <2> QED BY <2>1, <2>2, <2>3, <2>4 DEF TypeOK
<1>2. SweepInTime'
  BY DEF SweepInTime, TypeOK
<1>3. SweptOver'
  <2>1. lastBeat'[n] \in {0, now}
    BY DEF TypeOK
  <2>2. lastBeat'[n] = 0 => ~Watched(n)' \/ now = 0
    BY DEF TypeOK, Watched
  <2>3. \A m \in Nodes \ {n} : lastBeat'[m] = lastBeat[m] /\ Watched(m)' = Watched(m)
    BY DEF TypeOK, Watched
  <2> QED BY <2>1, <2>2, <2>3, HeardFrom
<1> QED BY <1>1, <1>2, <1>3

LEMMA HeartbeatKeeps ==
    ASSUME RegistryInvariant, NEW n \in Nodes, NEW sample \in BOOLEAN,
           Heartbeat(n, sample)
    PROVE  RegistryInvariant'
<1> USE RegistryAssumption DEF RegistryInvariant, Heartbeat
<1>1. TypeOK'
  <2>1. log' \in [Nodes -> Seq(Events)]
    <3>1. "recovered" \in Events
      BY DEF Events
    <3>2. Emit(n, "recovered") \/ UNCHANGED log
      BY DEF AnnounceRecovery
    <3> QED BY <3>1, <3>2, EmitTyped DEF TypeOK
  <2>2. state' \in [Nodes -> States]
    BY DEF TypeOK, States
  <2>3. required' \in [Nodes -> BOOLEAN] /\ metrics' \in [Nodes -> BOOLEAN]
    BY Zenon DEF TypeOK
  <2>4. missed' \in [Nodes -> 0..MissedOffline]
    BY DEF TypeOK
  <2> QED BY <2>1, <2>2, <2>3, <2>4 DEF TypeOK
<1>2. SweepInTime'
  BY DEF SweepInTime, TypeOK
<1>3. SweptOver'
  <2>1. lastBeat'[n] \in {0, now}
    BY DEF TypeOK
  <2>2. lastBeat'[n] = 0 => ~Watched(n)' \/ now = 0
    BY DEF TypeOK, Watched
  <2>3. \A m \in Nodes \ {n} : lastBeat'[m] = lastBeat[m] /\ Watched(m)' = Watched(m)
    BY DEF TypeOK, Watched
  <2> QED BY <2>1, <2>2, <2>3, HeardFrom
<1> QED BY <1>1, <1>2, <1>3

LEMMA RemoveKeeps ==
    ASSUME RegistryInvariant, NEW n \in Nodes, Remove(n)
    PROVE  RegistryInvariant'
<1> USE RegistryAssumption DEF RegistryInvariant, Remove
<1>1. TypeOK'
  <2>1. log' \in [Nodes -> Seq(Events)]
    BY DEF TypeOK, Emit, Events
  <2>2. state' \in [Nodes -> States]
    BY DEF TypeOK, States
  <2>3. required' \in [Nodes -> BOOLEAN] /\ metrics' \in [Nodes -> BOOLEAN]
    BY Zenon DEF TypeOK
  <2>4. missed' \in [Nodes -> 0..MissedOffline]
    BY DEF TypeOK
  <2> QED BY <2>1, <2>2, <2>3, <2>4 DEF TypeOK
<1>2. SweepInTime'
  BY DEF SweepInTime, TypeOK
<1>3. SweptOver'
  <2>1. lastBeat'[n] \in {0, now}
    BY DEF TypeOK
  <2>2. lastBeat'[n] = 0 => ~Watched(n)' \/ now = 0
    BY DEF TypeOK, Watched
  <2>3. \A m \in Nodes \ {n} : lastBeat'[m] = lastBeat[m] /\ Watched(m)' = Watched(m)
    BY DEF TypeOK, Watched
  <2> QED BY <2>1, <2>2, <2>3, HeardFrom
<1> QED BY <1>1, <1>2, <1>3

LEMMA SweepReadClockKeeps ==
    ASSUME RegistryInvariant, SweepReadClock
    PROVE  RegistryInvariant'
<1> USE RegistryAssumption DEF RegistryInvariant, SweepReadClock, recordVars
<1>1. TypeOK'
  BY DEF TypeOK
<1>2. SweepInTime'
  BY DEF SweepInTime, TypeOK, Asleep
<1>3. SweptOver'
  BY DEF SweptOver, Watched, OfflineAfter
<1> QED BY <1>1, <1>2, <1>3

LEMMA SweepMarkKeeps ==
    ASSUME RegistryInvariant, SweepMark
    PROVE  RegistryInvariant'
<1> USE RegistryAssumption DEF RegistryInvariant
<1>1. TypeOK'
  <2>1. \A n \in Nodes : Watched(n) => Capped(Missed(n)) \in 0..MissedOffline
    BY SilentMeansSilence DEF SweepMark, Capped
  <2>2. missed' \in [Nodes -> 0..MissedOffline]
    BY <2>1 DEF SweepMark, TypeOK
  <2>3. log' \in [Nodes -> Seq(Events)]
    BY DEF SweepMark, TypeOK, Events
  <2>4. state' \in [Nodes -> States]
    BY DEF SweepMark, TypeOK, States
  <2> QED BY <2>2, <2>3, <2>4 DEF SweepMark, TypeOK
<1>2. SweepInTime'
  BY DEF SweepMark, SweepInTime, TypeOK, Asleep
<1>3. SweptOver'
  <2> SUFFICES ASSUME NEW n \in Nodes
               PROVE  /\ lastBeat'[n] <= now'
                      /\ Watched(n)' => lastSweep' - lastBeat'[n] < OfflineAfter + SweepLag
    BY DEF SweptOver, OfflineAfter
  <2>1. lastBeat'[n] <= now'
    BY DEF SweepMark, SweptOver
  <2>2. ASSUME Watched(n)'
        PROVE  lastSweep' - lastBeat'[n] < OfflineAfter + SweepLag
    <3>1. Watched(n) /\ ~Silent(n)
      BY <2>2 DEF SweepMark, Watched, TypeOK, States
    <3>2. sweepAt - lastBeat[n] < OfflineAfter
      BY <3>1, SilentMeansSilence DEF SweepMark, Silent
    <3>3. sweepAt <= now /\ now - sweepAt <= SweepLag
      BY DEF SweepMark, SweepInTime
    <3>4. now \in Nat /\ sweepAt \in Nat /\ lastBeat[n] \in Nat
      BY DEF SweepMark, TypeOK, Asleep
    <3>5. lastSweep' = now /\ lastBeat' = lastBeat
      BY DEF SweepMark
    <3> QED BY <3>2, <3>3, <3>4, <3>5, OfflineAfterType
  <2> QED BY <2>1, <2>2
<1> QED BY <1>1, <1>2, <1>3

LEMMA TickKeeps ==
    ASSUME RegistryInvariant, Tick
    PROVE  RegistryInvariant'
<1> USE RegistryAssumption DEF RegistryInvariant, Tick, recordVars
<1>1. TypeOK'
  BY DEF TypeOK
<1>2. SweepInTime'
  BY DEF SweepInTime, TypeOK, Asleep
<1>3. SweptOver'
  BY DEF SweptOver, Watched, TypeOK, OfflineAfter
<1> QED BY <1>1, <1>2, <1>3

\* Every step of the registry keeps the inductive invariant.
LEMMA StepKeeps == RegistryInvariant /\ [Next]_vars => RegistryInvariant'
<1> SUFFICES ASSUME RegistryInvariant, [Next]_vars PROVE RegistryInvariant'
  OBVIOUS
<1>1. CASE UNCHANGED vars
  BY <1>1 DEF vars, recordVars, RegistryInvariant, TypeOK, SweepInTime, SweptOver,
              Watched, OfflineAfter
<1>2. CASE Next
  BY <1>2, RegisterNewKeeps, RegisterAgainKeeps, HeartbeatKeeps, RemoveKeeps,
     SweepReadClockKeeps, SweepMarkKeeps, TickKeeps DEF Next
<1> QED BY <1>1, <1>2

-----------------------------------------------------------------------------
\* A sweep never lags by more than the bounds, and every node it left alone had
\* been heard from (monitor_heartbeats, sweep).
THEOREM SweepsAreInTime == Spec => []RegistryInvariant
BY InitInvariant, StepKeeps, PTL DEF Spec

\* The registry's records, counters and clock readings keep their types, and
\* missed_heartbeats stays within its cap (register, heartbeat, sweep, remove).
THEOREM RegistryTypeCorrect == Spec => []TypeOK
<1>1. Spec => []RegistryInvariant
  BY SweepsAreInTime
<1>2. RegistryInvariant => TypeOK
  BY DEF RegistryInvariant
<1> QED BY <1>1, <1>2, PTL

\* monitor_heartbeats and sweep retire every node that fell silent, in the time
\* that two late sweeps may take at most.
THEOREM SilenceIsBounded == Spec => []SilenceIsNoticed
<1>1. Spec => []RegistryInvariant
  BY SweepsAreInTime
<1>2. RegistryInvariant => SilenceIsNoticed
  <2> SUFFICES ASSUME RegistryInvariant, NEW n \in Nodes,
                      required[n], state[n] \in {"joining", "idle"}
               PROVE  now - lastBeat[n] < OfflineAfter + SweepPeriod + 2 * SweepLag
    BY DEF SilenceIsNoticed
  <2>1. lastSweep - lastBeat[n] < OfflineAfter + SweepLag
    BY DEF RegistryInvariant, SweptOver, Watched
  <2>2. now - lastSweep <= SweepPeriod + SweepLag
    BY RegistryAssumption DEF RegistryInvariant, SweepInTime, TypeOK, Asleep
  <2>3. now \in Nat /\ lastSweep \in Nat /\ lastBeat[n] \in Nat
    BY DEF RegistryInvariant, TypeOK
  <2> QED BY <2>1, <2>2, <2>3, OfflineAfterType, RegistryAssumption
<1> QED BY <1>1, <1>2, PTL

\* sweep never retires a node too early, although the clock it compares with was
\* read before it held the lock.
THEOREM RetirementIsDeserved == Spec => OfflineIsDeserved
<1>1. Spec => []RegistryInvariant
  BY SweepsAreInTime
<1> DEFINE Deserved ==
      \A n \in Nodes :
          state[n] # "offline" /\ state'[n] = "offline" =>
              required[n] /\ now - lastBeat[n] >= OfflineAfter
<1>2. RegistryInvariant /\ [Next]_vars => [Deserved]_vars
  <2> SUFFICES ASSUME RegistryInvariant, Next, NEW n \in Nodes,
                      state[n] # "offline", state'[n] = "offline"
               PROVE  required[n] /\ now - lastBeat[n] >= OfflineAfter
    OBVIOUS
  <2>1. SweepMark
    BY DEF Next, RegisterNew, RegisterAgain, StateKept, Heartbeat, Remove,
           SweepReadClock, Tick, recordVars, RegistryInvariant, TypeOK
  <2>2. Silent(n)
    BY <2>1 DEF SweepMark
  <2>3. sweepAt - lastBeat[n] >= OfflineAfter
    BY <2>1, <2>2, SilentMeansSilence, RegistryAssumption
       DEF SweepMark, Silent, RegistryInvariant
  <2>4. sweepAt <= now
    BY <2>1 DEF SweepMark, RegistryInvariant, SweepInTime
  <2>5. now \in Nat /\ sweepAt \in Nat /\ lastBeat[n] \in Nat
    BY <2>1 DEF SweepMark, RegistryInvariant, TypeOK, Asleep
  <2> QED BY <2>2, <2>3, <2>4, <2>5, OfflineAfterType DEF Silent, Watched
<1> QED BY <1>1, <1>2, PTL DEF Spec, OfflineIsDeserved

-----------------------------------------------------------------------------
(* The event log. *)

\* The last word is the last event that is not about an address.
LEMMA LastWordSaid ==
    ASSUME NEW events, NEW k \in Nat, NEW i \in 1..k, events[i] # "readdressed",
           \A h \in (i + 1)..k : events[h] = "readdressed"
    PROVE  LastWord(events, k) = events[i]
<1> DEFINE said == {h \in 1..k : events[h] # "readdressed"}
           last == CHOOSE h \in said : \A g \in said : g <= h
<1>1. i \in said /\ \A g \in said : g <= i
  OBVIOUS
<1>2. last \in said /\ \A g \in said : g <= last
  BY <1>1
<1>3. last = i
  <2>1. last \in Int /\ i \in Int /\ last <= i /\ i <= last
    BY <1>1, <1>2
  <2> QED BY <2>1
<1>4. said # {} /\ LastWord(events, k) = IF said = {} THEN "removed" ELSE events[last]
  BY <1>1 DEF LastWord
<1> HIDE DEF said, last
<1> QED BY <1>3, <1>4

LEMMA LastWordUnsaid ==
    ASSUME NEW events, NEW k \in Nat, \A h \in 1..k : events[h] = "readdressed"
    PROVE  LastWord(events, k) = "removed"
<1>1. {h \in 1..k : events[h] # "readdressed"} = {}
  OBVIOUS
<1> QED BY <1>1 DEF LastWord

\* ... so either nothing was said, or there is such a last event.
LEMMA LastWordCases ==
    ASSUME NEW events, NEW k \in Nat
    PROVE  \/ \A h \in 1..k : events[h] = "readdressed"
           \/ \E i \in 1..k : /\ events[i] # "readdressed"
                              /\ \A h \in (i + 1)..k : events[h] = "readdressed"
<1> DEFINE said == {h \in 1..k : events[h] # "readdressed"}
<1>1. CASE said = {}
  BY <1>1
<1>2. CASE said # {}
  <2>1. PICK i \in said : \A h \in said : h <= i
    BY <1>2, LargestExists
  <2>2. \A h \in (i + 1)..k : events[h] = "readdressed"
    BY <2>1
  <2> QED BY <2>1, <2>2
<1> QED BY <1>1, <1>2

\* The last word of a part of the log depends on that part only.
LEMMA LastWordLocal ==
    ASSUME NEW events, NEW longer, NEW k \in Nat, \A i \in 1..k : longer[i] = events[i]
    PROVE  LastWord(longer, k) = LastWord(events, k)
<1>1. CASE \A h \in 1..k : events[h] = "readdressed"
  <2>1. \A h \in 1..k : longer[h] = "readdressed"
    BY <1>1
  <2> QED BY <1>1, <2>1, LastWordUnsaid
<1>2. CASE \E i \in 1..k : /\ events[i] # "readdressed"
                           /\ \A h \in (i + 1)..k : events[h] = "readdressed"
  <2>1. PICK i \in 1..k : /\ events[i] # "readdressed"
                          /\ \A h \in (i + 1)..k : events[h] = "readdressed"
    BY <1>2
  <2>2. /\ longer[i] = events[i]
        /\ \A h \in (i + 1)..k : longer[h] = "readdressed"
    BY <2>1
  <2>3. LastWord(events, k) = events[i]
    BY <2>1, LastWordSaid
  <2>4. LastWord(longer, k) = longer[i]
    BY <2>1, <2>2, LastWordSaid
  <2> QED BY <2>2, <2>3, <2>4
<1> QED BY <1>1, <1>2, LastWordCases

\* What one more event does to the log's last word, and when the log still
\* alternates with it.
LEMMA EventAdded ==
    ASSUME NEW events \in Seq(Events), NEW event \in Events, Alternates(events),
           event # "readdressed" => LastWord(events, Len(events)) \in Follows(event)
    PROVE  LET longer == Append(events, event) IN
           /\ Alternates(longer)
           /\ LastWord(longer, Len(longer)) =
                 IF event = "readdressed" THEN LastWord(events, Len(events)) ELSE event
<1> DEFINE k == Len(events)
           longer == Append(events, event)
<1>1. /\ k \in Nat /\ Len(longer) = k + 1 /\ longer[k + 1] = event
      /\ DOMAIN longer = 1..(k + 1) /\ DOMAIN events = 1..k
      /\ \A i \in 1..k : longer[i] = events[i]
  OBVIOUS
<1> HIDE DEF longer, k
<1>2. \A h \in 0..k : LastWord(longer, h) = LastWord(events, h)
  <2> SUFFICES ASSUME NEW h \in 0..k PROVE LastWord(longer, h) = LastWord(events, h)
    OBVIOUS
  <2>1. h \in Nat /\ \A i \in 1..h : longer[i] = events[i]
    BY <1>1
  <2> QED BY <2>1, LastWordLocal
<1>3. Alternates(longer)
  <2> SUFFICES ASSUME NEW i \in 1..(k + 1), longer[i] # "readdressed"
               PROVE  LastWord(longer, i - 1) \in Follows(longer[i])
    BY <1>1 DEF Alternates
  <2>1. LastWord(longer, i - 1) = LastWord(events, i - 1)
    BY <1>1, <1>2
  <2>2. CASE i = k + 1
    <3>1. longer[i] = event /\ i - 1 = k
      BY <1>1, <2>2
    <3> QED BY <2>1, <3>1 DEF k
  <2>3. CASE i # k + 1
    BY <1>1, <2>1, <2>3 DEF Alternates
  <2> QED BY <2>2, <2>3
<1>4. LastWord(longer, Len(longer)) =
         IF event = "readdressed" THEN LastWord(events, k) ELSE event
  <2>1. CASE event # "readdressed"
    <3>1. k + 1 \in 1..(k + 1) /\ \A h \in (k + 1 + 1)..(k + 1) : longer[h] = "readdressed"
      BY <1>1
    <3>2. LastWord(longer, k + 1) = longer[k + 1]
      BY <1>1, <2>1, <3>1, LastWordSaid
    <3> QED BY <1>1, <2>1, <3>2
  <2>2. CASE event = "readdressed"
    <3>1. CASE \A h \in 1..k : longer[h] = "readdressed"
      <4>1. \A h \in 1..(k + 1) : longer[h] = "readdressed"
        BY <1>1, <2>2, <3>1
      <4>2. LastWord(longer, k + 1) = "removed" /\ LastWord(longer, k) = "removed"
        BY <1>1, <3>1, <4>1, LastWordUnsaid
      <4> QED BY <1>1, <1>2, <2>2, <4>2
    <3>2. ASSUME NEW i \in 1..k, longer[i] # "readdressed",
                 \A h \in (i + 1)..k : longer[h] = "readdressed"
          PROVE  LastWord(longer, k + 1) = LastWord(longer, k)
      <4>1. \A h \in (i + 1)..(k + 1) : longer[h] = "readdressed"
        BY <1>1, <2>2, <3>2
      <4>2. i \in 1..(k + 1)
        BY <1>1
      <4>3. LastWord(longer, k + 1) = longer[i]
        BY <1>1, <3>2, <4>1, <4>2, LastWordSaid
      <4>4. LastWord(longer, k) = longer[i]
        BY <1>1, <3>2, LastWordSaid
      <4> QED BY <4>3, <4>4
    <3>3. LastWord(longer, k) = LastWord(events, k)
      BY <1>1, <1>2
    <3> QED BY <1>1, <2>2, <3>1, <3>2, <3>3, LastWordCases
  <2> QED BY <2>1, <2>2
<1> QED BY <1>3, <1>4 DEF longer, k

\* EventsInvariant at one node: its log alternates and ends with its state.
ToldOf(st, told) ==
    /\ st = "absent" => told = "removed"
    /\ st = "offline" => told = "offline"
    /\ st \in {"joining", "idle"} => told \in {"joined", "recovered"}
NodeEvents(n) == Alternates(log[n]) /\ ToldOf(state[n], LastWord(log[n], Len(log[n])))

LEMMA EventsPerNode ==
    ASSUME TypeOK
    PROVE  EventsInvariant <=> \A n \in Nodes : NodeEvents(n)
<1>1. \A n \in Nodes : state[n] \in {"absent", "joining", "idle", "offline"}
  BY DEF TypeOK, States
<1>2. ASSUME NEW n \in Nodes, NEW told
      PROVE  ToldOf(state[n], told) <=>
                CASE state[n] = "absent" -> told = "removed"
                  [] state[n] = "offline" -> told = "offline"
                  [] OTHER -> told \in {"joined", "recovered"}
  <2>1. CASE state[n] = "absent"
    BY <2>1 DEF ToldOf
  <2>2. CASE state[n] = "offline"
    BY <2>2 DEF ToldOf
  <2>3. CASE state[n] \in {"joining", "idle"}
    BY <2>3 DEF ToldOf
  <2> QED BY <1>1, <2>1, <2>2, <2>3
<1>3. EventsTellMembership <=>
         \A n \in Nodes : ToldOf(state[n], LastWord(log[n], Len(log[n])))
  BY <1>2 DEF EventsTellMembership
<1> QED BY <1>3 DEF EventsInvariant, EventsAlternate, NodeEvents

LEMMA EventsPerNodeNext ==
    ASSUME TypeOK'
    PROVE  EventsInvariant' <=> \A n \in Nodes : NodeEvents(n)'
<1>1. \A n \in Nodes : state'[n] \in {"absent", "joining", "idle", "offline"}
  BY DEF TypeOK, States
<1>2. ASSUME NEW n \in Nodes, NEW told
      PROVE  ToldOf(state'[n], told) <=>
                CASE state'[n] = "absent" -> told = "removed"
                  [] state'[n] = "offline" -> told = "offline"
                  [] OTHER -> told \in {"joined", "recovered"}
  <2>1. CASE state'[n] = "absent"
    BY <2>1 DEF ToldOf
  <2>2. CASE state'[n] = "offline"
    BY <2>2 DEF ToldOf
  <2>3. CASE state'[n] \in {"joining", "idle"}
    BY <2>3 DEF ToldOf
  <2> QED BY <1>1, <2>1, <2>2, <2>3
<1>3. EventsTellMembership' <=>
         \A n \in Nodes : ToldOf(state'[n], LastWord(log'[n], Len(log'[n])))
  BY <1>2 DEF EventsTellMembership
<1> QED BY <1>3 DEF EventsInvariant, EventsAlternate, NodeEvents

\* The changes of state that are events.
Moves(event, st, next) ==
    /\ event = "readdressed" => next = st
    /\ event = "joined" => st = "absent" /\ next \in {"joining", "idle"}
    /\ event = "offline" => st \in {"joining", "idle"} /\ next = "offline"
    /\ event = "recovered" => st = "offline" /\ next = "idle"
    /\ event = "removed" => st \in {"joining", "idle", "offline"} /\ next = "absent"

LEMMA EventTold ==
    ASSUME NEW events \in Seq(Events), NEW event \in Events, NEW st, NEW next,
           Alternates(events), ToldOf(st, LastWord(events, Len(events))),
           Moves(event, st, next)
    PROVE  LET longer == Append(events, event) IN
           Alternates(longer) /\ ToldOf(next, LastWord(longer, Len(longer)))
<1> DEFINE told == LastWord(events, Len(events))
           longer == Append(events, event)
<1> HIDE DEF told
<1>1. event # "readdressed" => told \in Follows(event)
  <2>1. event # "readdressed" => event \in {"joined", "offline", "recovered", "removed"}
    BY DEF Events
  <2>2. CASE event = "joined"
    BY <2>2 DEF Moves, ToldOf, Follows, told
  <2>3. CASE event = "offline"
    BY <2>3 DEF Moves, ToldOf, Follows, told
  <2>4. CASE event = "recovered"
    BY <2>4 DEF Moves, ToldOf, Follows, told
  <2>5. CASE event = "removed"
    BY <2>5 DEF Moves, ToldOf, Follows, told
  <2> QED BY <2>1, <2>2, <2>3, <2>4, <2>5
<1>2. /\ Alternates(longer)
      /\ LastWord(longer, Len(longer)) = IF event = "readdressed" THEN told ELSE event
  BY <1>1, EventAdded DEF told
<1>3. ToldOf(next, IF event = "readdressed" THEN told ELSE event)
  BY DEF Moves, ToldOf, told, Events
<1> HIDE DEF longer
<1>4. Alternates(longer) /\ ToldOf(next, LastWord(longer, Len(longer)))
  BY <1>2, <1>3
<1> QED BY <1>4 DEF longer

LEMMA NodeStepTold ==
    ASSUME TypeOK, NEW n \in Nodes, NodeEvents(n),
           \/ \E event \in Events : /\ log'[n] = Append(log[n], event)
                                    /\ Moves(event, state[n], state'[n])
           \/ /\ log'[n] = log[n]
              /\ \/ state'[n] = state[n]
                 \/ state[n] \in {"joining", "idle"} /\ state'[n] \in {"joining", "idle"}
    PROVE  NodeEvents(n)'
<1>1. log[n] \in Seq(Events)
  BY DEF TypeOK
<1>2. ASSUME NEW event \in Events, log'[n] = Append(log[n], event),
             Moves(event, state[n], state'[n])
      PROVE  NodeEvents(n)'
  BY <1>1, <1>2, EventTold DEF NodeEvents
<1>3. CASE /\ log'[n] = log[n]
           /\ \/ state'[n] = state[n]
              \/ state[n] \in {"joining", "idle"} /\ state'[n] \in {"joining", "idle"}
  BY <1>3 DEF NodeEvents, ToldOf
<1> QED BY <1>2, <1>3

LEMMA InitEvents == Init => EventsInvariant
<1> SUFFICES ASSUME Init PROVE EventsInvariant
  OBVIOUS
<1>1. TypeOK
  BY InitInvariant DEF RegistryInvariant
<1>2. <<>> \in Seq(Events) /\ Len(<<>>) = 0 /\ Append(<<>>, "joined") = <<"joined">>
      /\ "joined" \in Events
  BY DEF Events
<1>3. Alternates(<<>>) /\ LastWord(<<>>, 0) = "removed"
  BY LastWordUnsaid DEF Alternates
<1>4. ToldOf("absent", "removed") /\ Moves("joined", "absent", "idle")
  BY DEF ToldOf, Moves
<1>5. Alternates(<<"joined">>) /\ ToldOf("idle", LastWord(<<"joined">>, Len(<<"joined">>)))
  BY <1>2, <1>3, <1>4, EventTold
<1>6. ASSUME NEW n \in Nodes PROVE NodeEvents(n)
  <2>1. \/ state[n] = "idle" /\ log[n] = <<"joined">>
        \/ state[n] = "absent" /\ log[n] = <<>>
    BY DEF Init
  <2> QED BY <2>1, <1>2, <1>3, <1>4, <1>5 DEF NodeEvents
<1> QED BY <1>1, <1>6, EventsPerNode

\* Every step tells what it changes, and only that.
LEMMA StepTold ==
    ASSUME RegistryInvariant, EventsInvariant, [Next]_vars
    PROVE  EventsInvariant'
<1>1. TypeOK /\ TypeOK'
  BY StepKeeps DEF RegistryInvariant
<1>2. \A n \in Nodes : NodeEvents(n)
  BY <1>1, EventsPerNode
<1>3. state \in [Nodes -> States] /\ log \in [Nodes -> Seq(Events)]
  BY <1>1 DEF TypeOK
<1> SUFFICES ASSUME NEW m \in Nodes PROVE NodeEvents(m)'
  BY <1>1, EventsPerNodeNext
<1> DEFINE Told ==
        \/ \E event \in Events : /\ log'[m] = Append(log[m], event)
                                 /\ Moves(event, state[m], state'[m])
        \/ /\ log'[m] = log[m]
           /\ \/ state'[m] = state[m]
              \/ state[m] \in {"joining", "idle"} /\ state'[m] \in {"joining", "idle"}
<1>4. ASSUME NEW n \in Nodes, NEW h \in Hosts, RegisterNew(n, h) PROVE Told
  <2>1. "joined" \in Events
    BY DEF Events
  <2>2. CASE m = n
    BY <2>1, <2>2, <1>3, <1>4 DEF RegisterNew, Emit, Moves
  <2>3. CASE m # n
    BY <2>3, <1>3, <1>4 DEF RegisterNew, Emit
  <2> QED BY <2>2, <2>3
<1>5. ASSUME NEW n \in Nodes, NEW h \in Hosts, RegisterAgain(n, h) PROVE Told
  <2>1. "readdressed" \in Events
    BY DEF Events
  <2>2. state'[m] = state[m]
    BY <1>3, <1>5 DEF RegisterAgain, StateKept
  <2>3. log' = log \/ log' = [log EXCEPT ![n] = Append(@, "readdressed")]
    BY <1>5 DEF RegisterAgain, Emit
  <2>4. log'[m] = log[m] \/ log'[m] = Append(log[m], "readdressed")
    BY <2>3, <1>3
  <2> QED BY <2>1, <2>2, <2>4 DEF Moves
<1>6. ASSUME NEW n \in Nodes, NEW sample \in BOOLEAN, Heartbeat(n, sample) PROVE Told
  <2>1. "recovered" \in Events
    BY DEF Events
  <2>2. CASE m = n
    <3>1. state'[m] = "idle" /\ state[m] \in {"joining", "idle", "offline"}
      BY <2>2, <1>3, <1>6 DEF Heartbeat, States
    <3>2. CASE state[m] = "offline"
      BY <2>1, <2>2, <3>1, <3>2, <1>3, <1>6 DEF Heartbeat, AnnounceRecovery, Emit, Moves
    <3>3. CASE state[m] # "offline"
      BY <2>2, <3>1, <3>3, <1>6 DEF Heartbeat, AnnounceRecovery
    <3> QED BY <3>2, <3>3
  <2>3. CASE m # n
    BY <2>3, <1>3, <1>6 DEF Heartbeat, AnnounceRecovery, Emit
  <2> QED BY <2>2, <2>3
<1>7. ASSUME NEW n \in Nodes, Remove(n) PROVE Told
  <2>1. "removed" \in Events
    BY DEF Events
  <2>2. CASE m = n
    BY <2>1, <2>2, <1>3, <1>7 DEF Remove, Emit, Moves, States
  <2>3. CASE m # n
    BY <2>3, <1>3, <1>7 DEF Remove, Emit
  <2> QED BY <2>2, <2>3
<1>8. ASSUME SweepMark PROVE Told
  <2>1. "offline" \in Events
    BY DEF Events
  <2>2. CASE Silent(m)
    BY <2>1, <2>2, <1>8 DEF SweepMark, Silent, Watched, Moves
  <2>3. CASE ~Silent(m)
    BY <2>3, <1>8 DEF SweepMark
  <2> QED BY <2>2, <2>3
<1>9. ASSUME SweepReadClock \/ Tick \/ UNCHANGED vars PROVE Told
  BY <1>9 DEF SweepReadClock, Tick, vars, recordVars
<1>10. Told
  BY <1>4, <1>5, <1>6, <1>7, <1>8, <1>9 DEF Next
<1> QED BY <1>1, <1>2, <1>10, NodeStepTold

\* The event log is a faithful history of the pool, for any nodes and any timing:
\* register, heartbeat, sweep and remove tell every change of membership, once.
THEOREM EventsAreFaithful == Spec => []EventsInvariant
<1>1. RegistryInvariant /\ EventsInvariant /\ [Next]_vars => EventsInvariant'
  BY StepTold
<1> QED BY <1>1, InitEvents, SweepsAreInTime, PTL DEF Spec
===============================================================================
