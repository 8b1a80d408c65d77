---------------------------- MODULE NodeRegistry ----------------------------
(***************************************************************************)
(* The controller's node registry, ctl/registry.py: class NodeRegistry.    *)
(*                                                                         *)
(* register, heartbeat and remove run in the threads of the HTTP handlers, *)
(* sweep runs once a second on the event loop (monitor_heartbeats in       *)
(* ctl/main.py).  Each holds the registry's lock for its whole body, with  *)
(* one exception: sweep reads the clock BEFORE it takes the lock, so its   *)
(* "now" may be older than the heartbeats it then compares it with.        *)
(*                                                                         *)
(* Time is counted in ticks of one second.                                 *)
(***************************************************************************)
EXTENDS Integers, Sequences

CONSTANTS
    Nodes, Hosts,
    Interval,        \* heartbeat_interval_s
    MissedOffline,   \* missed_heartbeats_offline
    SweepPeriod,     \* asyncio.sleep(1.0) between two sweeps
    SweepLag,        \* bound on the wait for the lock inside sweep
    MaxClock,        \* bound on time
    MaxEvents        \* bound on the events of one node

ASSUME RegistryAssumption ==
    /\ Interval \in Nat \ {0} /\ MissedOffline \in Nat \ {0}
    /\ SweepPeriod \in Nat \ {0} /\ SweepLag \in Nat \ {0}
    /\ MaxClock \in Nat /\ MaxEvents \in Nat

VARIABLES
    now,        \* the monotonic clock
    state,      \* profile.state, "absent" without a record
    host,       \* profile.host
    lastBeat,   \* last_heartbeat
    missed,     \* missed_heartbeats
    required,   \* heartbeat_required
    metrics,    \* metrics is not None: a heartbeat brought a sample
    log,        \* events, per node (their order across nodes is left out)
    sweepAt,    \* the sweep's "now" while it waits for the lock
    lastSweep   \* when the last sweep ended

recordVars == <<state, host, lastBeat, missed, required, metrics>>
vars == <<now, recordVars, log, sweepAt, lastSweep>>

Asleep == -1
States == {"absent", "joining", "idle", "offline"}
Events == {"joined", "readdressed", "recovered", "offline", "removed"}

TypeOK ==
    /\ now \in Nat
    /\ state \in [Nodes -> States]
    /\ host \in [Nodes -> Hosts]
    /\ lastBeat \in [Nodes -> Nat]
    /\ missed \in [Nodes -> 0..MissedOffline]
    /\ required \in [Nodes -> BOOLEAN]
    /\ metrics \in [Nodes -> BOOLEAN]
    /\ log \in [Nodes -> Seq(Events)]
    /\ sweepAt \in Nat \cup {Asleep}
    /\ lastSweep \in Nat

\* The registry at startup: empty, or with the mock nodes of seed_registry,
\* which need no heartbeats, each registered and given one heartbeat.
Init ==
    \E seeded \in SUBSET Nodes :
        /\ now = 0
        /\ state = [n \in Nodes |-> IF n \in seeded THEN "idle" ELSE "absent"]
        /\ host \in [Nodes -> Hosts]
        /\ lastBeat = [n \in Nodes |-> 0]
        /\ missed = [n \in Nodes |-> 0]
        /\ required = [n \in Nodes |-> n \notin seeded]
        /\ metrics = [n \in Nodes |-> state[n] = "idle"]
        /\ log = [n \in Nodes |-> IF n \in seeded THEN <<"joined">> ELSE <<>>]
        /\ sweepAt = Asleep
        /\ lastSweep = 0

\* _emit for one node; the bound is on the model, the code's list only grows.
MayEmit(n) == Len(log[n]) < MaxEvents
Emit(n, event) == log' = [log EXCEPT ![n] = Append(@, event)]

-----------------------------------------------------------------------------
\* register() of a new id, as join_node calls it.
RegisterNew(n, h) ==
    /\ state[n] = "absent"
    /\ MayEmit(n)
    /\ state' = [state EXCEPT ![n] = "joining"]
    /\ host' = [host EXCEPT ![n] = h]
    /\ lastBeat' = [lastBeat EXCEPT ![n] = now]
    /\ missed' = [missed EXCEPT ![n] = 0]
    /\ required' = [required EXCEPT ![n] = TRUE]
    /\ metrics' = [metrics EXCEPT ![n] = FALSE]
    /\ Emit(n, "joined")
    /\ UNCHANGED <<now, sweepAt, lastSweep>>

\* mutant: registering again makes an offline node usable without a word
Revived(n) == "idle"
\* register() of a known id keeps its state, it may stay "offline", and the
\* record its last metrics.
StateKept(n) == state[n]

RegisterAgain(n, h) ==
    /\ state[n] # "absent"
    /\ state' = [state EXCEPT ![n] = StateKept(n)]
    /\ host' = [host EXCEPT ![n] = h]
    /\ lastBeat' = [lastBeat EXCEPT ![n] = now]
    /\ missed' = [missed EXCEPT ![n] = 0]
    /\ required' = [required EXCEPT ![n] = TRUE]
    /\ IF h # host[n] THEN MayEmit(n) /\ Emit(n, "readdressed") ELSE UNCHANGED log
    /\ UNCHANGED <<now, metrics, sweepAt, lastSweep>>

AnnounceRecovery(n) ==
    IF state[n] = "offline" THEN MayEmit(n) /\ Emit(n, "recovered") ELSE UNCHANGED log

\* heartbeat(), with or without a sample; an unknown node is a KeyError, a
\* sample of another node a ValueError, and neither changes anything.
Heartbeat(n, sample) ==
    /\ state[n] # "absent"
    /\ lastBeat' = [lastBeat EXCEPT ![n] = now]
    /\ missed' = [missed EXCEPT ![n] = 0]
    /\ state' = [state EXCEPT ![n] = "idle"]
    /\ metrics' = [metrics EXCEPT ![n] = @ \/ sample]
    /\ AnnounceRecovery(n)
    /\ UNCHANGED <<now, host, required, sweepAt, lastSweep>>

\* remove(); the record goes, and with it all it knew.
Remove(n) ==
    /\ state[n] # "absent"
    /\ MayEmit(n)
    /\ state' = [state EXCEPT ![n] = "absent"]
    /\ lastBeat' = [lastBeat EXCEPT ![n] = 0]
    /\ missed' = [missed EXCEPT ![n] = 0]
    /\ required' = [required EXCEPT ![n] = TRUE]
    /\ metrics' = [metrics EXCEPT ![n] = FALSE]
    /\ Emit(n, "removed")
    /\ UNCHANGED <<now, host, sweepAt, lastSweep>>

-----------------------------------------------------------------------------
\* sweep(), first line: now = self.clock(), without the lock.
SweepReadClock ==
    /\ sweepAt = Asleep
    /\ now - lastSweep >= SweepPeriod
    /\ sweepAt' = now
    /\ UNCHANGED <<now, recordVars, log, lastSweep>>

Elapsed(n) == IF sweepAt >= lastBeat[n] THEN sweepAt - lastBeat[n] ELSE 0

\* mutant: a heartbeat counts as missed as soon as it is late
MissedRoundedUp(n) == (Elapsed(n) + Interval - 1) \div Interval
Missed(n) == Elapsed(n) \div Interval

Uncapped(m) == m                 \* mutant: no min(missed, ...)
Capped(m) == IF m < MissedOffline THEN m ELSE MissedOffline

\* mutant: joining nodes are not watched
WatchedOnceIdle(n) == required[n] /\ state[n] = "idle"
Watched(n) == required[n] /\ state[n] \in {"joining", "idle"}

\* mutant: offline nodes are announced again by every sweep
SilentAgain(n) == required[n] /\ state[n] # "absent" /\ Missed(n) >= MissedOffline
\* mutant: one interval more than missed_heartbeats_offline is granted
SilentTooLate(n) == Watched(n) /\ Missed(n) > MissedOffline
Silent(n) == Watched(n) /\ Missed(n) >= MissedOffline

\* The rest of sweep(), under the lock, over all nodes.
SweepMark ==
    /\ sweepAt # Asleep
    /\ \A n \in Nodes : Silent(n) => MayEmit(n)
    /\ missed' = [n \in Nodes |-> IF Watched(n) THEN Capped(Missed(n)) ELSE missed[n]]
    /\ state' = [n \in Nodes |-> IF Silent(n) THEN "offline" ELSE state[n]]
    /\ log' = [n \in Nodes |-> IF Silent(n) THEN Append(log[n], "offline") ELSE log[n]]
    /\ sweepAt' = Asleep
    /\ lastSweep' = now
    /\ UNCHANGED <<now, host, lastBeat, required, metrics>>

\* Time passes, but not past a sweep that is due or that waits for the lock.
Tick ==
    /\ now < MaxClock
    /\ IF sweepAt = Asleep THEN now - lastSweep < SweepPeriod
                           ELSE now - sweepAt < SweepLag
    /\ now' = now + 1
    /\ UNCHANGED <<recordVars, log, sweepAt, lastSweep>>

Next ==
    \/ \E n \in Nodes, h \in Hosts : RegisterNew(n, h) \/ RegisterAgain(n, h)
    \/ \E n \in Nodes, sample \in BOOLEAN : Heartbeat(n, sample)
    \/ \E n \in Nodes : Remove(n)
    \/ SweepReadClock
    \/ SweepMark
    \/ Tick

Spec == Init /\ [][Next]_vars

-----------------------------------------------------------------------------
(* Properties *)

OfflineAfter == Interval * MissedOffline

\* sweep retires a node only when really, by the clock at that moment, no
\* heartbeat and no registration came for missed_heartbeats_offline intervals,
\* although it compares with a clock reading from before the lock; and it never
\* retires a node that need not send heartbeats.
OfflineIsDeserved ==
    [][\A n \in Nodes :
          state[n] # "offline" /\ state'[n] = "offline" =>
              required[n] /\ now - lastBeat[n] >= OfflineAfter]_vars

\* A node that must send heartbeats and fell silent is retired in bounded time,
\* also when it was never more than "joining".
SilenceIsNoticed ==
    \A n \in Nodes :
        required[n] /\ state[n] \in {"joining", "idle"} =>
            now - lastBeat[n] < OfflineAfter + SweepPeriod + 2 * SweepLag

\* The clock readings of the sweep are old by a bounded time ...
SweepInTime ==
    /\ sweepAt = Asleep => lastSweep <= now /\ now - lastSweep <= SweepPeriod
    /\ sweepAt # Asleep =>
           /\ sweepAt <= now /\ now - sweepAt <= SweepLag
           /\ lastSweep <= sweepAt /\ sweepAt - lastSweep <= SweepPeriod

\* ... and the last sweep would have retired a node that was silent by then.
SweptOver ==
    \A n \in Nodes :
        /\ lastBeat[n] <= now
        /\ Watched(n) => lastSweep - lastBeat[n] < OfflineAfter + SweepLag

\* The inductive invariant behind SilenceIsNoticed and OfflineIsDeserved: a
\* sweep in progress (monitor_heartbeats, sweep) reads a clock that is late by
\* at most SweepLag, and every node it last left alone had been heard from.
RegistryInvariant == TypeOK /\ SweepInTime /\ SweptOver

\* The last of the first k events, readdressing apart; a node of which nothing
\* was said is as good as removed.
LastWord(events, k) ==
    LET said == {i \in 1..k : events[i] # "readdressed"} IN
    IF said = {} THEN "removed" ELSE events[CHOOSE i \in said : \A h \in said : h <= i]

\* A consumer that only reads the events (the feed, the dashboard) knows who is
\* in the pool and who is up: no change of membership is silent.
EventsTellMembership ==
    \A n \in Nodes :
        LET told == LastWord(log[n], Len(log[n])) IN
        CASE state[n] = "absent" -> told = "removed"
          [] state[n] = "offline" -> told = "offline"
          [] OTHER -> told \in {"joined", "recovered"}

\* ... and no event is said twice: each one follows from the one before it.
Follows(e) ==
    CASE e = "joined" -> {"removed"}
      [] e = "offline" -> {"joined", "recovered"}
      [] e = "recovered" -> {"offline"}
      [] e = "removed" -> {"joined", "recovered", "offline"}
Alternates(events) ==
    \A i \in DOMAIN events :
        events[i] # "readdressed" => LastWord(events, i - 1) \in Follows(events[i])
EventsAlternate == \A n \in Nodes : Alternates(log[n])

\* The event log is a faithful history: no change of membership is silent, and
\* none is told twice, however register, heartbeat, sweep and remove interleave.
EventsInvariant == EventsTellMembership /\ EventsAlternate
=============================================================================
