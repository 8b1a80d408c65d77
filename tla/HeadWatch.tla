----------------------------- MODULE HeadWatch -----------------------------
(***************************************************************************)
(* The head launcher: scripts/serve_head.py with the command it gets from  *)
(* infer/launch.py.                                                        *)
(*                                                                         *)
(* The launcher asks ctl who is alive, starts one llama-server over those  *)
(* nodes, and with --watch polls ctl and starts the server anew when the   *)
(* membership has changed for long enough.  Every request to ctl, the stop *)
(* of the server and its start are steps of their own: membership moves,   *)
(* ctl fails and signals arrive between any two of them.                   *)
(*                                                                         *)
(* A command is its list of machines and, with --placement, the share of   *)
(* each; a share is named after the node the scheduler computed it for.    *)
(***************************************************************************)
EXTENDS Integers, Sequences, FiniteSets

CONSTANTS
    Nodes,         \* node ids, numbers: workers are sorted by id
    HeadId,        \* --head
    Hosts,         \* addresses a node may report
    Arguments,     \* command lines to consider
    MinWorkers,    \* cluster.min_workers
    PollTimes,     \* how long a poll may take: POLL_INTERVAL_S and the request
    Debounce,      \* cluster.replan_debounce_s
    MaxChanges,    \* changes of membership, at most
    MaxFaults      \* restarts of ctl, failed requests, crashes, downloads and signals, at most

HeadAssumption ==
    /\ Nodes \subseteq Nat /\ IsFiniteSet(Nodes) /\ HeadId \in Nodes
    /\ Debounce \in Nat /\ PollTimes \subseteq Nat \ {0} /\ MinWorkers \in Nat
    /\ MaxChanges \in Nat /\ MaxFaults \in Nat
    /\ Arguments \subseteq [watch : BOOLEAN, dry : BOOLEAN, placement : BOOLEAN,
                            file : BOOLEAN, exclude : SUBSET Nodes]

VARIABLES
    \* ctl and the disk
    table,        \* what GET /api/nodes shows of every node
    ggufs,        \* models in the model's directory
    \* the launcher
    args,
    pc,
    handling,     \* the signal handlers are installed
    stopping,
    members,      \* plan_command's members
    command,      \* what the latest server was started with
    current,      \* the membership key the watch loop compares with
    changedFor,   \* time since changed_at, Never while that is None
    \* llama-server
    proc,
    \* what the properties look back on
    confirmed,    \* time since a poll saw the membership that is running
    budget

env == <<table, ggufs>>
seen == <<members, command, current, changedFor>>
vars == <<env, args, pc, handling, stopping, seen, proc, confirmed, budget>>

Never == -1
Rows == [state : {"absent", "forgotten", "joining", "ready", "offline"}, host : Hosts]
Member == [id : Nodes, host : Hosts]
NoCommand == [rpc |-> <<>>, split |-> <<>>]

TypeOK ==
    /\ table \in [Nodes -> Rows] /\ ggufs \in 0..2
    /\ args \in Arguments
    /\ pc \in {"down", "nodes", "placement", "start", "handlers", "loop", "asleep", "poll", "stop"}
    /\ handling \in BOOLEAN /\ stopping \in BOOLEAN
    /\ members \in Seq(Member) /\ current \in Seq(Member)
    /\ command.rpc \in Seq(Member) /\ command.split \in Seq(Nodes)
    /\ changedFor \in {Never} \cup 0..Debounce
    /\ proc \in {"none", "up", "gone"}
    /\ confirmed \in 0..Debounce
    /\ budget \in [changes : 0..MaxChanges, faults : 0..MaxFaults]

Init ==
    /\ \E host \in Hosts : table = [n \in Nodes |-> [state |-> "ready", host |-> host]]
    /\ ggufs = 1
    /\ args \in Arguments
    /\ pc = "nodes" /\ handling = FALSE /\ stopping = FALSE
    /\ members = <<>> /\ command = NoCommand /\ current = <<>> /\ changedFor = Never
    /\ proc = "none"
    /\ confirmed = 0
    /\ budget = [changes |-> 0, faults |-> 0]

Spend(kind) ==
    /\ budget[kind] < [changes |-> MaxChanges, faults |-> MaxFaults][kind]
    /\ budget' = [budget EXCEPT ![kind] = @ + 1]

(***************************************************************************)
(* ctl: the nodes it lists, and the nodes the scheduler plans for          *)
(***************************************************************************)
Listed == {n \in Nodes : table[n].state \in {"joining", "ready", "offline"}}
Alive == {n \in Listed : table[n].state # "offline"} \ args.exclude

\* plan() leaves out nodes that have not reported metrics yet; it knows nothing
\* of --exclude.
Planned == {n \in Listed : table[n].state = "ready"}

\* A node joins, moves to another address, lapses, reports again or is removed.
Churn(n) ==
    /\ \E row \in Rows :
           /\ row # table[n] /\ row.state # "forgotten"
           /\ table' = [table EXCEPT ![n] = row]
    /\ Spend("changes")
    /\ UNCHANGED <<ggufs, args, pc, handling, stopping, seen, proc, confirmed>>

\* The first heartbeat after a join brings the metrics.
Report(n) ==
    /\ table[n].state = "joining"
    /\ table' = [table EXCEPT ![n].state = "ready"]
    /\ UNCHANGED <<ggufs, args, pc, handling, stopping, seen, proc, confirmed, budget>>

\* The registry is in memory; the agents are refused and join again.
CtlRestart ==
    /\ table' = [n \in Nodes |->
                    [table[n] EXCEPT !.state =
                        IF @ \in {"forgotten", "joining", "ready"} THEN "forgotten" ELSE "absent"]]
    /\ Spend("faults")
    /\ UNCHANGED <<ggufs, args, pc, handling, stopping, seen, proc, confirmed>>

Rejoin(n) ==
    /\ table[n].state = "forgotten"
    /\ table' = [table EXCEPT ![n].state = "joining"]
    /\ UNCHANGED <<ggufs, args, pc, handling, stopping, seen, proc, confirmed, budget>>

\* fetch_models puts another file beside the one that is there.
Download ==
    /\ ggufs < 2 /\ ggufs' = ggufs + 1
    /\ Spend("faults")
    /\ UNCHANGED <<table, args, pc, handling, stopping, seen, proc, confirmed>>

(***************************************************************************)
(* build_members, membership_key, resolve_model_file, infer/launch.py      *)
(***************************************************************************)
At(n) == [id |-> n, host |-> table[n].host]
\* The ids of S in ascending order.
SortedIds(S) ==
    CHOOSE s \in [1..Cardinality(S) -> S] : \A i, j \in 1..Cardinality(S) : i < j => s[i] < s[j]
MembersError == HeadId \in args.exclude \/ HeadId \notin Alive
BuildMembers ==
    LET order == <<HeadId>> \o SortedIds(Alive \ {HeadId})
    IN  [i \in 1..Len(order) |-> At(order[i])]

\* mutant: a node that moved is not seen as a change.
KeyOfIds(ms) == [i \in 1..Len(ms) |-> [ms[i] EXCEPT !.host = CHOOSE h \in Hosts : TRUE]]
MembershipKey(ms) == ms
ModelFound == args.file \/ ggufs = 1

Ids(ms) == {ms[i].id : i \in 1..Len(ms)}

\* _assert_plan_matches_membership
PlanMatches(plan, ms) == Len(plan) = Len(ms) /\ {plan[i] : i \in 1..Len(plan)} = Ids(ms)

\* mutant: the shares are handed on in the order the planner listed them.
SharesAsListed(plan, ms) == plan
\* tensor_split, looked up by the node's position in the plan's layers
Shares(plan, ms) ==
    [i \in 1..Len(ms) |-> plan[CHOOSE j \in 1..Len(plan) : plan[j] = ms[i].id]]

\* The plan lists its nodes by id.  Any error of /api/plan means no placement.
PlanOfCtl == SortedIds(Planned)

LlamaServerCommand(ms, plan) ==
    [rpc |-> ms, split |-> IF plan = <<>> THEN <<>> ELSE Shares(plan, ms)]

CommandError(ms, plan) ==
    \/ Len(ms) - 1 < MinWorkers
    \/ plan # <<>> /\ ~PlanMatches(plan, ms)

(***************************************************************************)
(* main()                                                                  *)
(***************************************************************************)

\* The launcher ends, and the unit's control group with it.
Exit ==
    /\ pc' = "down" /\ handling' = FALSE
    /\ proc' = "none"
    /\ UNCHANGED <<env, args, stopping, seen, confirmed>>

Goto(label) ==
    /\ pc' = label
    /\ UNCHANGED <<env, args, handling, stopping>>

Fails(outcome) == Spend("faults") /\ outcome

\* The unit starts the launcher again unless it was told to stop.
Relaunch ==
    /\ pc = "down" /\ ~stopping
    /\ pc' = "nodes"
    /\ members' = <<>> /\ command' = NoCommand /\ current' = <<>> /\ changedFor' = Never
    /\ UNCHANGED <<env, args, handling, stopping, proc, confirmed, budget>>

\* plan_command: fetch_nodes and build_members
FetchNodes ==
    /\ pc = "nodes"
    /\ \/ Fails(Exit)
       \/ MembersError /\ Exit /\ UNCHANGED budget
       \/ /\ ~MembersError /\ members' = BuildMembers
          /\ Goto("placement")
          /\ UNCHANGED <<command, current, changedFor, proc, confirmed, budget>>

\* plan_command: the model's file, fetch_placement, llama_server_command
FetchPlacement ==
    /\ pc = "placement"
    /\ \/ ~ModelFound /\ Exit /\ UNCHANGED budget
       \/ /\ ModelFound
          /\ \E plan \in IF args.placement THEN {<<>>, PlanOfCtl} ELSE {<<>>} :
                 IF CommandError(members, plan)
                 THEN Exit
                 ELSE /\ command' = LlamaServerCommand(members, plan)
                      /\ Goto("start")
                      /\ UNCHANGED <<members, current, changedFor, proc, confirmed>>
          /\ UNCHANGED budget

\* mutant: remember what the poll saw, not what was planned.
KeyPolled == IF MembersError THEN MembershipKey(members) ELSE MembershipKey(BuildMembers)
KeyStarted == MembershipKey(members)

\* run_head, and what main() notes of it
Start ==
    /\ pc = "start"
    /\ \/ args.dry /\ Exit
       \/ /\ ~args.dry
          /\ proc' = "up"
          /\ current' = KeyStarted /\ changedFor' = Never /\ confirmed' = 0
          /\ Goto(IF handling THEN "loop" ELSE "handlers")
          /\ UNCHANGED <<members, command>>
    /\ UNCHANGED budget

InstallHandlers ==
    /\ pc = "handlers"
    /\ handling' = TRUE /\ pc' = "loop"
    /\ UNCHANGED <<env, args, stopping, seen, proc, confirmed, budget>>

\* The head of the loop, or proc.wait() without --watch.
Loop ==
    /\ pc = "loop"
    /\ IF args.watch
       THEN IF stopping \/ proc = "gone" THEN Exit ELSE Goto("asleep") /\ UNCHANGED <<seen, proc, confirmed>>
       ELSE proc = "gone" /\ Exit
    /\ UNCHANGED budget

Later(t, d) == IF t + d < Debounce THEN t + d ELSE Debounce

Sleep ==
    /\ pc = "asleep"
    /\ \E d \in PollTimes :
           /\ changedFor' = IF changedFor = Never THEN Never ELSE Later(changedFor, d)
           /\ confirmed' = Later(confirmed, d)
    /\ Goto("poll")
    /\ UNCHANGED <<members, command, current, proc, budget>>

\* mutant: a membership that came back does not stop the clock.
KeepCounting == changedFor
BackToNormal == Never

\* One poll: it fails, or sees the running membership, or a change that is new,
\* too young, or old enough to act on.
Poll ==
    /\ pc = "poll"
    /\ \/ Fails(Goto("loop") /\ UNCHANGED <<seen, proc, confirmed>>)
       \/ MembersError /\ Goto("loop") /\ UNCHANGED <<seen, proc, confirmed, budget>>
       \/ /\ ~MembersError /\ MembershipKey(BuildMembers) = current
          /\ changedFor' = BackToNormal /\ confirmed' = 0
          /\ Goto("loop")
          /\ UNCHANGED <<members, command, current, proc, budget>>
       \/ /\ ~MembersError /\ MembershipKey(BuildMembers) # current
          /\ changedFor' = IF changedFor = Never THEN 0 ELSE changedFor
          /\ Goto(IF changedFor # Never /\ changedFor >= Debounce THEN "stop" ELSE "loop")
          /\ UNCHANGED <<members, command, current, proc, confirmed, budget>>

\* mutant: the stopped process is still taken for the running one.
StopForgets == IF proc = "up" THEN "stopped" ELSE proc
\* stop_head waits for the server and kills it when it takes too long.
StopHead == IF proc = "up" THEN "gone" ELSE proc

Stop ==
    /\ pc = "stop"
    /\ proc' = StopHead
    /\ Goto("nodes")
    /\ UNCHANGED <<seen, confirmed, budget>>

(***************************************************************************)
(* Signals and crashes                                                     *)
(***************************************************************************)

\* handle_signal; before it is installed the signal ends the launcher.
Signal ==
    /\ pc # "down" /\ ~stopping
    /\ Spend("faults")
    /\ stopping' = TRUE
    /\ IF handling
       THEN proc' = StopHead /\ UNCHANGED <<pc, handling>>
       ELSE /\ pc' = "down" /\ proc' = "none" /\ UNCHANGED handling
    /\ UNCHANGED <<env, args, seen, confirmed>>

Crash ==
    /\ proc = "up" /\ proc' = "gone"
    /\ Spend("faults")
    /\ UNCHANGED <<env, args, pc, handling, stopping, seen, confirmed>>

----------------------------------------------------------------------------
\* Told to stop, or waiting for a server that runs.
Ended ==
    /\ \/ pc = "down" /\ stopping
       \/ pc = "loop" /\ ~args.watch /\ proc = "up"
    /\ UNCHANGED vars

Launcher ==
    FetchNodes \/ FetchPlacement \/ Start \/ InstallHandlers \/ Loop \/ Sleep \/ Poll \/ Stop

Next ==
    \/ Launcher \/ Relaunch \/ Signal \/ Crash \/ CtlRestart \/ Download \/ Ended
    \/ \E n \in Nodes : Churn(n) \/ Report(n) \/ Rejoin(n)

Spec == Init /\ [][Next]_vars

\* The launcher's process keeps running, the unit restarts it, and agents that
\* are up keep sending heartbeats.
FairSpec ==
    /\ Spec /\ WF_vars(Launcher) /\ WF_vars(Relaunch)
    /\ \A n \in Nodes : WF_vars(Report(n)) /\ WF_vars(Rejoin(n))

(***************************************************************************)
(* Properties                                                              *)
(***************************************************************************)
Watching == pc \in {"loop", "asleep", "poll"} /\ ~stopping

\* While the watch loop compares, it compares with the machines the server it
\* watches was really started over (main: current is set from plan_command's
\* own members, which may differ from what the poll saw).
CurrentIsRunning == Watching => current = command.rpc

\* A server started on a placement gets, at the position of every machine of its
\* --rpc list, the share computed for that machine (_assert_plan_matches_membership
\* and the lookup in llama_server_command, against membership that moved between
\* the two requests and a head that is not first by id).
SharesInOrder(c) ==
    /\ Len(c.split) = Len(c.rpc)
    /\ \A i \in 1..Len(c.rpc) : c.split[i] = c.rpc[i].id
SplitFollowsRpc == proc = "up" /\ command.split # <<>> => SharesInOrder(command)

\* What makes it so: a command is the one of the members it was made for, and what
\* the watch loop compares with is noted from them; and the clock of a change
\* never runs ahead of the time since the running membership was last seen, from
\* the first difference to the stop (plan_command, run_head, the loop in main).
StartedAsPlanned ==
    /\ pc = "start" => command.rpc = members
    /\ pc \in {"handlers", "loop", "asleep", "poll", "stop"} => current = command.rpc
    /\ command.split # <<>> => SharesInOrder(command)
ClocksAgree ==
    /\ changedFor <= confirmed
    /\ pc = "stop" => changedFor >= Debounce

\* What the launcher remembers and what it started belong together, although
\* membership moves between any two of its requests (main, plan_command); inductive.
HeadInvariant == TypeOK /\ CurrentIsRunning /\ SplitFollowsRpc /\ StartedAsPlanned /\ ClocksAgree

\* A running server is given up for a new membership only when no poll has seen
\* its own membership for the whole debounce (the comment in main about a
\* half-seated cable, cluster.toml replan_debounce_s).
FlapsAreIgnored ==
    [][pc = "stop" /\ pc' = "nodes" => confirmed >= Debounce]_vars

\* With --watch, the head listed and nobody asking it to stop, a server ends up
\* running over exactly the machines ctl lists, whatever failed on the way: --watch
\* "closes the loop" (ctl/main.py request_replan).  The two kinds of command line
\* for which nothing is promised: a placement together with excluded nodes, since
\* ctl plans over all of them, and a model looked up among several files.
FollowsMembership ==
    /\ args.watch /\ ~args.dry /\ args.file /\ (args.placement => args.exclude = {})
    /\ <>[](HeadId \in Alive /\ ~stopping)
    => <>[](proc = "up" /\ command.rpc = BuildMembers)
=============================================================================
