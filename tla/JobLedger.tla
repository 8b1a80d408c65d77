----------------------------- MODULE JobLedger ------------------------------
(***************************************************************************)
(* What the job queue promises the callers of POST /jobs and of            *)
(* GET /jobs/{id} (ctl/main.py), and nothing about nodes, shards, retries  *)
(* or semaphores: an accepted job starts, then gets one verdict that never *)
(* changes, and after shutdown nothing is accepted or started any more.    *)
(* JobQueue implements it (JobQueue!ImplementsLedger).                     *)
(***************************************************************************)
CONSTANT Jobs
VARIABLES status, open

vars == <<status, open>>

Init == status = [j \in Jobs |-> "none"] /\ open = TRUE

Move(j, from, to) ==
    /\ status[j] = from
    /\ status' = [status EXCEPT ![j] = to]
    /\ UNCHANGED open

Accept(j) == open /\ Move(j, "none", "queued")
Start(j) == open /\ Move(j, "queued", "running")
Settle(j) ==
    \/ open /\ Move(j, "running", "done")
    \/ Move(j, "running", "failed")
Shut == open /\ open' = FALSE /\ UNCHANGED status

Next == (\E j \in Jobs : Accept(j) \/ Start(j) \/ Settle(j)) \/ Shut

\* Everything but the fairness.
Safety == Init /\ [][Next]_vars

\* A started job is settled even when the queue shuts down meanwhile; a job
\* that only waits to be started is started unless it does.
Spec == Safety /\ \A j \in Jobs : WF_vars(Start(j)) /\ WF_vars(Settle(j))
=============================================================================
