---------------------------- MODULE MCNodeStart ----------------------------
(* How a node comes into the pool, for TLC. *)
EXTENDS Naturals, Sequences

CONSTANTS Addresses, Speeds, MaxRows, MaxLosses

VARIABLES env, network, ctl, startPc, listener, considering, endpoint, rows, profile, member, losses

Start == INSTANCE NodeStart WITH pc <- startPc

ASSUME StartConstants == Start!StartAssumption

StartSpec == Start!FairSpec

\* What a node knows when it serves is right, whatever discovery heard and
\* llama-bench printed (_consider, parse_bench_json, calibrate_profile).
StartInvariant == Start!StartInvariant
\* A node with a secret and a readable disk gets into the pool and stays there
\* (main, systemd).
ComesUp == Start!ComesUp
=============================================================================
