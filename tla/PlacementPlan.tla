---------------------------- MODULE PlacementPlan ----------------------------
(***************************************************************************)
(* The scheduler: sched/plan.py with the cost model of sched/cost.py.      *)
(*                                                                         *)
(* plan() gives every usable node a share of the model's layers that is    *)
(* proportional to its measured speed, then moves layers one at a time     *)
(* from nodes over their memory budget to the fastest node with room.      *)
(* Each turn of the two loops is an action, so that the loops' invariants, *)
(* their hard stop and their termination can be stated.                    *)
(*                                                                         *)
(* A node's id is a natural number: the code orders nodes by id.  Memory   *)
(* is counted in units of which a layer, with its KV cache, takes          *)
(* LayerSize; speeds are whole.  The code divides floating-point numbers:  *)
(* where a rounding is exactly halfway, either result is possible.         *)
(***************************************************************************)
EXTENDS Integers, FiniteSets, FiniteSetsExt

CONSTANTS
    Nodes,          \* ids of the nodes with a profile
    Speeds,         \* possible tg_tok_s; 0 is an uncalibrated node
    Readings,       \* possible [metal, ram, vram] of a profile and its metrics
    TotalLayers,    \* model_spec["total_layers"]
    LayerSize,      \* layer_weight_mb + kv_mb_per_layer
    Overhead        \* COMPUTE_OVERHEAD_MB

ASSUME PlanAssumption ==
    /\ Nodes \subseteq Nat /\ IsFiniteSet(Nodes)
    /\ Speeds \subseteq Nat
    /\ Readings \subseteq [metal : BOOLEAN, ram : Nat, vram : Nat]
    /\ TotalLayers \in Nat \ {0} /\ LayerSize \in Nat \ {0} /\ Overhead \in Nat

VARIABLES
    speed,      \* tg_tok_s
    reading,    \* backend, ram_free_mb and vram_free_mb
    usable,     \* usable_profiles: metrics known and not offline
    placed,     \* nodes the first loop has been through
    count,      \* layers per node: last - first + 1
    turn,       \* turns of the repair loop taken
    phase,      \* where plan() is
    split       \* tensor_split of the result, in units of 1/Scale

vars == <<speed, reading, usable, placed, count, turn, phase, split>>
inputs == <<speed, reading, usable>>

Scale == 10000      \* round(..., 4)
Outcomes == {"accepted", "no nodes", "no speed", "no fit", "uncalibrated"}
Phases == {"start", "assign", "repair", "check"} \cup Outcomes

TypeOK ==
    /\ speed \in [Nodes -> Speeds]
    /\ reading \in [Nodes -> Readings]
    /\ usable \subseteq Nodes
    /\ placed \subseteq usable
    /\ count \in [Nodes -> 0..TotalLayers]
    /\ turn \in 0..(TotalLayers * Cardinality(usable))
    /\ phase \in Phases
    /\ split \in [Nodes -> 0..Scale]

Init ==
    /\ speed \in [Nodes -> Speeds]
    /\ reading \in [Nodes -> Readings]
    /\ \E reported, offline \in SUBSET Nodes : usable = reported \ offline
    /\ placed = {}
    /\ count = [n \in Nodes |-> 0]
    /\ turn = 0
    /\ phase = "start"
    /\ split = [n \in Nodes |-> 0]

-----------------------------------------------------------------------------
(* The cost model *)

\* mutant: unified memory is counted twice
UsableMemTwice(n) ==
    LET free == reading[n].ram + reading[n].vram - Overhead IN
    IF free > 0 THEN free ELSE 0
\* usable_mem_mb
UsableMem(n) ==
    LET r == reading[n]
        free == (IF r.metal THEN r.ram ELSE r.ram + r.vram) - Overhead
    IN  IF free > 0 THEN free ELSE 0

Footprint(layers) == layers * LayerSize

\* overflow_mb > 0; fits says that it holds of no node.
Overflows(n) == Footprint(count[n]) > UsableMem(n)
Overflowing == {n \in usable : Overflows(n)}

\* mutant: the slack of a donor need not be a whole layer
AnySlack(n) == UsableMem(n) - Footprint(count[n]) > 0
HasSlack(n) == UsableMem(n) - Footprint(count[n]) >= LayerSize

Allocated == SumFunctionOnSet(count, placed)
TotalSpeed == SumFunctionOnSet(speed, usable)

\* round(a / b)
Nearest(a, b) == {k \in {a \div b, a \div b + 1} : 2 * k * b - 2 * a \in -b .. b}

-----------------------------------------------------------------------------
(* plan(), _assign_by_speed() *)

\* The two early errors of plan() and the one of _assign_by_speed.
Start ==
    /\ phase = "start"
    /\ phase' = IF usable = {} THEN "no nodes"
                ELSE IF TotalSpeed = 0 THEN "no speed" ELSE "assign"
    /\ UNCHANGED <<inputs, placed, count, turn, split>>

\* mutant: the first nodes may together take more layers than there are
Overshoot(k) == k
NoOvershoot(k) == Min({k, TotalLayers - Allocated})

\* One turn of the loop over the nodes in the order of their ids.
AssignNext ==
    /\ phase = "assign"
    /\ LET n == Min(usable \ placed)
           final == usable \ placed = {n}
       IN  /\ \E k \in IF final THEN {TotalLayers - Allocated}
                       ELSE {Max({1, r}) : r \in Nearest(speed[n] * TotalLayers, TotalSpeed)} :
                  count' = [count EXCEPT ![n] = NoOvershoot(k)]
           /\ placed' = placed \cup {n}
           /\ phase' = IF final THEN "repair" ELSE "assign"
    /\ UNCHANGED <<inputs, turn, split>>

-----------------------------------------------------------------------------
(* _repair() *)

\* mutant: the hard stop counts nodes only
FewTurns == Cardinality(usable)
MaxTurns == TotalLayers * Cardinality(usable)

\* _find_slack_donor: the fastest, and of equally fast ones the last by id.
Donors(n) == {d \in usable \ {n} : HasSlack(d)}
Donor(n) ==
    CHOOSE d \in Donors(n) :
        \A e \in Donors(n) : speed[e] < speed[d] \/ (speed[e] = speed[d] /\ e <= d)

\* A turn of the loop works on the first node, by id, that overflows.
Repairing == phase = "repair" /\ turn < MaxTurns /\ Overflowing # {}
First == Min(Overflowing)

\* mutant: the layer is taken away and given to nobody
DropLayer(n, d) == [count EXCEPT ![n] = @ - 1]
MoveLayer(n, d) == [count EXCEPT ![n] = @ - 1, ![d] = @ + 1]

RepairMove ==
    /\ Repairing
    /\ count[First] > 1
    /\ Donors(First) # {}
    /\ count' = MoveLayer(First, Donor(First))
    /\ turn' = turn + 1
    /\ UNCHANGED <<inputs, placed, phase, split>>

\* mutant: while True instead of a bounded loop
SpinForever == turn
SpinOn == turn + 1

\* The node keeps its one layer, and the loop comes back to the same node.
RepairSpin ==
    /\ Repairing
    /\ count[First] <= 1
    /\ turn' = SpinOn
    /\ UNCHANGED <<inputs, placed, count, phase, split>>

\* mutant: the result keeps the split by speed
SplitBySpeed(n) == Nearest(Scale * speed[n], TotalSpeed)
\* _tensor_split_from_layers
SplitByLayers(n) == Nearest(Scale * count[n], Allocated)

\* The loop ends: nothing overflows, nobody has room, or the hard stop.
RepairEnd ==
    /\ phase = "repair"
    /\ Repairing => count[First] > 1 /\ Donors(First) = {}
    /\ \E s \in [usable -> UNION {SplitByLayers(n) : n \in usable}] :
           /\ \A n \in usable : s[n] \in SplitByLayers(n)
           /\ split' = [n \in Nodes |-> IF n \in usable THEN s[n] ELSE 0]
    /\ phase' = "check"
    /\ UNCHANGED <<inputs, placed, count, turn>>

\* fits
Fits == Overflowing = {}

\* The end of plan(): fits, then predict_tok_s, which raises for a node without
\* a measured speed, with layers or without.
Conclude ==
    /\ phase = "check"
    /\ phase' = IF ~Fits THEN "no fit"
                ELSE IF \E n \in usable : speed[n] = 0 THEN "uncalibrated"
                ELSE "accepted"
    /\ UNCHANGED <<inputs, placed, count, turn, split>>

Next == Start \/ AssignNext \/ RepairMove \/ RepairSpin \/ RepairEnd \/ Conclude

Spec == Init /\ [][Next]_vars

\* plan() is one call: while it can go on, it does.
FairSpec == Spec /\ WF_vars(Next)

-----------------------------------------------------------------------------
(* Properties *)

\* _renumber_contiguous: the layers of n in the result.
FirstLayer(n) == SumFunctionOnSet(count, {m \in usable : m < n})
LayersOf(n) == FirstLayer(n) .. (FirstLayer(n) + count[n] - 1)

\* However the shares round and whatever repair moves, the accepted ranges put
\* every layer of the model on exactly one node (_assign_by_speed's remainder
\* and overshoot guard, _repair, _renumber_contiguous).
PlanIsAPartition ==
    phase = "accepted" =>
        \A layer \in 0..(TotalLayers - 1) :
            Cardinality({n \in usable : layer \in LayersOf(n)}) = 1

\* Memory a node physically has: on Metal the GPU's is the same pool.
Physical(n) == IF reading[n].metal THEN reading[n].ram ELSE reading[n].ram + reading[n].vram

\* A node that an accepted plan puts layers on can hold them together with its
\* compute buffers in memory it really has (usable_mem_mb, fits, _repair).
PlanFits ==
    phase = "accepted" =>
        \A n \in usable : count[n] > 0 => Footprint(count[n]) + Overhead <= Physical(n)

\* The shares handed to llama.cpp are those of the repaired layers: nodes with
\* more layers have larger shares, nodes without layers none.
SplitFollowsLayers ==
    phase = "accepted" =>
        \A m, n \in usable :
            /\ count[m] < count[n] => split[m] < split[n]
            /\ count[n] = 0 <=> split[n] = 0

\* What makes it so: the first loop gives no more layers than there are, and the
\* last node takes the rest; from then on every layer is on some node.  Of the
\* layers on nodes over their budget every turn of repair takes one away, unless
\* it spins on a node that has a single layer.
LayersAccounted ==
    /\ \A n \in Nodes \ placed : count[n] = 0
    /\ Allocated <= TotalLayers
    /\ phase = "start" => placed = {}
    /\ phase = "assign" => placed # usable /\ TotalSpeed > 0
    /\ phase \in {"repair", "check", "no fit", "uncalibrated", "accepted"} =>
           placed = usable /\ Allocated = TotalLayers
    /\ phase \in {"start", "assign"} => turn = 0
    /\ phase \in {"uncalibrated", "accepted"} => Fits
    /\ phase \in {"check", "no fit", "uncalibrated", "accepted"} =>
           \A n \in usable : split[n] \in SplitByLayers(n)
RepairPaysOff ==
    phase = "repair" =>
        \/ turn + SumFunctionOnSet(count, Overflowing) <= TotalLayers
        \/ Overflowing # {} /\ count[First] <= 1

\* What plan() returns is well formed whatever rounding and repair did: every
\* layer once, and shares that are those of the layers; inductive with
\* RepairGoesAllTheWay.
PlanInvariant == TypeOK /\ LayersAccounted /\ RepairPaysOff /\ PlanIsAPartition /\ SplitFollowsLayers

\* Repair only ever improves: a node within its budget is never pushed over it,
\* and a node over it never gets more (_find_slack_donor's whole layer of slack).
RepairNeverOverloads ==
    [][phase = "repair" =>
          \A n \in usable : Overflows(n)' => Overflows(n) /\ count'[n] <= count[n]]_vars

\* The hard stop of _repair never cuts off a repair that could go on: when the
\* loop ends over budget, its first node is down to one layer or no other node
\* has room.
RepairGoesAllTheWay ==
    phase = "check" /\ Overflowing # {} => count[First] = 1 \/ Donors(First) = {}

\* plan() answers: neither loop runs forever.
PlanAnswers == <>(phase \in Outcomes)

\* _repair's promise: "Any node over its memory budget pushes layers onto the
\* fastest node with slack."  So a plan is refused for memory only when the
\* nodes with room have been used up.
RefusedOnlyWithoutSlack ==
    phase = "no fit" => \A n \in Overflowing : Donors(n) = {}

=============================================================================
