-------------------------- MODULE PlacementPlanProofs --------------------------
(***************************************************************************)
(* Proofs about the scheduler, for any nodes, speeds, memories and number  *)
(* of layers: whatever the shares round to and repair moves, an accepted   *)
(* plan has every layer once and fits, repair overloads nobody, and its    *)
(* hard stop never cuts off a repair that could go on.                     *)
(***************************************************************************)
EXTENDS PlacementPlan, InductionFacts

LEMMA UsableFinite ==
    ASSUME usable \subseteq Nodes
    PROVE  usable \in SUBSET Nat /\ \A S \in SUBSET usable : IsFiniteSet(S)
  BY PlanAssumption, FS_Subset

LEMMA MinIsSmallest ==
    ASSUME NEW S \in SUBSET Nat, S # {}
    PROVE  Min(S) \in S /\ \A x \in S : Min(S) <= x
  BY SmallestExists DEF Min

LEMMA MinOfTwo ==
    ASSUME NEW a \in Int, NEW b \in Int
    PROVE  /\ Min({a, b}) \in {a, b} /\ Min({a, b}) <= a /\ Min({a, b}) <= b
           /\ Max({a, b}) \in {a, b} /\ Max({a, b}) >= a /\ Max({a, b}) >= b
<1>1. \E x \in {a, b} : \A y \in {a, b} : x =< y
  <2>1. CASE a <= b
    BY <2>1
  <2>2. CASE ~(a <= b)
    BY <2>2
  <2> QED BY <2>1, <2>2
<1>2. \E x \in {a, b} : \A y \in {a, b} : x >= y
  <2>1. CASE a <= b
    BY <2>1
  <2>2. CASE ~(a <= b)
    BY <2>2
  <2> QED BY <2>1, <2>2
<1>3. Min({a, b}) \in {a, b} /\ \A y \in {a, b} : Min({a, b}) =< y
  BY <1>1 DEF Min
<1>4. Max({a, b}) \in {a, b} /\ \A y \in {a, b} : Max({a, b}) >= y
  BY <1>2 DEF Max
<1> QED BY <1>3, <1>4

\* What rounding does.
LEMMA NearestIsNear ==
    ASSUME NEW a \in Nat, NEW b \in Nat \ {0}, NEW k \in Nearest(a, b)
    PROVE  k \in Nat /\ 2 * (k * b) - 2 * a <= b /\ 2 * a - 2 * (k * b) <= b
<1> DEFINE q == a \div b
<1>1. q \in Nat
  OBVIOUS
<1>2. k \in Nat
  BY <1>1 DEF Nearest
<1>3. 2 * k * b - 2 * a \in -b .. b
  BY DEF Nearest
<1>4. 2 * k * b = 2 * (k * b) /\ k * b \in Nat
  BY <1>2
<1> QED BY <1>2, <1>3, <1>4

-----------------------------------------------------------------------------
(* Layers and memory are numbers. *)

LEMMA MemoryIsNumber ==
    ASSUME TypeOK, NEW n \in Nodes
    PROVE  UsableMem(n) \in Nat
<1>1. reading[n] \in [metal : BOOLEAN, ram : Nat, vram : Nat]
  BY PlanAssumption DEF TypeOK
<1>2. reading[n].ram \in Nat /\ reading[n].vram \in Nat
  BY <1>1
<1> QED BY <1>2, PlanAssumption DEF UsableMem

LEMMA FootprintGrows ==
    ASSUME NEW a \in Nat, NEW b \in Nat
    PROVE  /\ Footprint(a) \in Nat /\ Footprint(0) = 0
           /\ a <= b => Footprint(a) <= Footprint(b)
           /\ a > 0 => Footprint(a) > 0
           /\ Footprint(a + 1) = Footprint(a) + LayerSize
<1>1. LayerSize \in Nat /\ LayerSize > 0
  BY PlanAssumption
<1>2. (a + 1) * LayerSize = a * LayerSize + LayerSize /\ a * LayerSize \in Nat /\ 0 * LayerSize = 0
  BY <1>1
<1>3. a <= b => a * LayerSize <= b * LayerSize
  <2> SUFFICES ASSUME a <= b PROVE a * LayerSize <= b * LayerSize
    OBVIOUS
  <2>1. PICK d \in Nat : b = a + d
    BY b - a \in Nat
  <2>2. b * LayerSize = a * LayerSize + d * LayerSize /\ d * LayerSize \in Nat
    BY <1>1, <2>1
  <2> QED BY <1>2, <2>2
<1>4. a > 0 => a * LayerSize > 0
  <2> SUFFICES ASSUME a > 0 PROVE a * LayerSize > 0
    OBVIOUS
  <2>1. PICK d \in Nat : a = d + 1
    BY a - 1 \in Nat
  <2>2. a * LayerSize = d * LayerSize + LayerSize /\ d * LayerSize \in Nat
    BY <1>1, <2>1
  <2> QED BY <1>1, <2>2
<1> QED BY <1>2, <1>3, <1>4 DEF Footprint

LEMMA SumsAreNumbers ==
    ASSUME TypeOK
    PROVE  /\ \A S \in SUBSET usable : /\ IsFiniteSet(S) /\ SumFunctionOnSet(count, S) \in Nat
                                       /\ \A n \in S : count[n] <= SumFunctionOnSet(count, S)
           /\ \A S, T \in SUBSET usable :
                  S \subseteq T => SumFunctionOnSet(count, S) <= SumFunctionOnSet(count, T)
           /\ TotalSpeed \in Nat /\ Allocated \in Nat
<1>1. /\ usable \subseteq Nodes /\ placed \in SUBSET usable /\ usable \in SUBSET usable
      /\ \A n \in Nodes : count[n] \in Nat /\ speed[n] \in Nat
  <2>1. TotalLayers \in Nat /\ Speeds \subseteq Nat
    BY PlanAssumption
  <2>2. \A n \in Nodes : count[n] \in 0..TotalLayers /\ speed[n] \in Speeds
    BY DEF TypeOK
  <2>3. usable \subseteq Nodes /\ placed \in SUBSET usable
    BY DEF TypeOK
  <2>4. ASSUME NEW n \in Nodes PROVE count[n] \in Nat /\ speed[n] \in Nat
    <3>1. count[n] \in 0..TotalLayers /\ speed[n] \in Speeds
      BY <2>2
    <3>2. count[n] \in Nat
      BY <2>1, <3>1
    <3>3. speed[n] \in Nat
      BY <2>1, <3>1, Zenon
    <3> QED BY <3>2, <3>3
  <2>5. usable \in SUBSET usable
    OBVIOUS
  <2> QED BY <2>3, <2>4, <2>5
<1>2. \A S \in SUBSET usable : IsFiniteSet(S) /\ \A n \in S : count[n] \in Nat
  BY <1>1, UsableFinite
<1>3. \A S \in SUBSET usable : /\ SumFunctionOnSet(count, S) \in Nat
                               /\ \A n \in S : count[n] <= SumFunctionOnSet(count, S)
  BY <1>2, SumIsNatural
<1>4. ASSUME NEW S \in SUBSET usable, NEW T \in SUBSET usable, S \subseteq T
      PROVE  SumFunctionOnSet(count, S) <= SumFunctionOnSet(count, T)
  BY <1>2, <1>4, SumIsNatural
<1>5. \A n \in usable : speed[n] \in Nat
  BY <1>1
<1>6. SumFunctionOnSet(speed, usable) \in Nat
  BY <1>1, <1>2, <1>5, SumIsNatural
<1> QED BY <1>1, <1>2, <1>3, <1>4, <1>6 DEF Allocated, TotalSpeed

-----------------------------------------------------------------------------
(* plan(): the actions. *)

PlanCore == TypeOK /\ LayersAccounted /\ RepairPaysOff /\ RepairGoesAllTheWay

LEMMA StartKeeps ==
    ASSUME PlanCore, Start
    PROVE  PlanCore'
<1>1. /\ phase = "start" /\ phase' \in {"no nodes", "no speed", "assign"}
      /\ UNCHANGED <<inputs, placed, count, turn, split>>
      /\ phase' = "assign" => usable # {} /\ TotalSpeed # 0
  BY DEF Start
<1>2. TypeOK'
  BY <1>1 DEF PlanCore, TypeOK, inputs, Phases, Outcomes
<1>3. RepairPaysOff' /\ RepairGoesAllTheWay'
  BY <1>1 DEF RepairPaysOff, RepairGoesAllTheWay
<1>4. phase' = "assign" => placed # usable /\ TotalSpeed > 0
  <2>1. placed = {}
    BY <1>1 DEF PlanCore, LayersAccounted
  <2> QED BY <1>1, <2>1, SumsAreNumbers DEF PlanCore
<1>5. LayersAccounted'
  BY <1>1, <1>4 DEF PlanCore, LayersAccounted, Allocated, TotalSpeed, inputs
<1> QED BY <1>2, <1>3, <1>5 DEF PlanCore

\* The turn for node n gives it what is left or less.
LEMMA AssignNextKeeps ==
    ASSUME PlanCore, AssignNext
    PROVE  PlanCore'
<1>1. /\ TypeOK /\ phase = "assign" /\ placed # usable /\ TotalSpeed > 0 /\ turn = 0
      /\ Allocated <= TotalLayers /\ \A m \in Nodes \ placed : count[m] = 0
  BY DEF PlanCore, LayersAccounted, AssignNext
<1>2. /\ usable \subseteq Nodes /\ usable \in SUBSET Nat /\ placed \subseteq usable
      /\ IsFiniteSet(placed) /\ count \in [Nodes -> 0..TotalLayers] /\ TotalLayers \in Nat
      /\ Allocated \in Nat /\ TotalSpeed \in Nat
  BY <1>1, UsableFinite, SumsAreNumbers, PlanAssumption DEF TypeOK
<1>3. PICK n \in usable \ placed : n = Min(usable \ placed)
  BY <1>1, <1>2, MinIsSmallest
<1>4. PICK k : /\ count' = [count EXCEPT ![n] = NoOvershoot(k)]
               /\ IF usable \ placed = {n} THEN k = TotalLayers - Allocated
                  ELSE \E r \in Nearest(speed[n] * TotalLayers, TotalSpeed) : k = Max({1, r})
  BY <1>3 DEF AssignNext
<1>5. /\ placed' = placed \cup {n} /\ phase' = IF usable \ placed = {n} THEN "repair" ELSE "assign"
      /\ UNCHANGED <<inputs, turn, split>>
  BY <1>3 DEF AssignNext
<1>6. k \in Nat
  <2>1. CASE usable \ placed = {n}
    BY <1>1, <1>2, <1>4, <2>1
  <2>2. CASE usable \ placed # {n}
    <3>1. PICK r \in Nearest(speed[n] * TotalLayers, TotalSpeed) : k = Max({1, r})
      BY <1>4, <2>2
    <3>2. speed[n] \in Nat
      BY <1>1, <1>2, PlanAssumption DEF TypeOK
    <3>3. speed[n] * TotalLayers \in Nat
      BY <1>2, <3>2
    <3>4. r \in Nat
      BY <1>1, <1>2, <3>3, NearestIsNear
    <3>5. Max({1, r}) \in {1, r}
      <4>1. 1 \in Int /\ r \in Int
        BY <3>4
      <4> QED BY <4>1, MinOfTwo, Zenon
    <3> QED BY <3>1, <3>4, <3>5
  <2> QED BY <2>1, <2>2
<1>7. PICK v \in 0..TotalLayers :
         /\ v = NoOvershoot(k) /\ v <= TotalLayers - Allocated
         /\ usable \ placed = {n} => v = TotalLayers - Allocated
  <2>1. TotalLayers - Allocated \in Nat
    BY <1>1, <1>2
  <2>2. /\ Min({k, TotalLayers - Allocated}) \in {k, TotalLayers - Allocated}
        /\ Min({k, TotalLayers - Allocated}) <= TotalLayers - Allocated
    <3>1. k \in Int /\ TotalLayers - Allocated \in Int
      BY <1>6, <2>1
    <3> QED BY <3>1, MinOfTwo, Zenon
  <2>3. Min({k, TotalLayers - Allocated}) \in Nat
    BY <1>6, <2>1, <2>2
  <2>4. usable \ placed = {n} => Min({k, TotalLayers - Allocated}) = TotalLayers - Allocated
    BY <1>4, <2>2
  <2> QED BY <1>2, <2>2, <2>3, <2>4 DEF NoOvershoot
<1>8. count'[n] = v /\ \A m \in Nodes \ {n} : count'[m] = count[m]
  BY <1>2, <1>4, <1>7
<1>9. Allocated' = v + Allocated
  <2>1. \A m \in placed : count[m] \in Int /\ count'[m] = count[m] /\ count'[m] \in Int
    BY <1>2, <1>3, <1>8
  <2>2. SumFunctionOnSet(count', placed) = SumFunctionOnSet(count, placed)
    BY <1>2, <2>1, SumSame
  <2>3. SumFunctionOnSet(count', placed \cup {n}) = count'[n] + SumFunctionOnSet(count', placed)
    <3>1. IsFiniteSet(placed) /\ n \notin placed /\ count'[n] \in Int
      BY <1>2, <1>3, <1>8
    <3> QED BY <2>1, <3>1, SumAdds
  <2> QED BY <1>5, <1>8, <2>2, <2>3 DEF Allocated
<1>10. TypeOK'
  <2>1. count' \in [Nodes -> 0..TotalLayers]
    BY <1>2, <1>4, <1>7
  <2> QED BY <1>1, <1>3, <1>5, <2>1 DEF TypeOK, inputs, Phases
<1>11. LayersAccounted'
  <2>1. \A m \in Nodes \ placed' : count'[m] = 0
    BY <1>1, <1>5, <1>8
  <2>2. Allocated' <= TotalLayers /\ (usable \ placed = {n} => Allocated' = TotalLayers)
    BY <1>1, <1>2, <1>7, <1>9
  <2>3. phase' = "assign" => placed' # usable' /\ TotalSpeed' > 0
    BY <1>1, <1>2, <1>3, <1>5 DEF TotalSpeed, inputs
  <2>4. phase' = "repair" => placed' = usable'
    BY <1>2, <1>3, <1>5 DEF inputs
  <2>5. phase' \in {"assign", "repair"} /\ turn' = 0 /\ (phase' = "repair" => usable \ placed = {n})
    BY <1>1, <1>5
  <2> QED BY <2>1, <2>2, <2>3, <2>4, <2>5 DEF LayersAccounted
<1>12. RepairPaysOff'
  <2> SUFFICES ASSUME phase' = "repair"
               PROVE  turn' + SumFunctionOnSet(count', Overflowing') <= TotalLayers
    BY DEF RepairPaysOff
  <2>1. placed' = usable' /\ Allocated' = TotalLayers
    BY <1>11 DEF LayersAccounted
  <2>2. Overflowing' \subseteq usable' /\ usable' \in SUBSET usable'
    BY DEF Overflowing
  <2>3. \A S \in SUBSET usable' : SumFunctionOnSet(count', S) <= SumFunctionOnSet(count', usable')
    <3>1. usable' = usable /\ \A m \in usable : count'[m] \in Nat
      BY <1>2, <1>5, <1>10 DEF TypeOK, inputs
    <3> QED BY <1>2, <3>1, UsableFinite, SumIsNatural
  <2>4. SumFunctionOnSet(count', Overflowing') <= TotalLayers
    BY <2>1, <2>2, <2>3 DEF Allocated
  <2>5. SumFunctionOnSet(count', Overflowing') \in Int
    <3>1. IsFiniteSet(Overflowing') /\ \A m \in Overflowing' : count'[m] \in Nat
      BY <1>2, <1>5, <1>10, <2>2, UsableFinite DEF TypeOK, inputs
    <3> QED BY <3>1, SumIsNatural
  <2> QED BY <1>1, <1>5, <2>4, <2>5
<1>13. RepairGoesAllTheWay'
  BY <1>5 DEF RepairGoesAllTheWay
<1> QED BY <1>10, <1>11, <1>12, <1>13 DEF PlanCore

\* A layer moves from the first node over its budget to one with room for it.
LEMMA RepairMoves ==
    ASSUME PlanCore, RepairMove
    PROVE  \E n, d \in usable :
               /\ n # d /\ n = First /\ n \in Overflowing /\ count[n] > 1 /\ HasSlack(d)
               /\ count' = [count EXCEPT ![n] = @ - 1, ![d] = @ + 1]
               /\ count'[n] = count[n] - 1 /\ count'[d] = count[d] + 1
               /\ \A m \in Nodes \ {n, d} : count'[m] = count[m]
<1>1. TypeOK /\ Overflowing # {} /\ count[First] > 1 /\ Donors(First) # {}
  BY DEF PlanCore, RepairMove, Repairing
<1>2. usable \subseteq Nodes /\ usable \in SUBSET Nat /\ \A S \in SUBSET usable : IsFiniteSet(S)
  BY <1>1, UsableFinite DEF TypeOK
<1>3. PICK n \in usable : n = First /\ n \in Overflowing
  BY <1>1, <1>2, MinIsSmallest DEF First, Overflowing
<1>4. \E d \in Donors(n) : \A e \in Donors(n) :
         speed[e] < speed[d] \/ (speed[e] = speed[d] /\ e <= d)
  <2> DEFINE Ds == Donors(n)
             Fast == {speed[e] : e \in Ds}
  <2>1. /\ Ds # {} /\ Ds \subseteq usable /\ IsFiniteSet(Ds) /\ Ds \in SUBSET Nat
        /\ \A e \in Ds : speed[e] \in Nat
    BY <1>1, <1>2, <1>3, PlanAssumption DEF Donors, TypeOK
  <2> HIDE DEF Ds
  <2>2. IsFiniteSet(Fast) /\ Fast \in SUBSET Nat /\ Fast # {}
    <3>1. [e \in Ds |-> speed[e]] \in Surjection(Ds, Fast)
      BY DEF Surjection
    <3>2. IsFiniteSet(Fast)
      BY <2>1, <3>1, FS_Surjection
    <3> QED BY <2>1, <3>2
  <2>3. PICK top \in Fast : \A x \in Fast : x <= top
    BY <2>2, FiniteHasLargest
  <2> DEFINE Best == {e \in Ds : speed[e] = top}
  <2>4. Best \in SUBSET Nat /\ IsFiniteSet(Best) /\ Best # {}
    BY <2>1, <2>3, FS_Subset
  <2>5. PICK d \in Best : \A e \in Best : e <= d
    BY <2>4, FiniteHasLargest
  <2>6. ASSUME NEW e \in Ds PROVE speed[e] < speed[d] \/ (speed[e] = speed[d] /\ e <= d)
    <3>1. speed[e] \in Fast /\ speed[d] = top /\ speed[e] \in Nat /\ top \in Nat
      BY <2>1, <2>2, <2>5
    <3>2. speed[e] <= top
      BY <2>3, <3>1
    <3>3. speed[e] = top => e <= d
      BY <2>5
    <3> QED BY <3>1, <3>2, <3>3
  <2> QED BY <2>5, <2>6 DEF Ds
<1>5. PICK d \in Donors(n) : d = Donor(n)
  BY <1>4 DEF Donor
<1>6. d \in usable /\ d # n /\ HasSlack(d)
  BY <1>5 DEF Donors
<1>7. count' = [count EXCEPT ![n] = @ - 1, ![d] = @ + 1] /\ count \in [Nodes -> 0..TotalLayers]
  BY <1>1, <1>3, <1>5 DEF RepairMove, MoveLayer, TypeOK
<1>8. /\ count'[n] = count[n] - 1 /\ count'[d] = count[d] + 1
      /\ \A m \in Nodes \ {n, d} : count'[m] = count[m]
  BY <1>2, <1>6, <1>7
<1> QED BY <1>1, <1>3, <1>6, <1>7, <1>8

\* The donor still fits, and who is left over budget was so before.
LEMMA RepairHelps ==
    ASSUME PlanCore, RepairMove, NEW n \in usable, NEW d \in usable, n # d, n \in Overflowing,
           count[n] > 1, HasSlack(d), count'[n] = count[n] - 1, count'[d] = count[d] + 1,
           \A m \in Nodes \ {n, d} : count'[m] = count[m]
    PROVE  /\ d \notin Overflowing /\ d \notin Overflowing'
           /\ \A m \in Nodes \ {n} : m # d => (m \in Overflowing <=> m \in Overflowing')
<1>1. TypeOK /\ usable \subseteq Nodes /\ UNCHANGED <<reading, usable>>
  BY DEF PlanCore, TypeOK, RepairMove, inputs
<1>2. /\ \A m \in Nodes : UsableMem(m)' = UsableMem(m) /\ UsableMem(m) \in Nat
      /\ \A m \in Nodes : count[m] \in Nat
  <2>1. TotalLayers \in Nat
    BY PlanAssumption
  <2> QED BY <1>1, <2>1, MemoryIsNumber DEF UsableMem, TypeOK
<1>3. d \notin Overflowing /\ d \notin Overflowing'
  <2>1. /\ UsableMem(d) - Footprint(count[d]) >= LayerSize /\ d \in Nodes
        /\ Footprint(count[d] + 1) = Footprint(count[d]) + LayerSize /\ Footprint(count[d]) \in Nat
    BY <1>1, <1>2, FootprintGrows DEF HasSlack
  <2>2. UsableMem(d) >= Footprint(count[d]) + LayerSize /\ LayerSize \in Nat /\ UsableMem(d) \in Nat
    BY <1>2, <2>1, PlanAssumption
  <2>3. ~Overflows(d)
    BY <2>1, <2>2 DEF Overflows
  <2>4. Footprint(count'[d]) <= UsableMem(d)' /\ Footprint(count'[d]) \in Nat
    BY <1>2, <2>1, <2>2
  <2>5. ~Overflows(d)'
    BY <1>2, <2>1, <2>4 DEF Overflows, Footprint
  <2> QED BY <2>3, <2>5 DEF Overflowing
<1>4. ASSUME NEW m \in Nodes, m # n, m # d PROVE m \in Overflowing <=> m \in Overflowing'
  BY <1>1, <1>2, <1>4 DEF Overflowing, Overflows, Footprint
<1> QED BY <1>3, <1>4

LEMMA RepairMoveKeeps ==
    ASSUME PlanCore, RepairMove
    PROVE  PlanCore'
<1>1. PICK n \in usable, d \in usable :
         /\ n # d /\ n = First /\ n \in Overflowing /\ count[n] > 1 /\ HasSlack(d)
         /\ count' = [count EXCEPT ![n] = @ - 1, ![d] = @ + 1]
         /\ count'[n] = count[n] - 1 /\ count'[d] = count[d] + 1
         /\ \A m \in Nodes \ {n, d} : count'[m] = count[m]
  BY RepairMoves
<1>2. /\ d \notin Overflowing /\ d \notin Overflowing'
      /\ \A m \in Nodes \ {n} : m # d => (m \in Overflowing <=> m \in Overflowing')
  BY <1>1, RepairHelps
<1>3. /\ TypeOK /\ phase = "repair" /\ phase' = "repair" /\ turn' = turn + 1 /\ turn < MaxTurns
      /\ UNCHANGED <<speed, reading, usable, placed, split>>
  BY DEF PlanCore, RepairMove, Repairing, inputs
<1>4. placed = usable /\ Allocated = TotalLayers /\ \A m \in Nodes \ placed : count[m] = 0
  BY <1>3 DEF PlanCore, LayersAccounted
<1>5. /\ usable \subseteq Nodes /\ \A S \in SUBSET usable : IsFiniteSet(S)
      /\ count \in [Nodes -> 0..TotalLayers] /\ TotalLayers \in Nat /\ turn \in Nat
      /\ \A m \in Nodes : count[m] \in Nat
  <2>1. TotalLayers \in Nat /\ usable \subseteq Nodes /\ count \in [Nodes -> 0..TotalLayers]
    BY <1>3, PlanAssumption DEF TypeOK
  <2>2. turn \in Nat
    BY <1>3 DEF TypeOK
  <2>3. \A m \in Nodes : count[m] \in 0..TotalLayers
    BY <2>1
  <2> QED BY <2>1, <2>2, <2>3, UsableFinite
\* The number of layers that are placed stays the same.
<1> DEFINE mid == [count EXCEPT ![n] = @ - 1]
<1>6. SumFunctionOnSet(count', usable) = SumFunctionOnSet(count, usable)
  <2>1. /\ mid[n] = count[n] - 1 /\ mid[d] = count[d] /\ \A m \in usable : mid[m] \in Int
        /\ \A m \in usable \ {n} : mid[m] = count[m]
    BY <1>1, <1>5
  <2>2. \A m \in usable \ {d} : count'[m] = mid[m]
    BY <1>1, <1>5, <2>1
  <2> HIDE DEF mid
  <2>3. IsFiniteSet(usable) /\ \A m \in usable : count[m] \in Int
    BY <1>5
  <2>4. /\ SumFunctionOnSet(mid, usable) = SumFunctionOnSet(count, usable) - count[n] + mid[n]
        /\ SumFunctionOnSet(count, usable) \in Int
    BY <2>1, <2>3, SumOneChanged
  <2>5. count'[d] \in Int
    BY <1>1, <2>3
  <2>6. SumFunctionOnSet(count', usable) = SumFunctionOnSet(mid, usable) - mid[d] + count'[d]
    BY <2>1, <2>2, <2>3, <2>5, SumOneChanged
  <2> QED BY <1>1, <2>1, <2>3, <2>4, <2>6
<1>7. count[d] + count[n] <= TotalLayers
  <2>1. SumFunctionOnSet(count, usable) = TotalLayers
    BY <1>4 DEF Allocated
  <2>2. IsFiniteSet(usable) /\ usable \in SUBSET usable /\ \A m \in usable : count[m] \in Int
    BY <1>5
  <2>3. SumFunctionOnSet(count, usable) = count[n] + SumFunctionOnSet(count, usable \ {n})
    BY <2>2, SumTakesAny
  <2>4. usable \ {n} \in SUBSET usable /\ d \in usable \ {n}
    BY <1>1
  <2>5. count[d] <= SumFunctionOnSet(count, usable \ {n}) /\ SumFunctionOnSet(count, usable \ {n}) \in Nat
    BY <1>3, <2>4, SumsAreNumbers
  <2> QED BY <1>5, <2>1, <2>3, <2>5
<1>8. TypeOK'
  <2>1. \A m \in Nodes : count'[m] \in 0..TotalLayers
    BY <1>1, <1>5, <1>7
  <2>2. count' \in [Nodes -> 0..TotalLayers]
    BY <1>1, <1>5, <2>1
  <2>3. turn' \in 0..(TotalLayers * Cardinality(usable))
    <3>1. turn \in 0..MaxTurns /\ MaxTurns = TotalLayers * Cardinality(usable)
      BY <1>3 DEF TypeOK, MaxTurns
    <3>2. MaxTurns \in Int
      BY <1>5, <3>1, FS_CardinalityType
    <3> QED BY <1>3, <3>1, <3>2
  <2> QED BY <1>3, <2>2, <2>3 DEF TypeOK
<1>9. LayersAccounted'
  <2>1. \A m \in Nodes \ placed' : count'[m] = 0
    BY <1>1, <1>3, <1>4
  <2>2. Allocated' = TotalLayers /\ placed' = usable'
    BY <1>3, <1>4, <1>6 DEF Allocated
  <2> QED BY <1>3, <1>5, <2>1, <2>2 DEF LayersAccounted
\* A layer less on nodes over their budget.
<1>10. RepairPaysOff'
  <2>1. turn + SumFunctionOnSet(count, Overflowing) <= TotalLayers
    BY <1>1, <1>3, <1>5 DEF PlanCore, RepairPaysOff
  <2> DEFINE over == Overflowing
  <2>2. IsFiniteSet(over) /\ over \in SUBSET over /\ over \subseteq usable /\ \A m \in over : count[m] \in Int
    BY <1>5 DEF Overflowing
  <2>3. /\ SumFunctionOnSet(count, over) = count[n] + SumFunctionOnSet(count, over \ {n})
        /\ SumFunctionOnSet(count, over \ {n}) \in Int
    <3>1. over \ {n} \in SUBSET over
      OBVIOUS
    <3> QED BY <1>1, <2>2, <3>1, SumTakesAny, SumIsInteger
  <2>4. SumFunctionOnSet(count', over \ {n}) = SumFunctionOnSet(count, over \ {n})
    <3>1. \A m \in over \ {n} : count'[m] = count[m] /\ count[m] \in Int
      BY <1>1, <1>2, <1>5, <2>2
    <3>2. IsFiniteSet(over \ {n})
      BY <2>2, FS_RemoveElement
    <3> QED BY <3>1, <3>2, SumSame
  <2>5. over' = over \/ over' = over \ {n}
    BY <1>1, <1>2, <1>3, <1>5, <2>2 DEF Overflowing
  <2>6. SumFunctionOnSet(count', over') <= SumFunctionOnSet(count, over) - 1
        /\ SumFunctionOnSet(count', over') \in Int
    <3>1. CASE over' = over \ {n}
      BY <1>1, <1>5, <2>3, <2>4, <3>1
    <3>2. CASE over' = over
      <4>1. SumFunctionOnSet(count', over) = SumFunctionOnSet(count, over) - count[n] + count'[n]
            /\ SumFunctionOnSet(count, over) \in Int
        <5>1. \A m \in over \ {n} : count'[m] = count[m]
          BY <1>1, <1>2, <1>5, <2>2
        <5>2. n \in over /\ count'[n] \in Int
          BY <1>1, <1>5
        <5> QED BY <2>2, <5>1, <5>2, SumOneChanged
      <4> QED BY <1>1, <1>5, <3>2, <4>1
    <3> QED BY <2>5, <3>1, <3>2
  <2>7. SumFunctionOnSet(count, over) \in Int
    BY <1>1, <1>5, <2>3
  <2>8. turn' + SumFunctionOnSet(count', over') <= TotalLayers
    BY <1>3, <1>5, <2>1, <2>6, <2>7
  <2> QED BY <2>8 DEF RepairPaysOff
<1>11. RepairGoesAllTheWay'
  BY <1>3 DEF RepairGoesAllTheWay
<1> QED BY <1>8, <1>9, <1>10, <1>11 DEF PlanCore

LEMMA RepairSpinKeeps ==
    ASSUME PlanCore, RepairSpin
    PROVE  PlanCore'
<1>1. /\ TypeOK /\ phase = "repair" /\ turn' = turn + 1 /\ turn < MaxTurns
      /\ UNCHANGED <<speed, reading, usable, placed, count, phase, split>>
      /\ Overflowing # {} /\ count[First] <= 1
  BY DEF PlanCore, RepairSpin, Repairing, inputs, SpinOn
<1>2. TypeOK'
  <2>1. IsFiniteSet(usable) /\ TotalLayers \in Nat
    BY <1>1, UsableFinite, PlanAssumption DEF TypeOK
  <2>2. turn \in 0..MaxTurns /\ MaxTurns = TotalLayers * Cardinality(usable) /\ MaxTurns \in Int
    BY <1>1, <2>1, FS_CardinalityType DEF TypeOK, MaxTurns
  <2>3. turn' \in 0..(TotalLayers * Cardinality(usable))
    BY <1>1, <2>2
  <2> QED BY <1>1, <2>3 DEF TypeOK
<1>3. LayersAccounted'
  BY <1>1 DEF PlanCore, LayersAccounted, Allocated
<1>4. Overflowing' = Overflowing /\ First' = First
  BY <1>1 DEF Overflowing, Overflows, UsableMem, First
<1>5. RepairPaysOff' /\ RepairGoesAllTheWay'
  BY <1>1, <1>4 DEF RepairPaysOff, RepairGoesAllTheWay
<1> QED BY <1>2, <1>3, <1>5 DEF PlanCore

LEMMA ProductGrows ==
    ASSUME NEW a \in Nat, NEW b \in Nat, NEW c \in Nat, a <= b
    PROVE  a * c <= b * c /\ a * c \in Nat /\ b * c \in Nat /\ (a < b => a * c + c <= b * c)
<1>1. PICK d \in Nat : b = a + d
  BY b - a \in Nat
<1>2. b * c = a * c + d * c /\ d * c \in Nat /\ a * c \in Nat
  BY <1>1
<1>3. a < b => d * c >= c
  <2> SUFFICES ASSUME a < b PROVE d * c >= c
    OBVIOUS
  <2>1. PICK e \in Nat : d = e + 1
    BY <1>1, d - 1 \in Nat
  <2>2. d * c = e * c + c /\ e * c \in Nat
    BY <2>1
  <2> QED BY <2>2
<1> QED BY <1>2, <1>3

\* A share of c layers in total, in units of 1/Scale.
LEMMA ShareIsNear ==
    ASSUME NEW total \in Nat \ {0}, NEW c \in 0..total, NEW k \in Nearest(Scale * c, total)
    PROVE  /\ k \in 0..Scale /\ k * total \in Nat
           /\ 2 * (k * total) <= 20000 * c + total /\ 20000 * c <= 2 * (k * total) + total
<1>1. Scale = 10000 /\ Scale * c \in Nat
  BY DEF Scale
<1>2. k \in Nat /\ 2 * (k * total) - 2 * (Scale * c) <= total /\ 2 * (Scale * c) - 2 * (k * total) <= total
  BY <1>1, NearestIsNear
<1>3. k * total \in Nat
  BY <1>2
<1>4. k <= 10000
  <2> SUFFICES ASSUME 10001 <= k PROVE FALSE
    BY <1>2
  <2>1. 10001 * total <= k * total
    BY <1>2, ProductGrows
  <2> QED BY <1>1, <1>2, <1>3, <2>1
<1> QED BY <1>1, <1>2, <1>3, <1>4

\* However repair ended, no turn more would have helped.
LEMMA RepairEndKeeps ==
    ASSUME PlanCore, RepairEnd
    PROVE  PlanCore'
<1>1. /\ TypeOK /\ phase = "repair" /\ phase' = "check"
      /\ UNCHANGED <<speed, reading, usable, placed, count, turn>>
  BY DEF PlanCore, RepairEnd, inputs
<1>2. placed = usable /\ Allocated = TotalLayers
  BY <1>1 DEF PlanCore, LayersAccounted
<1>3. PICK s \in [usable -> UNION {SplitByLayers(n) : n \in usable}] :
         /\ \A n \in usable : s[n] \in SplitByLayers(n)
         /\ split' = [n \in Nodes |-> IF n \in usable THEN s[n] ELSE 0]
  BY DEF RepairEnd
<1>4. TotalLayers \in Nat \ {0} /\ usable \subseteq Nodes /\ usable \in SUBSET Nat
      /\ \A n \in Nodes : count[n] \in 0..TotalLayers /\ count[n] \in Nat
  <2>1. TotalLayers \in Nat \ {0} /\ usable \subseteq Nodes /\ \A n \in Nodes : count[n] \in 0..TotalLayers
    BY <1>1, PlanAssumption DEF TypeOK
  <2> QED BY <1>1, <2>1, UsableFinite
<1>5. TypeOK'
  <2>1. \A n \in usable : s[n] \in 0..Scale
    BY <1>2, <1>3, <1>4, ShareIsNear DEF SplitByLayers
  <2>2. split' \in [Nodes -> 0..Scale]
    BY <1>3, <2>1 DEF Scale
  <2> QED BY <1>1, <2>2 DEF TypeOK, Phases
<1>6. LayersAccounted'
  <2>1. \A n \in usable : split'[n] \in SplitByLayers(n)
    BY <1>3, <1>4
  <2>2. \A n \in usable' : (split[n] \in SplitByLayers(n))'
    BY <1>1, <2>1 DEF SplitByLayers, Allocated
  <2>3. \A n \in Nodes \ placed : count[n] = 0
    BY DEF PlanCore, LayersAccounted
  <2> QED BY <1>1, <1>2, <1>4, <2>2, <2>3 DEF LayersAccounted, Allocated
<1>7. RepairPaysOff'
  BY <1>1 DEF RepairPaysOff
<1>8. Overflowing' = Overflowing /\ First' = First /\ Donors(First)' = Donors(First)
  BY <1>1 DEF Overflowing, Overflows, UsableMem, First, Donors, HasSlack
<1>9. Overflowing # {} => count[First] = 1 \/ Donors(First) = {}
  <2> SUFFICES ASSUME Overflowing # {}, Donors(First) # {} PROVE count[First] = 1
    OBVIOUS
  <2>1. turn >= MaxTurns /\ turn \in Nat /\ MaxTurns \in Nat
    <3>1. IsFiniteSet(usable)
      BY <1>1, UsableFinite DEF TypeOK
    <3>2. turn \in Nat /\ MaxTurns \in Nat
      BY <1>1, <1>4, <3>1, FS_CardinalityType DEF TypeOK, MaxTurns
    <3> QED BY <1>1, <3>2 DEF RepairEnd, Repairing
  <2>2. First \in Overflowing /\ Overflowing \in SUBSET usable /\ First \in usable
    BY <1>4, MinIsSmallest DEF First, Overflowing
  <2>3. count[First] >= 1
    <3>1. count[First] \in Nat /\ UsableMem(First) \in Nat /\ Footprint(count[First]) > UsableMem(First)
      BY <1>1, <1>4, <2>2, MemoryIsNumber DEF Overflowing, Overflows
    <3>2. Footprint(0) = 0
      BY FootprintGrows
    <3> QED BY <3>1, <3>2
  <2>4. CASE turn + SumFunctionOnSet(count, Overflowing) <= TotalLayers
    <3>1. /\ count[First] <= SumFunctionOnSet(count, Overflowing)
          /\ SumFunctionOnSet(count, Overflowing) \in Nat
      BY <1>1, <2>2, SumsAreNumbers
    <3>2. MaxTurns >= TotalLayers
      <4>1. IsFiniteSet(usable) /\ usable # {}
        BY <1>1, <2>2, UsableFinite DEF TypeOK
      <4>2. Cardinality(usable) \in Nat /\ Cardinality(usable) # 0
        BY <4>1, FS_CardinalityType, FS_EmptySet
      <4>3. 1 * TotalLayers <= Cardinality(usable) * TotalLayers
        BY <1>4, <4>2, ProductGrows
      <4> QED BY <1>4, <4>2, <4>3 DEF MaxTurns
    <3> QED BY <1>4, <2>1, <2>2, <2>3, <2>4, <3>1, <3>2
  <2>5. CASE count[First] <= 1
    BY <1>4, <2>2, <2>3, <2>5
  <2> QED BY <1>1, <2>4, <2>5 DEF PlanCore, RepairPaysOff
<1>10. RepairGoesAllTheWay'
  BY <1>1, <1>8, <1>9 DEF RepairGoesAllTheWay
<1> QED BY <1>5, <1>6, <1>7, <1>10 DEF PlanCore

LEMMA ConcludeKeeps ==
    ASSUME PlanCore, Conclude
    PROVE  PlanCore'
<1>1. /\ phase = "check" /\ phase' \in {"no fit", "uncalibrated", "accepted"}
      /\ phase' \in {"uncalibrated", "accepted"} => Fits
      /\ UNCHANGED <<speed, reading, usable, placed, count, turn, split>>
  BY DEF Conclude, inputs
<1>2. TypeOK'
  BY <1>1 DEF PlanCore, TypeOK, Phases, Outcomes
<1>3. Fits' = Fits /\ Allocated' = Allocated /\ \A n \in usable : SplitByLayers(n)' = SplitByLayers(n)
  BY <1>1 DEF Fits, Overflowing, Overflows, UsableMem, SplitByLayers, Allocated
<1>4. LayersAccounted'
  BY <1>1, <1>3 DEF PlanCore, LayersAccounted
<1>5. RepairPaysOff' /\ RepairGoesAllTheWay'
  BY <1>1 DEF RepairPaysOff, RepairGoesAllTheWay
<1> QED BY <1>2, <1>4, <1>5 DEF PlanCore

LEMMA PlanInit == Init => PlanCore
<1> SUFFICES ASSUME Init PROVE PlanCore
  OBVIOUS
<1>1. usable \subseteq Nodes
  BY DEF Init
<1>2. TypeOK
  <2>1. IsFiniteSet(usable) /\ TotalLayers \in Nat
    BY <1>1, UsableFinite, PlanAssumption
  <2>2. TotalLayers * Cardinality(usable) \in Nat
    BY <2>1, FS_CardinalityType
  <2> QED BY <1>1, <2>1, <2>2 DEF Init, TypeOK, Phases, Scale
<1>3. LayersAccounted
  BY SumOfNothing, PlanAssumption DEF Init, LayersAccounted, Allocated
<1>4. RepairPaysOff /\ RepairGoesAllTheWay
  BY DEF Init, RepairPaysOff, RepairGoesAllTheWay
<1> QED BY <1>2, <1>3, <1>4 DEF PlanCore

LEMMA PlanNext == PlanCore /\ [Next]_vars => PlanCore'
<1> SUFFICES ASSUME PlanCore, [Next]_vars PROVE PlanCore'
  OBVIOUS
<1>1. CASE UNCHANGED vars
  BY <1>1 DEF vars, inputs, PlanCore, TypeOK, LayersAccounted, RepairPaysOff, RepairGoesAllTheWay,
     Allocated, TotalSpeed, Fits, Overflowing, Overflows, UsableMem, SplitByLayers, First, Donors, HasSlack
<1> QED BY <1>1, StartKeeps, AssignNextKeeps, RepairMoveKeeps, RepairSpinKeeps, RepairEndKeeps,
           ConcludeKeeps DEF Next

LEMMA PlanCoreHolds == Spec => []PlanCore
  BY PlanInit, PlanNext, PTL DEF Spec


-----------------------------------------------------------------------------
(* What an accepted plan is. *)

\* The range of a node ends before that of any later one begins, and the last
\* range ends with the last layer.
LEMMA RangesFollow ==
    ASSUME TypeOK, NEW n \in usable
    PROVE  /\ FirstLayer(n) \in Nat /\ count[n] \in Nat
           /\ FirstLayer(n) + count[n] = SumFunctionOnSet(count, {m \in usable : m <= n})
           /\ \A m \in usable : m < n => FirstLayer(m) + count[m] <= FirstLayer(n)
<1>1. usable \in SUBSET Nat /\ \A m \in usable : count[m] \in Nat
  <2>1. TotalLayers \in Nat /\ usable \subseteq Nodes /\ \A m \in Nodes : count[m] \in 0..TotalLayers
    BY PlanAssumption DEF TypeOK
  <2> QED BY <2>1, UsableFinite
<1>2. ASSUME NEW m \in usable
      PROVE  /\ FirstLayer(m) \in Nat
             /\ FirstLayer(m) + count[m] = SumFunctionOnSet(count, {x \in usable : x <= m})
  <2> DEFINE S == {x \in usable : x < m}
  <2>0. m \in Nat /\ \A x \in usable : x \in Nat
    BY <1>1
  <2>a. ASSUME NEW x \in usable PROVE x < m \/ x = m <=> x <= m
    BY <2>0
  <2>b. S \subseteq usable /\ m \notin S
    BY <2>0
  <2>c. S \cup {m} = {x \in usable : x <= m}
    <3>1. ASSUME NEW x PROVE x \in S \cup {m} <=> x \in usable /\ x <= m
      BY <2>a
    <3> HIDE DEF S
    <3> QED BY <3>1
  <2> HIDE DEF S
  <2>1. /\ S \in SUBSET usable /\ m \notin S /\ S \cup {m} = {x \in usable : x <= m}
    BY <2>b, <2>c
  <2>2. IsFiniteSet(S) /\ SumFunctionOnSet(count, S) \in Nat
    BY <2>1, SumsAreNumbers
  <2>3. count[m] \in Int /\ \A x \in S : count[x] \in Int
    BY <1>1, <2>1
  <2>4. SumFunctionOnSet(count, S \cup {m}) = count[m] + SumFunctionOnSet(count, S)
    BY <2>1, <2>2, <2>3, SumAdds
  <2>5. FirstLayer(m) = SumFunctionOnSet(count, S)
    BY DEF FirstLayer, S
  <2>6. SumFunctionOnSet(count, {x \in usable : x <= m}) = count[m] + SumFunctionOnSet(count, S)
    BY <2>1, <2>4, Zenon
  <2>7. FirstLayer(m) \in Nat /\ SumFunctionOnSet(count, {x \in usable : x <= m}) = count[m] + FirstLayer(m)
    BY <2>2, <2>5, <2>6, Zenon
  <2>8. FirstLayer(m) + count[m] = count[m] + FirstLayer(m)
    BY <2>3, <2>7
  <2> QED BY <2>7, <2>8
<1>3. ASSUME NEW m \in usable, m < n PROVE FirstLayer(m) + count[m] <= FirstLayer(n)
  <2>1. /\ {x \in usable : x <= m} \subseteq {x \in usable : x < n}
        /\ {x \in usable : x <= m} \in SUBSET usable /\ {x \in usable : x < n} \in SUBSET usable
    <3>1. ASSUME NEW x \in usable, x <= m PROVE x < n
      <4>1. x \in Nat /\ m \in Nat /\ n \in Nat
        BY <1>1
      <4> QED BY <1>3, <3>1, <4>1
    <3> QED BY <3>1
  <2>2. SumFunctionOnSet(count, {x \in usable : x <= m}) <= SumFunctionOnSet(count, {x \in usable : x < n})
    BY <2>1, SumsAreNumbers
  <2> QED BY <1>2, <2>2 DEF FirstLayer
<1> QED BY <1>1, <1>2, <1>3

LEMMA AcceptedIsAPartition == PlanCore => PlanIsAPartition
<1> SUFFICES ASSUME PlanCore, phase = "accepted", NEW layer \in 0..(TotalLayers - 1)
             PROVE  Cardinality({n \in usable : layer \in LayersOf(n)}) = 1
  BY DEF PlanIsAPartition
<1>1. /\ TypeOK /\ SumFunctionOnSet(count, usable) = TotalLayers /\ TotalLayers \in Nat /\ layer \in Nat
      /\ layer < TotalLayers
  BY PlanAssumption DEF PlanCore, LayersAccounted, Allocated
<1>2. usable \in SUBSET Nat /\ IsFiniteSet(usable)
  BY <1>1, UsableFinite DEF TypeOK
<1> DEFINE Ends == {n \in usable : layer < FirstLayer(n) + count[n]}
<1>3. Ends # {}
  <2>1. usable # {}
    BY <1>1, SumOfNothing
  <2>2. PICK last \in usable : \A m \in usable : m <= last
    BY <1>2, <2>1, FiniteHasLargest
  <2>3. {m \in usable : m <= last} = usable
    BY <2>2
  <2>4. FirstLayer(last) + count[last] = TotalLayers
    BY <1>1, <2>3, RangesFollow
  <2> QED BY <1>1, <2>4
<1>4. PICK n \in Ends : \A m \in Ends : n <= m
  <2>1. Ends \in SUBSET Nat
    BY <1>2
  <2> HIDE DEF Ends
  <2> QED BY <1>3, <2>1, SmallestExists
<1>5. FirstLayer(n) <= layer
  <2> DEFINE earlier == {m \in usable : m < n}
  <2>1. CASE earlier = {}
    <3>1. FirstLayer(n) = 0
      BY <2>1, SumOfNothing DEF FirstLayer
    <3> QED BY <1>1, <3>1
  <2>2. CASE earlier # {}
    <3>1. earlier \in SUBSET Nat /\ IsFiniteSet(earlier)
      BY <1>2, FS_Subset
    <3>2. PICK p \in earlier : \A m \in earlier : m <= p
      BY <2>2, <3>1, FiniteHasLargest
    <3>4. p \in usable /\ p < n /\ n \in usable
      BY <1>4, <3>2
    <3>3. {m \in usable : m <= p} = earlier
      <4>1. ASSUME NEW m \in usable PROVE m <= p <=> m < n
        <5>1. m \in Nat /\ p \in Nat /\ n \in Nat
          BY <1>2, <3>4
        <5>2. m < n => m <= p
          BY <3>2
        <5> QED BY <3>4, <5>1, <5>2
      <4> QED BY <4>1
    <3>5. FirstLayer(n) = FirstLayer(p) + count[p]
      BY <1>1, <3>3, <3>4, RangesFollow DEF FirstLayer
    <3>6. p \notin Ends
      BY <1>2, <1>4, <3>4
    <3>7. FirstLayer(p) \in Nat /\ count[p] \in Nat
      BY <1>1, <3>4, RangesFollow
    <3> QED BY <1>1, <3>4, <3>5, <3>6, <3>7
  <2> QED BY <2>1, <2>2
<1>6. ASSUME NEW m \in usable PROVE layer \in LayersOf(m) <=> m = n
  <2>1. /\ n \in usable /\ layer < FirstLayer(n) + count[n]
        /\ FirstLayer(n) \in Nat /\ count[n] \in Nat /\ FirstLayer(m) \in Nat /\ count[m] \in Nat
    BY <1>1, <1>4, RangesFollow
  <2>2. layer \in LayersOf(m) <=> FirstLayer(m) <= layer /\ layer < FirstLayer(m) + count[m]
    BY <1>1, <2>1 DEF LayersOf
  <2>3. CASE m = n
    BY <1>5, <2>1, <2>2, <2>3
  <2>4. CASE m < n
    <3>1. FirstLayer(m) + count[m] <= FirstLayer(n)
      BY <1>1, <2>1, <2>4, RangesFollow
    <3> QED BY <1>1, <1>2, <1>5, <2>1, <2>2, <2>4, <3>1
  <2>5. CASE n < m
    <3>1. FirstLayer(n) + count[n] <= FirstLayer(m)
      BY <1>1, <2>1, <2>5, RangesFollow
    <3> QED BY <1>1, <1>2, <2>1, <2>2, <2>5, <3>1
  <2> QED BY <1>2, <2>1, <2>3, <2>4, <2>5
<1>7. {m \in usable : layer \in LayersOf(m)} = {n}
  BY <1>4, <1>6
<1> QED BY <1>7, FS_Singleton

\* Two numbers of layers never round to the same share: a layer of fewer than
\* Scale is more than a unit.
LEMMA SplitIsOrdered ==
    ASSUME TotalLayers < Scale
    PROVE  PlanCore => SplitFollowsLayers
<1> SUFFICES ASSUME PlanCore, phase = "accepted", NEW m \in usable, NEW n \in usable
             PROVE  /\ count[m] < count[n] => split[m] < split[n]
                    /\ count[n] = 0 <=> split[n] = 0
  BY DEF SplitFollowsLayers
<1>1. /\ TypeOK /\ Allocated = TotalLayers /\ TotalLayers \in Nat \ {0} /\ usable \subseteq Nodes
      /\ TotalLayers < 10000
  <2>1. TypeOK /\ Allocated = TotalLayers
    BY DEF PlanCore, LayersAccounted
  <2>2. TotalLayers \in Nat \ {0} /\ TotalLayers < 10000
    BY PlanAssumption DEF Scale
  <2> QED BY <2>1, <2>2 DEF TypeOK
<1>2. ASSUME NEW x \in usable
      PROVE  /\ count[x] \in 0..TotalLayers /\ split[x] \in Nat /\ split[x] * TotalLayers \in Nat
             /\ 2 * (split[x] * TotalLayers) <= 20000 * count[x] + TotalLayers
             /\ 20000 * count[x] <= 2 * (split[x] * TotalLayers) + TotalLayers
  <2>1. split[x] \in Nearest(Scale * count[x], TotalLayers) /\ count[x] \in 0..TotalLayers
    BY <1>1 DEF PlanCore, LayersAccounted, SplitByLayers, TypeOK
  <2>2. split[x] \in 0..Scale
    BY <1>1, <2>1, ShareIsNear
  <2>3. split[x] \in Nat
    <3>1. \A k \in 0..Scale : k \in Nat
      BY DEF Scale
    <3> QED BY <2>2, <3>1, Zenon
  <2> QED BY <1>1, <2>1, <2>3, ShareIsNear
<1>3. ASSUME count[m] < count[n] PROVE split[m] < split[n]
  <2> SUFFICES ASSUME split[n] <= split[m] PROVE FALSE
    BY <1>2
  <2>1. split[n] * TotalLayers <= split[m] * TotalLayers
    BY <1>1, <1>2, ProductGrows
  <2>2. count[m] + 1 <= count[n]
    BY <1>1, <1>2, <1>3
  <2>3. 20000 * count[n] <= 20000 * count[m] + 2 * TotalLayers
    BY <1>1, <1>2, <2>1
  <2> QED BY <1>1, <1>2, <2>2, <2>3
<1>4. ASSUME count[n] = 0 PROVE split[n] = 0
  <2> SUFFICES ASSUME 1 <= split[n] PROVE FALSE
    BY <1>2
  <2>0. /\ split[n] \in Nat /\ split[n] * TotalLayers \in Nat /\ TotalLayers \in Nat /\ 1 \in Nat
        /\ 2 * (split[n] * TotalLayers) <= 20000 * count[n] + TotalLayers
    BY <1>1, <1>2
  <2>1. 1 * TotalLayers <= split[n] * TotalLayers
    BY <2>0, ProductGrows
  <2>2. 20000 * count[n] = 0 /\ 1 * TotalLayers = TotalLayers /\ TotalLayers > 0
    BY <1>1, <1>4
  <2>3. PICK w \in Nat : w = split[n] * TotalLayers
    BY <2>0
  <2> QED BY <2>0, <2>1, <2>2, <2>3
<1>5. ASSUME split[n] = 0 PROVE count[n] = 0
  <2>1. split[n] * TotalLayers = 0
    BY <1>1, <1>5
  <2>2. count[n] \in Nat /\ 20000 * count[n] <= 2 * (split[n] * TotalLayers) + TotalLayers
    BY <1>1, <1>2
  <2>3. 20000 * count[n] <= TotalLayers
    BY <1>1, <2>1, <2>2
  <2> QED BY <1>1, <2>2, <2>3
<1> QED BY <1>3, <1>4, <1>5

LEMMA AcceptedFits == PlanCore => PlanFits
<1> SUFFICES ASSUME PlanCore, phase = "accepted", NEW n \in usable, count[n] > 0
             PROVE  Footprint(count[n]) + Overhead <= Physical(n)
  BY DEF PlanFits
<1>1. TypeOK /\ Overflowing = {} /\ n \in Nodes /\ count[n] \in Nat
  <2>1. TypeOK /\ Overflowing = {}
    BY DEF PlanCore, LayersAccounted, Fits
  <2>2. n \in Nodes /\ count[n] \in 0..TotalLayers /\ TotalLayers \in Nat
    BY <2>1, PlanAssumption DEF TypeOK
  <2> QED BY <2>1, <2>2
<1>2. /\ Footprint(count[n]) \in Nat /\ Footprint(count[n]) > 0 /\ UsableMem(n) \in Nat
      /\ ~(Footprint(count[n]) > UsableMem(n))
  <2>1. ~Overflows(n)
    BY <1>1 DEF Overflowing
  <2> QED BY <1>1, <2>1, FootprintGrows, MemoryIsNumber DEF Overflows
<1>3. reading[n].ram \in Nat /\ reading[n].vram \in Nat /\ Overhead \in Nat
  <2>1. reading[n] \in [metal : BOOLEAN, ram : Nat, vram : Nat]
    BY <1>1, PlanAssumption DEF TypeOK
  <2> QED BY <2>1, PlanAssumption
<1>4. Physical(n) \in Nat /\ UsableMem(n) = IF Physical(n) - Overhead > 0 THEN Physical(n) - Overhead ELSE 0
  BY <1>3 DEF Physical, UsableMem
<1> QED BY <1>2, <1>3, <1>4

\* However the shares round and whatever repair moves, an accepted plan puts
\* every layer on exactly one node, and its shares are those of the layers, for
\* any model of fewer layers than the split has units (_assign_by_speed, _repair,
\* _renumber_contiguous, _tensor_split_from_layers).
THEOREM PlanIsWellFormed == TotalLayers < Scale => (Spec => []PlanInvariant)
<1> SUFFICES ASSUME TotalLayers < Scale PROVE Spec => []PlanInvariant
  OBVIOUS
<1>1. PlanCore => PlanInvariant
  BY AcceptedIsAPartition, SplitIsOrdered DEF PlanCore, PlanInvariant
<1> QED BY <1>1, PlanCoreHolds, PTL

\* The part of it that holds for any number of layers.
THEOREM EveryLayerOnce == Spec => [](TypeOK /\ PlanIsAPartition)
<1>1. PlanCore => TypeOK /\ PlanIsAPartition
  BY AcceptedIsAPartition DEF PlanCore
<1> QED BY <1>1, PlanCoreHolds, PTL

\* A node that an accepted plan puts layers on has the memory for them and for
\* its compute buffers (usable_mem_mb, fits).
THEOREM AcceptedPlansFit == Spec => []PlanFits
  BY AcceptedFits, PlanCoreHolds, PTL

\* The hard stop of _repair is never what ends a repair that could go on.
THEOREM HardStopIsFarEnough == Spec => []RepairGoesAllTheWay
<1>1. PlanCore => RepairGoesAllTheWay
  BY DEF PlanCore
<1> QED BY <1>1, PlanCoreHolds, PTL

\* Repair pushes no node over its budget and gives none over it more
\* (_find_slack_donor's whole layer of slack).
THEOREM RepairIsSafe == Spec => RepairNeverOverloads
<1>1. ASSUME PlanCore, Next, phase = "repair", NEW n \in usable, Overflows(n)'
      PROVE  Overflows(n) /\ count'[n] <= count[n]
  <2>1. TypeOK /\ usable \subseteq Nodes /\ count[n] \in Nat
    <3>1. TypeOK /\ usable \subseteq Nodes /\ TotalLayers \in Nat
      BY <1>1, PlanAssumption DEF PlanCore, TypeOK
    <3>2. count[n] \in 0..TotalLayers
      BY <3>1 DEF TypeOK
    <3> QED BY <3>1, <3>2
  <2>2. CASE RepairMove
    <3>1. PICK f \in usable, d \in usable :
             /\ f # d /\ f \in Overflowing /\ count[f] > 1 /\ HasSlack(d)
             /\ count'[f] = count[f] - 1 /\ count'[d] = count[d] + 1
             /\ \A m \in Nodes \ {f, d} : count'[m] = count[m]
      BY <1>1, <2>2, RepairMoves
    <3>2. /\ d \notin Overflowing' /\ \A m \in Nodes \ {f} : m # d => (m \in Overflowing <=> m \in Overflowing')
      BY <1>1, <2>2, <3>1, RepairHelps
    <3>3. n \in Overflowing' /\ usable' = usable
      BY <1>1, <2>2 DEF RepairMove, inputs, Overflowing
    <3>4. CASE n = f
      BY <2>1, <3>1, <3>4 DEF Overflowing
    <3>5. CASE n # f
      <4>1. n # d /\ n \in Overflowing
        BY <2>1, <3>2, <3>3, <3>5
      <4> QED BY <2>1, <3>1, <3>5, <4>1 DEF Overflowing
    <3> QED BY <3>4, <3>5
  <2>3. CASE ~RepairMove
    <3>1. UNCHANGED <<reading, count>>
      BY <1>1, <2>3 DEF Next, Start, AssignNext, RepairSpin, RepairEnd, Conclude, inputs
    <3>2. count'[n] = count[n] /\ Overflows(n)
      BY <1>1, <3>1 DEF Overflows, UsableMem
    <3> QED BY <2>1, <3>2
  <2> QED BY <2>2, <2>3
<1>2. PlanCore /\ [Next]_vars =>
        [phase = "repair" => \A n \in usable : Overflows(n)' => Overflows(n) /\ count'[n] <= count[n]]_vars
  BY <1>1
<1> QED BY <1>2, PlanCoreHolds, PTL DEF Spec, RepairNeverOverloads

===============================================================================
