---------------------------- MODULE InductionFacts ----------------------------
(***************************************************************************)
(* Induction over numbers and finite sets, stated with a set in the place  *)
(* of a property, and what follows from it: smallest and largest numbers,  *)
(* sorting a finite set, and sums (SumFunctionOnSet).                      *)
(***************************************************************************)
EXTENDS Integers, FiniteSets, Functions, FiniteSetTheorems, WellFoundedInduction, TLAPS

Before == {pair \in Nat \X Nat : pair[1] < pair[2]}

\* A set of numbers has a smallest, and a bounded one a largest.
LEMMA SmallestExists ==
    ASSUME NEW S \in SUBSET Nat, S # {}
    PROVE  \E i \in S : \A h \in S : i <= h
<1>1. OpToRel(<, Nat) = Before
  BY Zenon DEF OpToRel, Before
<1>2. IsWellFoundedOn(Before, Nat)
  BY <1>1, NatLessThanWellFounded, Zenon
<1>3. PICK i \in S : \A h \in S : <<h, i>> \notin Before
  BY <1>2, WFMin
<1>4. ASSUME NEW h \in S PROVE i <= h
  <2>1. h \in Nat /\ i \in Nat /\ <<h, i>> \notin Before
    BY <1>3
  <2>2. h < i => <<h, i>> \in Before
    BY <2>1 DEF Before
  <2> QED BY <2>1, <2>2
<1> QED BY <1>4

LEMMA LargestExists ==
    ASSUME NEW k \in Nat, NEW S \in SUBSET (1..k), S # {}
    PROVE  \E i \in S : \A h \in S : h <= i
<1> DEFINE Gaps == {g \in Nat : k - g \in S}
<1>1. Gaps \in SUBSET Nat /\ Gaps # {}
  <2>1. PICK i \in S : TRUE
    OBVIOUS
  <2>2. k - i \in Gaps
    BY <2>1
  <2> QED BY <2>2
<1>2. PICK g \in Gaps : \A f \in Gaps : g <= f
  BY <1>1, SmallestExists
<1>3. ASSUME NEW h \in S PROVE h <= k - g
  <2>1. k - h \in Gaps
    OBVIOUS
  <2>2. g <= k - h
    BY <2>1, <1>2
  <2> QED BY <2>2
<1> QED BY <1>3

\* A set that has 0, and with a number the next one, has all.
LEMMA OverNumbers ==
    ASSUME NEW Good, 0 \in Good, \A n \in Nat : n \in Good => n + 1 \in Good
    PROVE  Nat \subseteq Good
<1> SUFFICES ASSUME Nat \ Good # {} PROVE FALSE
  OBVIOUS
<1>1. PICK i \in Nat \ Good : \A h \in Nat \ Good : i <= h
  BY SmallestExists
<1>2. i # 0 /\ i - 1 \in Nat /\ i - 1 \notin Nat \ Good
  BY <1>1
<1>3. (i - 1) + 1 \in Good
  BY <1>2
<1> QED BY <1>1, <1>3

\* The same for the subsets of a finite set.
LEMMA OverSubsets ==
    ASSUME NEW S, IsFiniteSet(S), NEW Good, {} \in Good,
           \A T \in SUBSET S : \A x \in S \ T : T \in Good => T \cup {x} \in Good
    PROVE  \A T \in SUBSET S : T \in Good
<1> DEFINE Sizes == {n \in Nat : \A T \in SUBSET S : Cardinality(T) = n => T \in Good}
<1>1. \A T \in SUBSET S : IsFiniteSet(T) /\ Cardinality(T) \in Nat
  BY FS_Subset, FS_CardinalityType
<1>2. 0 \in Sizes
  BY <1>1, FS_EmptySet
<1>3. ASSUME NEW n \in Nat, n \in Sizes PROVE n + 1 \in Sizes
  <2> SUFFICES ASSUME NEW T \in SUBSET S, Cardinality(T) = n + 1 PROVE T \in Good
    OBVIOUS
  <2>1. PICK x : x \in T
    BY <1>1, FS_EmptySet
  <2>2. Cardinality(T \ {x}) = n
    <3>1. IsFiniteSet(T)
      BY <1>1
    <3>2. Cardinality(T \ {x}) = Cardinality(T) - 1
      BY <3>1, <2>1, FS_RemoveElement
    <3> QED BY <3>2
  <2>3. T \ {x} \in Good /\ T \ {x} \in SUBSET S /\ x \in S \ (T \ {x})
    BY <1>3, <2>1, <2>2
  <2>4. (T \ {x}) \cup {x} = T
    BY <2>1
  <2> QED BY <2>3, <2>4
<1> HIDE DEF Sizes
<1>4. Nat \subseteq Sizes
  BY <1>2, <1>3, OverNumbers
<1>5. ASSUME NEW T \in SUBSET S PROVE T \in Good
  <2>1. Cardinality(T) \in Sizes
    BY <1>1, <1>4
  <2> QED BY <2>1 DEF Sizes
<1> QED BY <1>5

LEMMA FiniteHasLargest ==
    ASSUME NEW S \in SUBSET Nat, IsFiniteSet(S), S # {}
    PROVE  \E i \in S : \A h \in S : h <= i
<1> DEFINE Good == {T \in SUBSET S : T = {} \/ \E i \in T : \A h \in T : h <= i}
<1>1. {} \in Good
  OBVIOUS
<1>2. ASSUME NEW T \in SUBSET S, NEW x \in S \ T, T \in Good PROVE T \cup {x} \in Good
  <2>1. CASE T = {}
    <3>1. \A h \in T \cup {x} : h <= x
      BY <2>1
    <3> QED BY <3>1
  <2>2. CASE T # {}
    <3>1. PICK i \in T : \A h \in T : h <= i
      BY <1>2, <2>2
    <3>2. CASE x <= i
      BY <3>1, <3>2
    <3>3. CASE ~(x <= i)
      <4>1. ASSUME NEW h \in T \cup {x} PROVE h <= x
        <5>1. CASE h = x
          BY <5>1
        <5>2. CASE h \in T
          BY <3>1, <3>3, <5>2
        <5> QED BY <5>1, <5>2
      <4> QED BY <4>1
    <3> QED BY <3>2, <3>3
  <2> QED BY <2>1, <2>2
<1> HIDE DEF Good
<1>3. S \in Good
  BY <1>1, <1>2, OverSubsets
<1> QED BY <1>3 DEF Good

\* A finite set of numbers can be listed in ascending order.
Ascends(s, S) ==
    /\ s \in [1..Cardinality(S) -> S]
    /\ \A i, j \in 1..Cardinality(S) : i < j => s[i] < s[j]

LEMMA SortedExists ==
    ASSUME NEW S \in SUBSET Nat, IsFiniteSet(S)
    PROVE  \E s : Ascends(s, S)
<1> DEFINE Good == {n \in Nat : \A T \in SUBSET S : Cardinality(T) = n => \E s : Ascends(s, T)}
<1>1. \A T \in SUBSET S : IsFiniteSet(T) /\ Cardinality(T) \in Nat
  BY FS_Subset, FS_CardinalityType
<1>2. 0 \in Good
  <2> SUFFICES ASSUME NEW T \in SUBSET S, Cardinality(T) = 0 PROVE \E s : Ascends(s, T)
    OBVIOUS
  <2>1. Ascends([i \in 1..0 |-> 0], T)
    BY DEF Ascends
  <2> QED BY <2>1
<1>3. ASSUME NEW n \in Nat, n \in Good PROVE n + 1 \in Good
  <2> SUFFICES ASSUME NEW T \in SUBSET S, Cardinality(T) = n + 1 PROVE \E s : Ascends(s, T)
    OBVIOUS
  <2>1. T # {}
    BY FS_EmptySet
  <2>2. PICK x \in T : \A y \in T : x <= y
    BY <2>1, SmallestExists
  <2>3. Cardinality(T \ {x}) = n
    <3>1. IsFiniteSet(T)
      BY <1>1
    <3>2. Cardinality(T \ {x}) = Cardinality(T) - 1
      BY <3>1, <2>2, FS_RemoveElement
    <3> QED BY <3>2
  <2>4. PICK r : Ascends(r, T \ {x})
    BY <1>3, <2>3
  <2> DEFINE s == [i \in 1..(n + 1) |-> IF i = 1 THEN x ELSE r[i - 1]]
  <2>5. r \in [1..n -> T \ {x}] /\ \A i, j \in 1..n : i < j => r[i] < r[j]
    BY <2>3, <2>4 DEF Ascends
  <2>6. ASSUME NEW i \in 1..n PROVE r[i] \in T /\ x < r[i]
    <3>1. r[i] \in T /\ r[i] # x
      BY <2>5
    <3>2. r[i] \in Nat /\ x \in Nat /\ x <= r[i]
      BY <2>2, <3>1
    <3> QED BY <3>1, <3>2
  <2>7. s \in [1..(n + 1) -> T]
    BY <2>2, <2>6
  <2>8. ASSUME NEW i \in 1..(n + 1), NEW j \in 1..(n + 1), i < j PROVE s[i] < s[j]
    <3>1. j - 1 \in 1..n /\ s[j] = r[j - 1]
      BY <2>8
    <3>2. CASE i = 1
      BY <2>6, <3>1, <3>2
    <3>3. CASE i # 1
      <4>1. i - 1 \in 1..n /\ s[i] = r[i - 1] /\ i - 1 < j - 1
        BY <2>8, <3>3
      <4> QED BY <2>5, <3>1, <4>1
    <3> QED BY <3>2, <3>3
  <2>9. Ascends(s, T)
    BY <2>7, <2>8 DEF Ascends
  <2> QED BY <2>9
<1> HIDE DEF Good
<1>4. Cardinality(S) \in Good
  BY <1>1, <1>2, <1>3, OverNumbers
<1> QED BY <1>4 DEF Good

-----------------------------------------------------------------------------
(* Sums.  SumFunctionOnSet(f, S) takes the elements out of S one after the *)
(* other; what it computes does not depend on their order.                 *)

OneOf(s) == CHOOSE x \in s : TRUE
WithoutOne(s) == s \ {OneOf(s)}
\* The value at s of a function whose values at smaller sets are it's.
SumBy(it, f, s) == IF s = {} THEN 0 ELSE f[OneOf(s)] + it[WithoutOne(s)]
Sums(it, f, S) == it = [s \in SUBSET S |-> SumBy(it, f, s)]

LEMMA SumIsIterated ==
    ASSUME NEW f, NEW S PROVE SumFunctionOnSet(f, S) = (CHOOSE it : Sums(it, f, S))[S]
  BY DEF SumFunctionOnSet, FoldFunctionOnSet, MapThenFoldSet, Sums, SumBy, OneOf, WithoutOne

LEMMA RestIsSmaller ==
    ASSUME NEW S, IsFiniteSet(S), S # {}
    PROVE  /\ OneOf(S) \in S /\ IsFiniteSet(WithoutOne(S)) /\ WithoutOne(S) \subseteq S
           /\ Cardinality(S) \in Nat /\ Cardinality(WithoutOne(S)) = Cardinality(S) - 1
<1>1. OneOf(S) \in S
  BY DEF OneOf
<1>2. IsFiniteSet(WithoutOne(S)) /\ Cardinality(WithoutOne(S)) = Cardinality(S) - 1
  BY <1>1, FS_RemoveElement DEF WithoutOne
<1>3. Cardinality(S) \in Nat
  BY FS_CardinalityType
<1> QED BY <1>1, <1>2, <1>3 DEF WithoutOne

LEMMA SumsExist ==
    ASSUME NEW f, NEW S, IsFiniteSet(S) PROVE \E it : Sums(it, f, S)
<1> DEFINE Good == {n \in Nat : \E it : \A s \in SUBSET S :
                                   Cardinality(s) <= n => it[s] = SumBy(it, f, s)}
<1>1. \A s \in SUBSET S : IsFiniteSet(s) /\ Cardinality(s) \in Nat /\ Cardinality(s) <= Cardinality(S)
  BY FS_Subset, FS_CardinalityType
<1>2. 0 \in Good
  <2> DEFINE it == [s \in SUBSET S |-> 0]
  <2>1. ASSUME NEW s \in SUBSET S, Cardinality(s) <= 0 PROVE it[s] = SumBy(it, f, s)
    <3>1. s = {}
      BY <1>1, <2>1, FS_EmptySet
    <3> QED BY <3>1 DEF SumBy
  <2> HIDE DEF it
  <2> QED BY <2>1
<1>3. ASSUME NEW n \in Nat, n \in Good PROVE n + 1 \in Good
  <2>1. PICK g : \A s \in SUBSET S : Cardinality(s) <= n => g[s] = SumBy(g, f, s)
    BY <1>3
  <2> DEFINE it == [s \in SUBSET S |-> SumBy(g, f, s)]
  <2>2. ASSUME NEW s \in SUBSET S, Cardinality(s) <= n + 1 PROVE it[s] = SumBy(it, f, s)
    <3>1. it[s] = SumBy(g, f, s)
      OBVIOUS
    <3>2. CASE s = {}
      BY <3>1, <3>2 DEF SumBy
    <3>3. CASE s # {}
      <4>1. IsFiniteSet(s)
        BY <1>1
      <4>2. WithoutOne(s) \in SUBSET S /\ Cardinality(WithoutOne(s)) <= n
        BY <2>2, <3>3, <4>1, RestIsSmaller
      <4>3. g[WithoutOne(s)] = it[WithoutOne(s)]
        BY <2>1, <4>2
      <4> HIDE DEF it
      <4> QED BY <3>1, <3>3, <4>3 DEF SumBy
    <3> QED BY <3>2, <3>3
  <2> HIDE DEF it
  <2> QED BY <2>2
<1> HIDE DEF Good
<1>4. Cardinality(S) \in Good
  BY <1>1, <1>2, <1>3, OverNumbers
<1>5. PICK g : \A s \in SUBSET S : Cardinality(s) <= Cardinality(S) => g[s] = SumBy(g, f, s)
  BY <1>4 DEF Good
<1> DEFINE it == [s \in SUBSET S |-> g[s]]
<1>6. ASSUME NEW s \in SUBSET S PROVE it[s] = SumBy(it, f, s)
  <2>1. it[s] = g[s] /\ g[s] = SumBy(g, f, s)
    BY <1>1, <1>5
  <2>2. WithoutOne(s) \in SUBSET S
    BY DEF WithoutOne
  <2>3. it[WithoutOne(s)] = g[WithoutOne(s)]
    BY <2>2
  <2> HIDE DEF it
  <2> QED BY <2>1, <2>3 DEF SumBy
<1>7. Sums(it, f, S)
  <2>1. it = [s \in SUBSET S |-> it[s]]
    OBVIOUS
  <2> HIDE DEF it
  <2> QED BY <1>6, <2>1 DEF Sums
<1> QED BY <1>7

\* What is summed over a set is the same within a larger one.
LEMMA SumsAgree ==
    ASSUME NEW f, NEW S, IsFiniteSet(S), NEW T \in SUBSET S, NEW it, Sums(it, f, S),
           NEW jt, Sums(jt, f, T)
    PROVE  \A s \in SUBSET T : it[s] = jt[s]
<1> DEFINE Good == {n \in Nat : \A s \in SUBSET T : Cardinality(s) = n => it[s] = jt[s]}
<1>1. \A s \in SUBSET T : IsFiniteSet(s) /\ Cardinality(s) \in Nat
  BY FS_Subset, FS_CardinalityType
<1>2. \A s \in SUBSET T : it[s] = SumBy(it, f, s) /\ jt[s] = SumBy(jt, f, s)
  BY DEF Sums
<1>3. 0 \in Good
  BY <1>1, <1>2, FS_EmptySet DEF SumBy
<1>4. ASSUME NEW n \in Nat, n \in Good PROVE n + 1 \in Good
  <2> SUFFICES ASSUME NEW s \in SUBSET T, Cardinality(s) = n + 1 PROVE it[s] = jt[s]
    OBVIOUS
  <2>1. s # {} /\ IsFiniteSet(s)
    BY <1>1, FS_EmptySet
  <2>2. WithoutOne(s) \in SUBSET T /\ Cardinality(WithoutOne(s)) = n
    BY <2>1, RestIsSmaller
  <2>3. it[WithoutOne(s)] = jt[WithoutOne(s)]
    BY <1>4, <2>2
  <2> QED BY <1>2, <2>1, <2>3 DEF SumBy
<1> HIDE DEF Good
<1>5. Nat \subseteq Good
  BY <1>3, <1>4, OverNumbers
<1> QED BY <1>1, <1>5 DEF Good

LEMMA SumTakesFirst ==
    ASSUME NEW f, NEW S, IsFiniteSet(S)
    PROVE  SumFunctionOnSet(f, S) = IF S = {} THEN 0
                                    ELSE f[OneOf(S)] + SumFunctionOnSet(f, WithoutOne(S))
<1> DEFINE it == CHOOSE h : Sums(h, f, S)
           jt == CHOOSE h : Sums(h, f, WithoutOne(S))
<1>1. WithoutOne(S) \in SUBSET S /\ IsFiniteSet(WithoutOne(S))
  BY FS_Subset DEF WithoutOne
<1>2. Sums(it, f, S) /\ Sums(jt, f, WithoutOne(S))
  BY <1>1, SumsExist
<1>3. SumFunctionOnSet(f, S) = it[S] /\ SumFunctionOnSet(f, WithoutOne(S)) = jt[WithoutOne(S)]
  BY SumIsIterated
<1> HIDE DEF it, jt
<1>4. it[WithoutOne(S)] = jt[WithoutOne(S)]
  BY <1>1, <1>2, SumsAgree
<1>5. it[S] = SumBy(it, f, S)
  BY <1>2 DEF Sums
<1> QED BY <1>3, <1>4, <1>5 DEF SumBy


LEMMA SumOfNothing == ASSUME NEW f PROVE SumFunctionOnSet(f, {}) = 0
  BY SumTakesFirst, FS_EmptySet

LEMMA SumIsInteger ==
    ASSUME NEW f, NEW S, IsFiniteSet(S), \A x \in S : f[x] \in Int
    PROVE  \A T \in SUBSET S : SumFunctionOnSet(f, T) \in Int
<1> DEFINE Good == {n \in Nat : \A T \in SUBSET S :
                                   Cardinality(T) = n => SumFunctionOnSet(f, T) \in Int}
<1>1. \A T \in SUBSET S : IsFiniteSet(T) /\ Cardinality(T) \in Nat
  BY FS_Subset, FS_CardinalityType
<1>2. 0 \in Good
  BY <1>1, SumOfNothing, FS_EmptySet
<1>3. ASSUME NEW n \in Nat, n \in Good PROVE n + 1 \in Good
  <2> SUFFICES ASSUME NEW T \in SUBSET S, Cardinality(T) = n + 1
               PROVE  SumFunctionOnSet(f, T) \in Int
    OBVIOUS
  <2>1. T # {} /\ IsFiniteSet(T)
    BY <1>1, FS_EmptySet
  <2>2. OneOf(T) \in S /\ WithoutOne(T) \in SUBSET S /\ Cardinality(WithoutOne(T)) = n
    BY <2>1, RestIsSmaller
  <2>3. SumFunctionOnSet(f, WithoutOne(T)) \in Int /\ f[OneOf(T)] \in Int
    BY <1>3, <2>2
  <2> QED BY <2>1, <2>3, SumTakesFirst
<1> HIDE DEF Good
<1>4. Nat \subseteq Good
  BY <1>2, <1>3, OverNumbers
<1> QED BY <1>1, <1>4 DEF Good

\* Any element may be taken out first.
LEMMA SumTakesAny ==
    ASSUME NEW f, NEW S, IsFiniteSet(S), \A x \in S : f[x] \in Int
    PROVE  \A T \in SUBSET S : \A x \in T :
               SumFunctionOnSet(f, T) = f[x] + SumFunctionOnSet(f, T \ {x})
<1> DEFINE Good == {n \in Nat : \A T \in SUBSET S : Cardinality(T) = n =>
                        \A x \in T : SumFunctionOnSet(f, T) = f[x] + SumFunctionOnSet(f, T \ {x})}
<1>1. \A T \in SUBSET S : IsFiniteSet(T) /\ Cardinality(T) \in Nat
  BY FS_Subset, FS_CardinalityType
<1>2. 0 \in Good
  BY <1>1, FS_EmptySet
<1>3. ASSUME NEW n \in Nat, n \in Good PROVE n + 1 \in Good
  <2> SUFFICES ASSUME NEW T \in SUBSET S, Cardinality(T) = n + 1, NEW x \in T
               PROVE  SumFunctionOnSet(f, T) = f[x] + SumFunctionOnSet(f, T \ {x})
    OBVIOUS
  <2>1. IsFiniteSet(T) /\ T # {}
    BY <1>1
  <2>2. PICK c \in T : c = OneOf(T) /\ WithoutOne(T) = T \ {c}
    BY <2>1, RestIsSmaller DEF WithoutOne
  <2>3. SumFunctionOnSet(f, T) = f[c] + SumFunctionOnSet(f, T \ {c})
    BY <2>1, <2>2, SumTakesFirst
  <2>4. CASE x = c
    BY <2>3, <2>4
  <2>5. CASE x # c
    <3>1. /\ Cardinality(T \ {c}) = n /\ x \in T \ {c} /\ T \ {c} \in SUBSET S
          /\ Cardinality(T \ {x}) = n /\ c \in T \ {x} /\ T \ {x} \in SUBSET S
      <4>1. Cardinality(T \ {c}) = Cardinality(T) - 1 /\ Cardinality(T \ {x}) = Cardinality(T) - 1
        BY <2>1, FS_RemoveElement
      <4> QED BY <2>5, <4>1
    <3>2. SumFunctionOnSet(f, T \ {c}) = f[x] + SumFunctionOnSet(f, (T \ {c}) \ {x})
      BY <1>3, <3>1
    <3>3. SumFunctionOnSet(f, T \ {x}) = f[c] + SumFunctionOnSet(f, (T \ {x}) \ {c})
      BY <1>3, <3>1
    <3>4. PICK r : r = SumFunctionOnSet(f, (T \ {c}) \ {x})
      OBVIOUS
    <3>5. r \in Int /\ f[x] \in Int /\ f[c] \in Int
      BY <3>4, SumIsInteger
    <3>6. (T \ {x}) \ {c} = (T \ {c}) \ {x}
      OBVIOUS
    <3>7. SumFunctionOnSet(f, T \ {x}) = f[c] + r
      BY <3>3, <3>4, <3>6
    <3>8. SumFunctionOnSet(f, T) = f[c] + (f[x] + r)
      BY <2>3, <3>2, <3>4
    <3> QED BY <3>5, <3>7, <3>8
  <2> QED BY <2>4, <2>5
<1> HIDE DEF Good
<1>4. Nat \subseteq Good
  BY <1>2, <1>3, OverNumbers
<1> QED BY <1>1, <1>4 DEF Good

LEMMA SumAdds ==
    ASSUME NEW f, NEW S, IsFiniteSet(S), NEW x, x \notin S, f[x] \in Int, \A y \in S : f[y] \in Int
    PROVE  /\ SumFunctionOnSet(f, S \cup {x}) = f[x] + SumFunctionOnSet(f, S)
           /\ SumFunctionOnSet(f, S) \in Int
<1>1. IsFiniteSet(S \cup {x}) /\ \A y \in S \cup {x} : f[y] \in Int
  BY FS_AddElement
<1>2. S \cup {x} \in SUBSET (S \cup {x}) /\ (S \cup {x}) \ {x} = S
  OBVIOUS
<1>3. SumFunctionOnSet(f, S \cup {x}) = f[x] + SumFunctionOnSet(f, (S \cup {x}) \ {x})
  BY <1>1, <1>2, SumTakesAny
<1> QED BY <1>2, <1>3, SumIsInteger

\* A sum over other values is at least as large when the values are.
LEMMA SumCompares ==
    ASSUME NEW f, NEW g, NEW S, IsFiniteSet(S),
           \A x \in S : f[x] \in Int /\ g[x] \in Int /\ f[x] <= g[x]
    PROVE  /\ SumFunctionOnSet(f, S) \in Int /\ SumFunctionOnSet(g, S) \in Int
           /\ SumFunctionOnSet(f, S) <= SumFunctionOnSet(g, S)
<1> DEFINE Good == {T \in SUBSET S : SumFunctionOnSet(f, T) <= SumFunctionOnSet(g, T)}
<1>1. {} \in Good
  BY SumOfNothing
<1>2. ASSUME NEW T \in SUBSET S, NEW x \in S \ T, T \in Good PROVE T \cup {x} \in Good
  <2>1. IsFiniteSet(T)
    BY FS_Subset
  <2>2. /\ SumFunctionOnSet(f, T \cup {x}) = f[x] + SumFunctionOnSet(f, T)
        /\ SumFunctionOnSet(g, T \cup {x}) = g[x] + SumFunctionOnSet(g, T)
        /\ SumFunctionOnSet(f, T) \in Int /\ SumFunctionOnSet(g, T) \in Int
    BY <2>1, SumAdds
  <2>3. f[x] \in Int /\ g[x] \in Int /\ f[x] <= g[x] /\ SumFunctionOnSet(f, T) <= SumFunctionOnSet(g, T)
    BY <1>2
  <2>4. SumFunctionOnSet(f, T \cup {x}) <= SumFunctionOnSet(g, T \cup {x})
    BY <2>2, <2>3
  <2> QED BY <2>4
<1> HIDE DEF Good
<1>3. S \in Good
  BY <1>1, <1>2, OverSubsets
<1> QED BY <1>3, SumIsInteger DEF Good

LEMMA SumSame ==
    ASSUME NEW f, NEW g, NEW S, IsFiniteSet(S), \A x \in S : f[x] \in Int /\ g[x] = f[x]
    PROVE  SumFunctionOnSet(g, S) = SumFunctionOnSet(f, S)
<1>1. /\ SumFunctionOnSet(f, S) \in Int /\ SumFunctionOnSet(g, S) \in Int
      /\ SumFunctionOnSet(f, S) <= SumFunctionOnSet(g, S)
  BY SumCompares
<1>2. SumFunctionOnSet(g, S) <= SumFunctionOnSet(f, S)
  BY SumCompares
<1> QED BY <1>1, <1>2

\* A sum of numbers that are not negative is at least that over a part.
LEMMA SumIsNatural ==
    ASSUME NEW f, NEW S, IsFiniteSet(S), \A x \in S : f[x] \in Nat
    PROVE  /\ SumFunctionOnSet(f, S) \in Nat
           /\ \A T \in SUBSET S : SumFunctionOnSet(f, T) <= SumFunctionOnSet(f, S)
           /\ \A x \in S : f[x] <= SumFunctionOnSet(f, S)
<1> DEFINE Good == {T \in SUBSET S :
               /\ SumFunctionOnSet(f, T) \in Nat
               /\ \A U \in SUBSET T : SumFunctionOnSet(f, U) <= SumFunctionOnSet(f, T)}
<1>1. {} \in Good
  <2>1. \A U \in SUBSET {} : U = {}
    OBVIOUS
  <2> QED BY <2>1, SumOfNothing
<1>2. ASSUME NEW T \in SUBSET S, NEW x \in S \ T, T \in Good PROVE T \cup {x} \in Good
  <2>1. IsFiniteSet(T)
    BY FS_Subset
  <2>2. /\ SumFunctionOnSet(f, T \cup {x}) = f[x] + SumFunctionOnSet(f, T)
        /\ SumFunctionOnSet(f, T) \in Nat /\ f[x] \in Nat
    BY <1>2, <2>1, SumAdds
  <2>3. ASSUME NEW U \in SUBSET (T \cup {x})
        PROVE  SumFunctionOnSet(f, U) <= SumFunctionOnSet(f, T \cup {x})
    <3>1. CASE x \notin U
      <4>1. U \in SUBSET T
        BY <3>1
      <4>2. SumFunctionOnSet(f, U) <= SumFunctionOnSet(f, T) /\ SumFunctionOnSet(f, U) \in Int
        BY <1>2, <4>1, SumIsInteger
      <4> QED BY <2>2, <4>2
    <3>2. CASE x \in U
      <4>1. U \ {x} \in SUBSET T /\ U \in SUBSET S
        BY <1>2
      <4>2. SumFunctionOnSet(f, U \ {x}) <= SumFunctionOnSet(f, T) /\ SumFunctionOnSet(f, U \ {x}) \in Int
        BY <1>2, <4>1, SumIsInteger
      <4>3. SumFunctionOnSet(f, U) = f[x] + SumFunctionOnSet(f, U \ {x})
        BY <3>2, <4>1, SumTakesAny
      <4> QED BY <2>2, <4>2, <4>3
    <3> QED BY <3>1, <3>2
  <2> QED BY <2>2, <2>3
<1> HIDE DEF Good
<1>3. S \in Good
  BY <1>1, <1>2, OverSubsets
<1>4. ASSUME NEW x \in S PROVE f[x] <= SumFunctionOnSet(f, S)
  <2>1. {x} \in SUBSET S /\ {} \cup {x} = {x} /\ IsFiniteSet({}) /\ x \notin {} /\ f[x] \in Int
    BY FS_EmptySet
  <2>2. SumFunctionOnSet(f, {x}) = f[x] + SumFunctionOnSet(f, {})
    BY <2>1, SumAdds
  <2>3. SumFunctionOnSet(f, {x}) <= SumFunctionOnSet(f, S)
    BY <1>3, <2>1 DEF Good
  <2> QED BY <2>1, <2>2, <2>3, SumOfNothing
<1> QED BY <1>3, <1>4 DEF Good

LEMMA SumOneChanged ==
    ASSUME NEW f, NEW g, NEW S, IsFiniteSet(S), NEW n \in S, g[n] \in Int,
           \A x \in S : f[x] \in Int, \A x \in S \ {n} : g[x] = f[x]
    PROVE  /\ SumFunctionOnSet(g, S) = SumFunctionOnSet(f, S) - f[n] + g[n]
           /\ SumFunctionOnSet(f, S) \in Int
<1>1. IsFiniteSet(S \ {n}) /\ S \in SUBSET S /\ S \ {n} \in SUBSET S
  BY FS_RemoveElement
<1>2. \A x \in S : g[x] \in Int
  OBVIOUS
<1>3. /\ SumFunctionOnSet(f, S) = f[n] + SumFunctionOnSet(f, S \ {n})
      /\ SumFunctionOnSet(g, S) = g[n] + SumFunctionOnSet(g, S \ {n})
  BY <1>1, <1>2, SumTakesAny
<1>4. SumFunctionOnSet(g, S \ {n}) = SumFunctionOnSet(f, S \ {n})
  BY <1>1, SumSame
<1>5. SumFunctionOnSet(f, S \ {n}) \in Int
  BY <1>1, SumIsInteger
<1> QED BY <1>3, <1>4, <1>5

===============================================================================
