---------------------------- MODULE MetricsProofs ----------------------------
(***************************************************************************)
(* For any number of requests, keys and bounds, and any latencies: no      *)
(* observation is lost or counted twice, and every exposition is a         *)
(* histogram that never falls behind the one before.                       *)
(***************************************************************************)
EXTENDS Metrics, FiniteSetTheorems, SequenceTheorems, WellFoundedInduction, TLAPS

(* Past the registration, and past the bucket.                             *)
Settled == {"bucket", "load", "swap", "count", "observed"}
Bucketed == {"load", "swap", "count", "observed"}

(* A series is registered under the key of the request that created it; a  *)
(* request past its lookup works on the series of its key; nothing is in a *)
(* series that is not registered.                                          *)
Registered ==
    /\ \A k \in seriesKey : registry[k] # "none" =>
          key[registry[k]] = k /\ pc[registry[k]] \in Settled
    /\ \A r \in Requests : pc[r] \in Settled =>
          registry[key[r]] # "none" /\ mine[r] = registry[key[r]]
    /\ \A s \in Requests : registry[key[s]] # s => series[s] = Zero

InSlot(k, i) == {r \in Past(k, Bucketed) : bucketIndex(seconds[r]) = i}

(* The numbers of a series, slot by slot.                                  *)
Exact(k) ==
    /\ SeriesOf(k).count = Cardinality(Past(k, {"observed"}))
    /\ SeriesOf(k).sum = Sum(seconds, Past(k, {"count", "observed"}))
    /\ \A i \in Slots : SeriesOf(k).buckets[i] = Cardinality(InSlot(k, i))

(* Every number of exp was loaded from a series that has since come to s.  *)
Behind(exp, s) ==
    /\ exp.sum <= s.sum /\ exp.count <= s.count
    /\ \A i \in Slots : exp.buckets[i] <= Below(exp, i) + s.buckets[i]

(* The first n loads of snap are no less than those of the exposition      *)
(* before it, the buckets rise, and what the count was loaded with is in   *)
(* the buckets loaded since or still to be loaded.                         *)
Snapped(n, snap, exp, s) ==
    /\ n >= 1 => exp.sum <= snap.sum /\ snap.sum <= s.sum
    /\ n >= 2 => /\ exp.count <= snap.count /\ snap.count <= s.count
                 /\ snap.count <= Below(snap, n - 1) + Sum(s.buckets, (n - 1)..Inf)
    /\ \A i \in Slots : i + 2 <= n =>
          /\ exp.buckets[i] <= snap.buckets[i] /\ Below(snap, i) <= snap.buckets[i]
          /\ snap.buckets[i] <= Below(snap, i) + s.buckets[i]

(* How many loads of the series of k the scrape under way has behind it; a *)
(* series that it did not find needs none.                                 *)
Done(k) ==
    IF ~scraping THEN 0
    ELSE IF registry[k] \notin live THEN Inf + 2
    ELSE IF registry[k] = reading THEN at - 1
    ELSE 0

Walked ==
    /\ \A s \in live : registry[key[s]] = s
    /\ ~scraping => live = {}
    /\ IF reading = "none" THEN at = 1 ELSE reading \in live
    /\ scraping => scrapes < MaxScrapes

Scraped(k) ==
    /\ registry[k] = "none" => exposed[k] = Zero /\ snaps[k] = Zero
    /\ IsHistogram(exposed[k]) /\ Behind(exposed[k], SeriesOf(k))
    /\ Snapped(Done(k), snaps[k], exposed[k], SeriesOf(k))

MInv ==
    /\ TypeOK /\ Registered /\ Walked
    /\ \A k \in seriesKey : Exact(k) /\ Scraped(k)

-----------------------------------------------------------------------------
LEMMA LeastIndex ==
    ASSUME NEW S, S \subseteq Nat, S # {}
    PROVE  \E x \in S : \A y \in S : x <= y
  <1>1. PICK x \in S : \A y \in S : ~(<<y, x>> \in OpToRel(<, Nat))
    BY NatLessThanWellFounded, WFMin
  <1>2. \A y \in S : ~(y < x)
    BY <1>1 DEF OpToRel
  <1> QED
    BY <1>2

(* A nonempty collection of finite sets has a member that leaves it        *)
(* whichever of its elements is taken out.                                 *)
LEMMA LeastSubset ==
    ASSUME NEW S, IsFiniteSet(S), NEW B, B \subseteq SUBSET S, B # {}
    PROVE  \E T \in B : \A x \in T : T \ {x} \notin B
  <1> DEFINE Sizes == {Cardinality(T) : T \in B}
  <1>1. \A T \in B : IsFiniteSet(T) /\ Cardinality(T) \in Nat
    BY FS_Subset, FS_CardinalityType
  <1>2. Sizes \subseteq Nat /\ Sizes # {}
    BY <1>1
  <1>3. PICK n \in Sizes : \A m \in Sizes : n <= m
    <2> HIDE DEF Sizes
    <2> QED BY <1>2, LeastIndex
  <1>4. PICK T \in B : n = Cardinality(T)
    OBVIOUS
  <1>5. ASSUME NEW x \in T, T \ {x} \in B PROVE FALSE
    <2>1. Cardinality(T \ {x}) = Cardinality(T) - 1
      BY <1>1, FS_RemoveElement
    <2>2. Cardinality(T) <= Cardinality(T \ {x})
      BY <1>3, <1>4, <1>5
    <2> QED
      BY <1>1, <2>1, <2>2
  <1> QED
    BY <1>5

-----------------------------------------------------------------------------
(* Sums over finite sets.  What the fold computes follows from an equation *)
(* that has a solution, whichever element it takes first.                  *)

One(s) == CHOOSE x \in s : TRUE
Step(f, g, s) == IF s = {} THEN 0 ELSE f[One(s)] + g[s \ {One(s)}]
SolvesTo(f, S, n, g) == \A s \in SUBSET S : Cardinality(s) <= n => g[s] = Step(f, g, s)

LEMMA OneFacts == ASSUME NEW s, s # {} PROVE One(s) \in s
  BY DEF One

LEMMA SolutionsExist ==
    ASSUME NEW S, IsFiniteSet(S), NEW f
    PROVE  \A n \in Nat : \E g : SolvesTo(f, S, n, g)
  <1>0. \A s \in SUBSET S : IsFiniteSet(s) /\ Cardinality(s) \in Nat
    BY FS_Subset, FS_CardinalityType
  <1> DEFINE Bad == {n \in Nat : ~\E g : SolvesTo(f, S, n, g)}
  <1>1. SUFFICES ASSUME Bad # {} PROVE FALSE
    OBVIOUS
  <1>2. PICK n \in Bad : \A m \in Bad : n <= m
    <2>1. Bad \subseteq Nat
      OBVIOUS
    <2> HIDE DEF Bad
    <2> QED
      BY <1>1, <2>1, LeastIndex
  <1>3. CASE n = 0
    <2>1. PICK g : g = [s \in SUBSET S |-> 0]
      OBVIOUS
    <2>2. SolvesTo(f, S, 0, g)
      <3>1. \A s \in SUBSET S : Cardinality(s) <= 0 => s = {}
        BY <1>0, FS_EmptySet
      <3> QED
        BY <2>1, <3>1 DEF SolvesTo, Step
    <2> QED
      BY <1>3, <2>2
  <1>4. CASE n # 0
    <2>1. PICK m \in Nat : n = m + 1
      <3>1. n - 1 \in Nat /\ n = (n - 1) + 1
        BY <1>4
      <3> QED
        BY <3>1
    <2>2. m \notin Bad
      BY <1>2, <2>1
    <2>3. PICK g : SolvesTo(f, S, m, g)
      BY <2>2
    <2>4. PICK h : h = [s \in SUBSET S |-> IF Cardinality(s) <= m THEN g[s] ELSE Step(f, g, s)]
      OBVIOUS
    <2>5. ASSUME NEW s \in SUBSET S, Cardinality(s) <= n PROVE h[s] = Step(f, h, s)
      <3>1. h[s] = Step(f, g, s)
        BY <2>3, <2>4 DEF SolvesTo
      <3>2. CASE s = {}
        BY <3>1, <3>2 DEF Step
      <3>3. CASE s # {}
        <4>1. PICK t : t = s \ {One(s)}
          OBVIOUS
        <4>2. t \in SUBSET S
          BY <4>1
        <4>3. Cardinality(t) = Cardinality(s) - 1
          BY <1>0, <3>3, <4>1, OneFacts, FS_RemoveElement
        <4>4. Cardinality(t) <= m
          BY <1>0, <2>1, <2>5, <4>2, <4>3
        <4>5. h[t] = g[t]
          BY <2>4, <4>2, <4>4
        <4> QED
          BY <3>1, <4>1, <4>5 DEF Step
      <3> QED BY <3>2, <3>3
    <2>6. SolvesTo(f, S, n, h)
      BY <2>5 DEF SolvesTo
    <2> QED
      BY <2>6
  <1> QED
    BY <1>3, <1>4

Solution(f, S, g) == g = [s \in SUBSET S |-> Step(f, g, s)]

LEMMA SolutionExists ==
    ASSUME NEW S, IsFiniteSet(S), NEW f
    PROVE  \E g : Solution(f, S, g)
  <1>1. Cardinality(S) \in Nat /\ \A s \in SUBSET S : Cardinality(s) <= Cardinality(S)
    BY FS_CardinalityType, FS_Subset
  <1>2. PICK g : SolvesTo(f, S, Cardinality(S), g)
    BY <1>1, SolutionsExist
  <1>3. \A s \in SUBSET S : g[s] = Step(f, g, s)
    BY <1>1, <1>2 DEF SolvesTo
  <1>4. PICK h : h = [s \in SUBSET S |-> g[s]]
    OBVIOUS
  <1>5. \A s \in SUBSET S : Step(f, h, s) = g[s]
    <2> SUFFICES ASSUME NEW s \in SUBSET S PROVE Step(f, h, s) = g[s]
      OBVIOUS
    <2>1. s \ {One(s)} \in SUBSET S
      OBVIOUS
    <2> QED
      BY <1>3, <1>4, <2>1 DEF Step
  <1>6. Solution(f, S, h)
    BY <1>4, <1>5 DEF Solution
  <1> QED
    BY <1>6

LEMMA SumIsSolved ==
    ASSUME NEW S, IsFiniteSet(S), NEW f
    PROVE  \E g : Solution(f, S, g) /\ Sum(f, S) = g[S]
  <1>1. PICK g : g = CHOOSE h : Solution(f, S, h)
    OBVIOUS
  <1>2. Solution(f, S, g)
    BY <1>1, SolutionExists
  <1>3. Sum(f, S) = g[S]
    BY <1>1 DEF Sum, MapThenSumSet, MapThenFoldSet, Solution, Step, One
  <1> QED
    BY <1>2, <1>3

LEMMA SolutionsAgree ==
    ASSUME NEW S, IsFiniteSet(S), NEW T \in SUBSET S, NEW f, NEW g, NEW h,
           Solution(f, S, g), Solution(f, T, h)
    PROVE  g[T] = h[T]
  <1> DEFINE Bad == {s \in SUBSET T : g[s] # h[s]}
  <1>1. SUFFICES ASSUME Bad # {} PROVE FALSE
    OBVIOUS
  <1>2. PICK s \in Bad : \A x \in s : s \ {x} \notin Bad
    <2>1. Bad \subseteq SUBSET S
      OBVIOUS
    <2> HIDE DEF Bad
    <2> QED
      BY <1>1, <2>1, LeastSubset
  <1>3. g[s] = Step(f, g, s) /\ h[s] = Step(f, h, s)
    BY DEF Solution
  <1>4. CASE s = {}
    BY <1>3, <1>4 DEF Step
  <1>5. CASE s # {}
    <2>1. g[s \ {One(s)}] = h[s \ {One(s)}]
      BY <1>2, <1>5, OneFacts
    <2> QED
      BY <1>3, <1>5, <2>1 DEF Step
  <1> QED BY <1>4, <1>5

LEMMA SumStep ==
    ASSUME NEW S, IsFiniteSet(S), NEW f
    PROVE  /\ S = {} => Sum(f, S) = 0
           /\ S # {} => Sum(f, S) = f[One(S)] + Sum(f, S \ {One(S)})
  <1>1. PICK g : Solution(f, S, g) /\ Sum(f, S) = g[S]
    BY SumIsSolved
  <1>2. g[S] = Step(f, g, S)
    BY <1>1 DEF Solution
  <1>3. PICK T : T = S \ {One(S)}
    OBVIOUS
  <1>4. T \in SUBSET S /\ IsFiniteSet(T)
    BY <1>3, FS_Subset
  <1>5. PICK h : Solution(f, T, h) /\ Sum(f, T) = h[T]
    BY <1>4, SumIsSolved
  <1>6. g[T] = h[T]
    BY <1>1, <1>4, <1>5, SolutionsAgree
  <1> QED
    BY <1>1, <1>2, <1>3, <1>5, <1>6 DEF Step

Counts(f, S) == \A x \in S : f[x] \in Nat

LEMMA SumType ==
    ASSUME NEW S, IsFiniteSet(S), NEW f, Counts(f, S)
    PROVE  Sum(f, S) \in Nat
  <1> DEFINE Bad == {T \in SUBSET S : Sum(f, T) \notin Nat}
  <1>1. SUFFICES ASSUME Bad # {} PROVE FALSE
    OBVIOUS
  <1>2. PICK T \in Bad : \A x \in T : T \ {x} \notin Bad
    <2>1. Bad \subseteq SUBSET S
      OBVIOUS
    <2> HIDE DEF Bad
    <2> QED
      BY <1>1, <2>1, LeastSubset
  <1>3. IsFiniteSet(T)
    BY FS_Subset
  <1>4. T # {}
    <2>1. T = {} => Sum(f, T) = 0
      BY <1>3, SumStep
    <2>2. Sum(f, T) \notin Nat
      OBVIOUS
    <2> HIDE DEF Bad
    <2> QED
      BY <2>1, <2>2
  <1>5. One(T) \in T
    BY <1>4, OneFacts
  <1>6. Sum(f, T \ {One(T)}) \in Nat /\ f[One(T)] \in Nat
    BY <1>2, <1>5 DEF Counts
  <1>7. Sum(f, T) = f[One(T)] + Sum(f, T \ {One(T)})
    BY <1>3, <1>4, SumStep
  <1>8. Sum(f, T) \in Nat
    <2> HIDE DEF Bad
    <2> QED BY <1>6, <1>7
  <1> QED
    BY <1>8

(* The sum does not depend on the order in which elements are taken.       *)
LEMMA SumTake ==
    ASSUME NEW S, IsFiniteSet(S), NEW f, Counts(f, S), NEW x \in S
    PROVE  Sum(f, S) = f[x] + Sum(f, S \ {x})
  <1> DEFINE Bad == {T \in SUBSET S : \E y \in T : Sum(f, T) # f[y] + Sum(f, T \ {y})}
  <1>1. SUFFICES ASSUME Bad # {} PROVE FALSE
    OBVIOUS
  <1>2. PICK T \in Bad : \A y \in T : T \ {y} \notin Bad
    <2>1. Bad \subseteq SUBSET S
      OBVIOUS
    <2> HIDE DEF Bad
    <2> QED
      BY <1>1, <2>1, LeastSubset
  <1>3. PICK y \in T : Sum(f, T) # f[y] + Sum(f, T \ {y})
    OBVIOUS
  <1>4. PICK c : c = One(T)
    OBVIOUS
  <1>5. T \in SUBSET S /\ \A U \in SUBSET T : IsFiniteSet(U) /\ Sum(f, U) \in Nat
    <2>1. ASSUME NEW U \in SUBSET T PROVE IsFiniteSet(U) /\ Sum(f, U) \in Nat
      <3>1. U \in SUBSET S
        OBVIOUS
      <3>2. IsFiniteSet(U) /\ Counts(f, U)
        BY <3>1, FS_Subset DEF Counts
      <3> QED
        BY <3>2, SumType
    <2> QED
      BY <2>1
  <1>6. c \in T /\ Sum(f, T) = f[c] + Sum(f, T \ {c})
    BY <1>4, <1>5, SumStep, OneFacts
  <1>7. c # y
    BY <1>3, <1>6
  <1>8. PICK A, B, C : A = T \ {c} /\ B = T \ {y} /\ C = T \ {c, y}
    OBVIOUS
  <1>9. A \ {y} = C /\ B \ {c} = C /\ y \in A /\ c \in B
    BY <1>6, <1>7, <1>8
  <1>10. Sum(f, A) = f[y] + Sum(f, C)
    <2>1. A \in SUBSET S /\ A \notin Bad
      BY <1>2, <1>5, <1>6, <1>8
    <2> QED
      BY <1>9, <2>1
  <1>11. Sum(f, B) = f[c] + Sum(f, C)
    <2>1. B \in SUBSET S /\ B \notin Bad
      BY <1>2, <1>5, <1>8
    <2> QED
      BY <1>9, <2>1
  <1>12. f[y] \in Nat /\ f[c] \in Nat /\ Sum(f, C) \in Nat
    <2>1. C \in SUBSET T
      BY <1>8
    <2> QED
      BY <1>5, <1>6, <2>1 DEF Counts
  <1>13. Sum(f, T) = f[c] + Sum(f, A) /\ Sum(f, T) # f[y] + Sum(f, B)
    BY <1>3, <1>6, <1>8
  <1> HIDE DEF Bad
  <1> QED
    BY <1>10, <1>11, <1>12, <1>13

LEMMA SumAdd ==
    ASSUME NEW S, IsFiniteSet(S), NEW f, NEW x, x \notin S, Counts(f, S \cup {x})
    PROVE  Sum(f, S \cup {x}) = f[x] + Sum(f, S)
  <1>1. PICK T : T = S \cup {x}
    OBVIOUS
  <1>2. IsFiniteSet(T) /\ x \in T /\ T \ {x} = S /\ Counts(f, T)
    BY <1>1, FS_AddElement
  <1> QED
    BY <1>1, <1>2, SumTake

LEMMA SumRises ==
    ASSUME NEW S, IsFiniteSet(S), NEW f, NEW g, Counts(f, S), Counts(g, S),
           \A x \in S : f[x] <= g[x]
    PROVE  Sum(f, S) <= Sum(g, S)
  <1> DEFINE Bad == {T \in SUBSET S : ~(Sum(f, T) <= Sum(g, T))}
  <1>1. SUFFICES ASSUME Bad # {} PROVE FALSE
    OBVIOUS
  <1>2. PICK T \in Bad : \A x \in T : T \ {x} \notin Bad
    <2>1. Bad \subseteq SUBSET S
      OBVIOUS
    <2> HIDE DEF Bad
    <2> QED
      BY <1>1, <2>1, LeastSubset
  <1>3. T \in SUBSET S /\ IsFiniteSet(T) /\ ~(Sum(f, T) <= Sum(g, T))
    BY FS_Subset
  <1>4. T # {}
    <2>1. T = {} => Sum(f, T) = 0 /\ Sum(g, T) = 0
      BY <1>3, SumStep
    <2> QED
      BY <1>3, <2>1
  <1>5. PICK x : x = One(T)
    OBVIOUS
  <1>6. x \in T /\ x \in S
    BY <1>3, <1>4, <1>5, OneFacts
  <1>7. Sum(f, T) = f[x] + Sum(f, T \ {x}) /\ Sum(g, T) = g[x] + Sum(g, T \ {x})
    BY <1>3, <1>4, <1>5, SumStep
  <1>8. Sum(f, T \ {x}) <= Sum(g, T \ {x})
    BY <1>2, <1>3, <1>6
  <1>9. Sum(f, T \ {x}) \in Nat /\ Sum(g, T \ {x}) \in Nat
    <2>1. PICK U : U = T \ {x}
      OBVIOUS
    <2>2. IsFiniteSet(U) /\ Counts(f, U) /\ Counts(g, U)
      BY <1>3, <2>1, FS_Subset DEF Counts
    <2> QED
      BY <2>1, <2>2, SumType
  <1>10. f[x] \in Nat /\ g[x] \in Nat /\ f[x] <= g[x]
    BY <1>6 DEF Counts
  <1> HIDE DEF Bad
  <1> QED
    BY <1>3, <1>7, <1>8, <1>9, <1>10

LEMMA SumSame ==
    ASSUME NEW S, IsFiniteSet(S), NEW f, NEW g, Counts(f, S), \A x \in S : f[x] = g[x]
    PROVE  Sum(f, S) = Sum(g, S)
  <1>1. Counts(g, S)
    BY DEF Counts
  <1>2. \A x \in S : f[x] <= g[x] /\ g[x] <= f[x]
    BY DEF Counts
  <1>3. Sum(f, S) <= Sum(g, S) /\ Sum(g, S) <= Sum(f, S)
    BY <1>1, <1>2, SumRises
  <1>4. Sum(f, S) \in Nat /\ Sum(g, S) \in Nat
    BY <1>1, SumType
  <1> QED
    BY <1>3, <1>4

-----------------------------------------------------------------------------
(* Buckets *)

USE LadderAssumption, NameAssumption, RequestAssumption, ValueAssumption

LEMMA LadderFacts ==
    /\ Len(Bounds) \in Nat /\ DOMAIN Bounds = 1..Len(Bounds)
    /\ \A i \in DOMAIN Bounds : Bounds[i] \in Nat
    /\ Inf \in Nat /\ Inf >= 1 /\ Slots = 1..Inf /\ Inf \in Slots
    /\ IsFiniteSet(Slots)
  <1>1. Len(Bounds) \in Nat /\ DOMAIN Bounds = 1..Len(Bounds)
    BY DEF LadderAssumption
  <1>2. \A i \in DOMAIN Bounds : Bounds[i] \in Nat
    BY DEF LadderAssumption
  <1>3. Inf \in Nat /\ Inf >= 1 /\ Slots = 1..Inf /\ Inf \in Slots
    BY <1>1 DEF Inf, Slots
  <1>4. IsFiniteSet(Slots)
    BY <1>3, FS_Interval
  <1> QED
    BY <1>1, <1>2, <1>3, <1>4

(* bucketIndex finds the first bound that v does not exceed.               *)
LEMMA IndexFacts ==
    ASSUME NEW v \in Nat
    PROVE  /\ bucketIndex(v) \in Slots
           /\ \A i \in DOMAIN Bounds : v <= Bounds[i] <=> bucketIndex(v) <= i
  <1>1. PICK C : C = {i \in DOMAIN Bounds : v <= Bounds[i]} \cup {Inf}
    OBVIOUS
  <1>2. C \subseteq Nat /\ C \subseteq Slots /\ C # {}
    <2>1. C \subseteq Slots /\ C # {}
      BY <1>1, LadderFacts DEF Slots
    <2>2. Slots \subseteq Nat
      BY LadderFacts
    <2> QED
      BY <2>1, <2>2
  <1>3. \E x \in C : \A y \in C : x <= y
    BY <1>2, LeastIndex
  <1>4. PICK m : m = bucketIndex(v)
    OBVIOUS
  <1>5. m = CHOOSE x \in C : \A y \in C : x <= y
    BY <1>1, <1>4 DEF bucketIndex, Min
  <1>6. m \in C /\ \A y \in C : m <= y
    BY <1>3, <1>5
  <1>7. ASSUME NEW i \in DOMAIN Bounds PROVE v <= Bounds[i] <=> m <= i
    <2>1. CASE v <= Bounds[i]
      <3>1. i \in C
        BY <1>1, <2>1
      <3> QED
        BY <1>6, <2>1, <3>1
    <2>2. CASE m <= i
      <3>1. m # Inf
        BY <2>2, LadderFacts DEF Inf
      <3>2. m \in DOMAIN Bounds /\ v <= Bounds[m]
        BY <1>1, <1>6, <3>1
      <3>3. m = i \/ m < i
        BY <2>2, <3>2, LadderFacts
      <3>4. Bounds[m] <= Bounds[i]
        BY <3>2, <3>3, LadderFacts DEF LadderAssumption
      <3>5. v <= Bounds[i]
        BY <3>2, <3>4, LadderFacts
      <3> QED
        BY <2>2, <3>5
    <2> QED BY <2>1, <2>2
  <1> QED
    BY <1>2, <1>4, <1>6, <1>7

LEMMA ZeroFacts ==
    /\ Zero \in Snapshot /\ Zero.sum = 0 /\ Zero.count = 0
    /\ \A i \in Slots : Zero.buckets[i] = 0
  BY DEF Zero, Snapshot

LEMMA SnapshotFacts ==
    ASSUME NEW s \in Snapshot
    PROVE  /\ s.sum \in Nat /\ s.count \in Nat /\ s.buckets \in [Slots -> Nat]
           /\ \A i \in Slots : s.buckets[i] \in Nat
           /\ \A S \in SUBSET Slots : Counts(s.buckets, S)
  BY DEF Snapshot, Counts

LEMMA LoadFacts ==
    /\ Len(Loads) = Inf + 2
    /\ Loads[1] = <<"sum", 0>> /\ Loads[2] = <<"count", 0>>
    /\ \A i \in Slots : Loads[i + 2] = <<"bucket", i>>
  <1>1. PICK a : a = << <<"sum", 0>>, <<"count", 0>> >>
    OBVIOUS
  <1>2. Buckets = [i \in 1..Inf |-> <<"bucket", i>>]
    BY LadderFacts DEF Buckets
  <1>3. PICK T : T = {"sum", "count", "bucket"} \X Nat
    OBVIOUS
  <1>4. a \in Seq(T) /\ Len(a) = 2 /\ a[1] = <<"sum", 0>> /\ a[2] = <<"count", 0>>
    BY <1>1, <1>3
  <1>5. Buckets \in Seq(T) /\ Len(Buckets) = Inf
    BY <1>2, <1>3, LadderFacts
  <1>6. Loads = a \o Buckets
    BY <1>1 DEF Loads
  <1>7. /\ Len(Loads) = 2 + Inf
        /\ \A i \in 1..Len(Loads) : Loads[i] = IF i <= 2 THEN a[i] ELSE Buckets[i - 2]
    <2>1. PICK b, T2 : b = Buckets /\ T2 = T
      OBVIOUS
    <2>2. a \in Seq(T2) /\ b \in Seq(T2) /\ Len(a) = 2 /\ Len(b) = Inf
      BY <1>4, <1>5, <2>1
    <2>3. /\ Len(a \o b) = Len(a) + Len(b)
          /\ \A i \in 1..Len(a) + Len(b) :
                (a \o b)[i] = IF i <= Len(a) THEN a[i] ELSE b[i - Len(a)]
      BY <2>2, ConcatProperties
    <2> QED
      BY <1>6, <2>1, <2>2, <2>3
  <1>8. ASSUME NEW i \in Slots PROVE Loads[i + 2] = <<"bucket", i>>
    <2>1. i \in Nat /\ i >= 1 /\ i <= Inf /\ Inf \in Nat
      BY LadderFacts
    <2>2. i + 2 \in 1..Len(Loads) /\ ~(i + 2 <= 2) /\ (i + 2) - 2 = i
      BY <1>7, <2>1
    <2>3. Loads[i + 2] = Buckets[i]
      BY <1>7, <2>2
    <2> QED
      BY <1>2, <2>1, <2>3
  <1> QED
    BY <1>4, <1>7, <1>8, LadderFacts

LEMMA BucketSums ==
    ASSUME NEW s \in Snapshot
    PROVE  /\ \A S \in SUBSET Slots : Sum(s.buckets, S) \in Nat
           /\ \A i \in Slots :
                 Sum(s.buckets, i..Inf) = s.buckets[i] + Sum(s.buckets, (i + 1)..Inf)
           /\ Sum(s.buckets, (Inf + 1)..Inf) = 0
  <1>1. ASSUME NEW S \in SUBSET Slots PROVE IsFiniteSet(S) /\ Counts(s.buckets, S)
    BY LadderFacts, FS_Subset, SnapshotFacts
  <1>2. ASSUME NEW S \in SUBSET Slots PROVE Sum(s.buckets, S) \in Nat
    BY <1>1, SumType
  <1>3. ASSUME NEW i \in Slots
        PROVE  Sum(s.buckets, i..Inf) = s.buckets[i] + Sum(s.buckets, (i + 1)..Inf)
    <2>1. PICK T : T = i..Inf
      OBVIOUS
    <2>2. i \in T /\ T \ {i} = (i + 1)..Inf /\ T \in SUBSET Slots
      BY <2>1, LadderFacts
    <2>3. Sum(s.buckets, T) = s.buckets[i] + Sum(s.buckets, T \ {i})
      BY <1>1, <2>2, SumTake
    <2> QED
      BY <2>1, <2>2, <2>3
  <1>4. Sum(s.buckets, (Inf + 1)..Inf) = 0
    <2>1. (Inf + 1)..Inf = {}
      BY LadderFacts
    <2>2. IsFiniteSet({})
      BY FS_EmptySet
    <2>3. Sum(s.buckets, {}) = 0
      BY <2>2, SumStep
    <2> QED
      BY <2>1, <2>3
  <1> QED
    BY <1>2, <1>3, <1>4

LEMMA BelowFacts ==
    ASSUME NEW s \in Snapshot, NEW i \in 1..(Inf + 1)
    PROVE  Below(s, i) \in Nat /\ (i # 1 => i - 1 \in Slots)
  <1>1. i # 1 => i - 1 \in Slots
    BY LadderFacts
  <1> QED
    BY <1>1, SnapshotFacts DEF Below

-----------------------------------------------------------------------------
(* Scrapes *)

LEMMA SumLoaded ==
    ASSUME NEW snap \in Snapshot, NEW exp \in Snapshot, NEW s \in Snapshot,
           Behind(exp, s)
    PROVE  /\ Loaded(snap, Loads[1], s) \in Snapshot
           /\ Snapped(1, Loaded(snap, Loads[1], s), exp, s)
  <1>1. PICK t : t = Loaded(snap, Loads[1], s)
    OBVIOUS
  <1>2. t = [snap EXCEPT !.sum = s.sum]
    BY <1>1, LoadFacts DEF Loaded
  <1>3. t \in Snapshot /\ t.sum = s.sum
    BY <1>2 DEF Snapshot
  <1>4. \A i \in Slots : ~(i + 2 <= 1)
    BY LadderFacts
  <1>5. Snapped(1, t, exp, s)
    BY <1>3, <1>4, SnapshotFacts DEF Snapped, Behind
  <1> QED
    BY <1>1, <1>3, <1>5

LEMMA CountLoaded ==
    ASSUME NEW snap \in Snapshot, NEW exp \in Snapshot, NEW s \in Snapshot,
           Behind(exp, s), Snapped(1, snap, exp, s), s.count <= Sum(s.buckets, Slots)
    PROVE  /\ Loaded(snap, Loads[2], s) \in Snapshot
           /\ Snapped(2, Loaded(snap, Loads[2], s), exp, s)
  <1>1. PICK t : t = Loaded(snap, Loads[2], s)
    OBVIOUS
  <1>2. t = [snap EXCEPT !.count = s.count]
    BY <1>1, LoadFacts DEF Loaded
  <1>3. t \in Snapshot /\ t.count = s.count /\ t.sum = snap.sum
    BY <1>2 DEF Snapshot
  <1>4. \A i \in Slots : ~(i + 2 <= 2)
    BY LadderFacts
  <1>5. t.count <= Below(t, 2 - 1) + Sum(s.buckets, (2 - 1)..Inf)
    <2>1. Below(t, 1) = 0 /\ 1..Inf = Slots
      BY LadderFacts DEF Below
    <2>2. Sum(s.buckets, Slots) \in Nat
      BY BucketSums
    <2> QED
      BY <1>3, <2>1, <2>2
  <1>6. exp.sum <= snap.sum /\ snap.sum <= s.sum
    BY DEF Snapped
  <1>7. exp.count <= t.count /\ t.count <= s.count
    BY <1>3, SnapshotFacts DEF Behind
  <1>8. Snapped(2, t, exp, s)
    BY <1>3, <1>4, <1>5, <1>6, <1>7 DEF Snapped
  <1> QED
    BY <1>1, <1>3, <1>8

LEMMA BucketLoaded ==
    ASSUME NEW snap \in Snapshot, NEW exp \in Snapshot, NEW s \in Snapshot, NEW i \in Slots,
           Behind(exp, s), Snapped(i + 1, snap, exp, s)
    PROVE  /\ Loaded(snap, Loads[i + 2], s) \in Snapshot
           /\ Snapped(i + 2, Loaded(snap, Loads[i + 2], s), exp, s)
  <1>0. i \in Nat /\ i >= 1 /\ i <= Inf /\ Inf \in Nat /\ i \in 1..(Inf + 1) /\ i + 1 \in 1..(Inf + 1)
    BY LadderFacts
  <1>1. PICK t, b : t = Loaded(snap, Loads[i + 2], s) /\ b = Below(snap, i) + s.buckets[i]
    OBVIOUS
  <1>2. t = [snap EXCEPT !.buckets[i] = b]
    <2>1. Loads[i + 2] = <<"bucket", i>>
      BY LoadFacts
    <2> QED
      BY <1>1, <2>1 DEF Loaded
  <1>3. Below(snap, i) \in Nat /\ s.buckets[i] \in Nat /\ b \in Nat
    <2>1. Below(snap, i) \in Nat /\ s.buckets[i] \in Nat
      BY <1>0, BelowFacts, SnapshotFacts
    <2> QED
      BY <1>1, <2>1
  <1>4. /\ t \in Snapshot /\ t.sum = snap.sum /\ t.count = snap.count /\ t.buckets[i] = b
        /\ \A j \in Slots : j # i => t.buckets[j] = snap.buckets[j]
    BY <1>2, <1>3 DEF Snapshot
  <1>5. \A j \in Slots : j <= i => Below(t, j) = Below(snap, j)
    <2> SUFFICES ASSUME NEW j \in Slots, j <= i PROVE Below(t, j) = Below(snap, j)
      OBVIOUS
    <2>1. j = 1 \/ (j - 1 \in Slots /\ j - 1 # i)
      BY <1>0, LadderFacts
    <2> QED
      BY <1>4, <2>1 DEF Below
  <1>6. Below(t, i + 1) = b
    <2>1. i + 1 # 1 /\ (i + 1) - 1 = i
      BY <1>0
    <2> QED
      BY <1>4, <2>1 DEF Below
  <1>7. i + 1 >= 2 /\ (i + 1) - 1 = i /\ i + 2 >= 2 /\ (i + 2) - 1 = i + 1 /\ i + 1 >= 1 /\ i + 2 >= 1
    BY <1>0
  <1>8. /\ exp.sum <= snap.sum /\ snap.sum <= s.sum
        /\ exp.count <= snap.count /\ snap.count <= s.count
        /\ snap.count <= Below(snap, i) + Sum(s.buckets, i..Inf)
    BY <1>7 DEF Snapped
  <1>9. snap.count <= b + Sum(s.buckets, (i + 1)..Inf)
    <2>1. Sum(s.buckets, i..Inf) = s.buckets[i] + Sum(s.buckets, (i + 1)..Inf)
      BY BucketSums
    <2>2. Sum(s.buckets, (i + 1)..Inf) \in Nat
      <3>1. (i + 1)..Inf \in SUBSET Slots
        BY <1>0, LadderFacts
      <3> QED
        BY <3>1, BucketSums
    <2>3. snap.count \in Nat
      BY SnapshotFacts
    <2> QED
      BY <1>1, <1>3, <1>8, <2>1, <2>2, <2>3
  <1>10. Below(exp, i) <= Below(snap, i)
    <2>1. CASE i = 1
      BY <2>1 DEF Below
    <2>2. CASE i # 1
      <3>1. i - 1 \in Slots /\ (i - 1) + 2 <= i + 1
        BY <1>0, <2>2, LadderFacts
      <3>2. exp.buckets[i - 1] <= snap.buckets[i - 1]
        BY <3>1 DEF Snapped
      <3> QED
        BY <2>2, <3>2 DEF Below
    <2> QED BY <2>1, <2>2
  <1>11. exp.buckets[i] <= b
    <2>1. exp.buckets[i] <= Below(exp, i) + s.buckets[i]
      BY DEF Behind
    <2>2. exp.buckets[i] \in Nat /\ Below(exp, i) \in Nat
      BY <1>0, BelowFacts, SnapshotFacts
    <2> QED
      BY <1>1, <1>3, <1>10, <2>1, <2>2
  <1>12. ASSUME NEW j \in Slots, j + 2 <= i + 2
         PROVE  /\ exp.buckets[j] <= t.buckets[j] /\ Below(t, j) <= t.buckets[j]
                /\ t.buckets[j] <= Below(t, j) + s.buckets[j]
    <2>1. j \in Nat /\ j <= i
      BY <1>0, <1>12, LadderFacts
    <2>2. CASE j = i
      <3>1. Below(t, i) = Below(snap, i)
        BY <1>5, <2>1, <2>2
      <3>2. Below(snap, i) <= b /\ b <= Below(snap, i) + s.buckets[i]
        BY <1>1, <1>3
      <3> QED
        BY <1>4, <1>11, <2>2, <3>1, <3>2
    <2>3. CASE j # i
      <3>1. j + 2 <= i + 1
        BY <1>0, <2>1, <2>3
      <3>2. /\ exp.buckets[j] <= snap.buckets[j] /\ Below(snap, j) <= snap.buckets[j]
            /\ snap.buckets[j] <= Below(snap, j) + s.buckets[j]
        BY <3>1 DEF Snapped
      <3>3. t.buckets[j] = snap.buckets[j] /\ Below(t, j) = Below(snap, j)
        BY <1>4, <1>5, <2>1, <2>3
      <3> QED
        BY <3>2, <3>3
    <2> QED BY <2>2, <2>3
  <1>13. Snapped(i + 2, t, exp, s)
    BY <1>4, <1>6, <1>7, <1>8, <1>9, <1>12 DEF Snapped
  <1> QED
    BY <1>1, <1>4, <1>13

(* A load extends the snapshot by one.                                     *)
LEMMA LoadKeeps ==
    ASSUME NEW snap \in Snapshot, NEW exp \in Snapshot, NEW s \in Snapshot,
           NEW n \in 1..(Inf + 2),
           Behind(exp, s), Snapped(n - 1, snap, exp, s), s.count <= Sum(s.buckets, Slots)
    PROVE  /\ Loaded(snap, Loads[n], s) \in Snapshot
           /\ Snapped(n, Loaded(snap, Loads[n], s), exp, s)
  <1>1. CASE n = 1
    BY <1>1, SumLoaded
  <1>2. CASE n = 2
    <2>1. n - 1 = 1
      BY <1>2
    <2>2. Snapped(1, snap, exp, s)
      BY <2>1
    <2> QED
      BY <1>2, <2>2, CountLoaded
  <1>3. CASE n # 1 /\ n # 2
    <2>1. PICK i \in Slots : n = i + 2
      <3>1. n - 2 \in Slots /\ n = (n - 2) + 2
        BY <1>3, LadderFacts
      <3> QED
        BY <3>1
    <2>2. i \in Nat /\ n - 1 = i + 1
      BY <2>1, LadderFacts
    <2>3. Snapped(i + 1, snap, exp, s)
      BY <2>2
    <2> QED
      BY <2>1, <2>3, BucketLoaded
  <1> QED BY <1>1, <1>2, <1>3

(* Observations that arrive meanwhile do no harm.                          *)
LEMMA GrowthKeeps ==
    ASSUME NEW snap \in Snapshot, NEW exp \in Snapshot, NEW s \in Snapshot, NEW t \in Snapshot,
           NoLess(s, t), NEW n \in 0..(Inf + 2)
    PROVE  /\ Behind(exp, s) => Behind(exp, t)
           /\ Snapped(n, snap, exp, s) => Snapped(n, snap, exp, t)
  <1>0. /\ s.sum <= t.sum /\ s.count <= t.count
        /\ \A i \in Slots : s.buckets[i] <= t.buckets[i]
    BY DEF NoLess
  <1>1. ASSUME NEW e \in Snapshot, NEW i \in Slots, e.buckets[i] <= Below(e, i) + s.buckets[i]
        PROVE  e.buckets[i] <= Below(e, i) + t.buckets[i]
    <2>1. /\ e.buckets[i] \in Nat /\ s.buckets[i] \in Nat /\ t.buckets[i] \in Nat
          /\ s.buckets[i] <= t.buckets[i]
      BY <1>0, SnapshotFacts
    <2>2. Below(e, i) \in Nat
      <3>1. i \in 1..(Inf + 1)
        BY LadderFacts
      <3> QED
        BY <3>1, BelowFacts
    <2> QED
      BY <1>1, <2>1, <2>2
  <1>2. ASSUME Behind(exp, s) PROVE Behind(exp, t)
    <2>1. exp.sum <= t.sum /\ exp.count <= t.count
      BY <1>0, <1>2, SnapshotFacts DEF Behind
    <2>2. \A i \in Slots : exp.buckets[i] <= Below(exp, i) + t.buckets[i]
      BY <1>1, <1>2 DEF Behind
    <2> QED
      BY <2>1, <2>2 DEF Behind
  <1>3. ASSUME Snapped(n, snap, exp, s) PROVE Snapped(n, snap, exp, t)
    <2>1. n >= 1 => exp.sum <= snap.sum /\ snap.sum <= t.sum
      <3>1. n >= 1 => exp.sum <= snap.sum /\ snap.sum <= s.sum
        BY <1>3 DEF Snapped
      <3> QED
        BY <1>0, <3>1, SnapshotFacts
    <2>2. ASSUME n >= 2
          PROVE  /\ exp.count <= snap.count /\ snap.count <= t.count
                 /\ snap.count <= Below(snap, n - 1) + Sum(t.buckets, (n - 1)..Inf)
      <3>1. /\ exp.count <= snap.count /\ snap.count <= s.count
            /\ snap.count <= Below(snap, n - 1) + Sum(s.buckets, (n - 1)..Inf)
        BY <1>3, <2>2 DEF Snapped
      <3>2. PICK R : R = (n - 1)..Inf
        OBVIOUS
      <3>3. R \in SUBSET Slots /\ n - 1 \in 1..(Inf + 1)
        BY <2>2, <3>2, LadderFacts
      <3>4. IsFiniteSet(R) /\ Counts(s.buckets, R) /\ Counts(t.buckets, R)
        BY <3>3, LadderFacts, SnapshotFacts, FS_Subset
      <3>5. Sum(s.buckets, R) <= Sum(t.buckets, R)
        <4>1. \A i \in R : s.buckets[i] <= t.buckets[i]
          BY <1>0, <3>3
        <4> QED
          BY <3>4, <4>1, SumRises
      <3>6. Sum(s.buckets, R) \in Nat /\ Sum(t.buckets, R) \in Nat
        BY <3>4, SumType
      <3>7. Below(snap, n - 1) \in Nat /\ snap.count \in Nat
        BY <3>3, BelowFacts, SnapshotFacts
      <3>8. snap.count <= Below(snap, n - 1) + Sum(s.buckets, R)
        BY <3>1, <3>2
      <3>9. snap.count <= Below(snap, n - 1) + Sum(t.buckets, R)
        BY <3>5, <3>6, <3>7, <3>8
      <3>10. snap.count <= t.count
        BY <1>0, <3>1, SnapshotFacts
      <3> QED
        BY <3>1, <3>2, <3>9, <3>10
    <2>3. \A i \in Slots : i + 2 <= n =>
             /\ exp.buckets[i] <= snap.buckets[i] /\ Below(snap, i) <= snap.buckets[i]
             /\ snap.buckets[i] <= Below(snap, i) + t.buckets[i]
      BY <1>1, <1>3 DEF Snapped
    <2> QED
      BY <2>1, <2>2, <2>3 DEF Snapped
  <1> QED
    BY <1>2, <1>3

(* Loads that nobody made are harmless before the first exposition of a    *)
(* series, and none are needed when none are made.                         *)
LEMMA NothingLoaded ==
    ASSUME NEW s \in Snapshot
    PROVE  /\ \A snap, exp \in Snapshot : Snapped(0, snap, exp, s)
           /\ Snapped(Inf + 2, Zero, Zero, s)
           /\ Behind(Zero, s) /\ IsHistogram(Zero)
  <1>1. \A i \in Slots : i \in Nat /\ i >= 1 /\ i \in 1..(Inf + 1) /\ i + 2 <= Inf + 2 /\ ~(i + 2 <= 0)
    BY LadderFacts
  <1>2. \A snap, exp \in Snapshot : Snapped(0, snap, exp, s)
    BY <1>1 DEF Snapped
  <1>3. \A i \in 1..(Inf + 1) : Below(Zero, i) = 0
    BY ZeroFacts, BelowFacts DEF Below
  <1>4. \A i \in Slots : s.buckets[i] \in Nat /\ Zero.buckets[i] = 0 /\ Below(Zero, i) = 0
    BY <1>1, <1>3, ZeroFacts, SnapshotFacts
  <1>5. s.sum \in Nat /\ s.count \in Nat
    BY SnapshotFacts
  <1>6. Behind(Zero, s)
    BY <1>4, <1>5, ZeroFacts DEF Behind
  <1>7. Zero.count <= Below(Zero, (Inf + 2) - 1) + Sum(s.buckets, ((Inf + 2) - 1)..Inf)
    <2>1. (Inf + 2) - 1 = Inf + 1 /\ Inf + 1 \in 1..(Inf + 1)
      BY LadderFacts
    <2> QED
      BY <1>3, <2>1, ZeroFacts, BucketSums
  <1>8. Snapped(Inf + 2, Zero, Zero, s)
    BY <1>4, <1>5, <1>7, ZeroFacts DEF Snapped
  <1>9. IsHistogram(Zero)
    BY ZeroFacts, LadderFacts DEF IsHistogram
  <1> QED
    BY <1>2, <1>6, <1>8, <1>9

LEMMA Rising ==
    ASSUME NEW snap \in Snapshot, \A i \in Slots : Below(snap, i) <= snap.buckets[i],
           NEW i \in Slots
    PROVE  \A j \in Slots : i < j => snap.buckets[i] <= snap.buckets[j]
  <1> DEFINE Bad == {j \in Slots : i < j /\ ~(snap.buckets[i] <= snap.buckets[j])}
  <1>1. SUFFICES ASSUME Bad # {} PROVE FALSE
    OBVIOUS
  <1>2. PICK j \in Bad : \A l \in Bad : j <= l
    <2>1. Bad \subseteq Nat
      BY LadderFacts
    <2> HIDE DEF Bad
    <2> QED
      BY <1>1, <2>1, LeastIndex
  <1>3. PICK l \in Slots : j = l + 1 /\ i <= l
    <2>1. j - 1 \in Slots /\ j = (j - 1) + 1 /\ i <= j - 1
      BY LadderFacts
    <2> QED
      BY <2>1
  <1>4. l \in Nat /\ i \in Nat /\ l \notin Bad
    <2>1. l \in Nat /\ i \in Nat /\ ~(j <= l)
      BY <1>3, LadderFacts
    <2> QED
      BY <1>2, <2>1
  <1>5. snap.buckets[i] <= snap.buckets[l]
    <2>1. i = l \/ i < l
      BY <1>3, <1>4
    <2>2. snap.buckets[i] \in Nat
      BY SnapshotFacts
    <2> QED
      BY <1>4, <2>1, <2>2
  <1>6. snap.buckets[l] <= snap.buckets[j]
    <2>1. j # 1 /\ j - 1 = l
      <3>1. l >= 1
        BY LadderFacts
      <3> QED
        BY <1>3, <1>4, <3>1
    <2>2. Below(snap, j) = snap.buckets[l]
      BY <2>1 DEF Below
    <2> QED
      BY <2>2
  <1>7. snap.buckets[i] \in Nat /\ snap.buckets[l] \in Nat /\ snap.buckets[j] \in Nat
    BY SnapshotFacts
  <1>8. ~(snap.buckets[i] <= snap.buckets[j])
    OBVIOUS
  <1> HIDE DEF Bad
  <1> QED
    BY <1>5, <1>6, <1>7, <1>8

(* A complete snapshot is a histogram, no less than the one before.        *)
LEMMA CompleteSnapshot ==
    ASSUME NEW snap \in Snapshot, NEW exp \in Snapshot, NEW s \in Snapshot,
           Snapped(Inf + 2, snap, exp, s)
    PROVE  IsHistogram(snap) /\ NoLess(exp, snap) /\ Behind(snap, s)
  <1>0. Inf \in Nat /\ Inf \in Slots /\ \A i \in Slots : i + 2 <= Inf + 2
    BY LadderFacts
  <1>1. \A i \in Slots :
          /\ exp.buckets[i] <= snap.buckets[i] /\ Below(snap, i) <= snap.buckets[i]
          /\ snap.buckets[i] <= Below(snap, i) + s.buckets[i]
    BY <1>0 DEF Snapped
  <1>2. /\ exp.sum <= snap.sum /\ snap.sum <= s.sum
        /\ exp.count <= snap.count /\ snap.count <= s.count
        /\ snap.count <= Below(snap, (Inf + 2) - 1) + Sum(s.buckets, ((Inf + 2) - 1)..Inf)
    <2>1. Inf + 2 >= 1 /\ Inf + 2 >= 2
      BY <1>0
    <2> QED
      BY <2>1 DEF Snapped
  <1>3. NoLess(exp, snap) /\ Behind(snap, s)
    BY <1>1, <1>2 DEF NoLess, Behind
  <1>4. snap.count <= snap.buckets[Inf]
    <2>1. (Inf + 2) - 1 = Inf + 1 /\ Inf + 1 # 1 /\ (Inf + 1) - 1 = Inf
      BY LadderFacts
    <2>2. Below(snap, Inf + 1) = snap.buckets[Inf]
      BY <2>1 DEF Below
    <2>3. Sum(s.buckets, (Inf + 1)..Inf) = 0
      BY BucketSums
    <2>4. snap.buckets[Inf] \in Nat
      BY <1>0, SnapshotFacts
    <2> QED
      BY <1>2, <2>1, <2>2, <2>3, <2>4
  <1>5. \A i, j \in Slots : i < j => snap.buckets[i] <= snap.buckets[j]
    BY <1>1, Rising
  <1>6. snap.count \in Nat /\ snap.buckets[Inf] \in Nat
    BY <1>0, SnapshotFacts
  <1> QED
    BY <1>3, <1>4, <1>5, <1>6 DEF IsHistogram

-----------------------------------------------------------------------------
(* What the steps of a request do to the series of a key *)

(* A step neither moves a request across P nor changes one that is in it.  *)
Same(P) ==
    \A x \in Requests : /\ pc'[x] \in P <=> pc[x] \in P
                        /\ pc[x] \in P => key'[x] = key[x] /\ seconds'[x] = seconds[x]

Counted == {"count", "observed"}
Observed == {"observed"}

LEMMA TypeFacts ==
    ASSUME TypeOK
    PROVE  /\ \A k \in seriesKey : SeriesOf(k) \in Snapshot /\ snaps[k] \in Snapshot
                                   /\ exposed[k] \in Snapshot /\ registry[k] \in Requests \cup {"none"}
           /\ \A r \in Requests : seconds[r] \in Nat /\ bucketIndex(seconds[r]) \in Slots
                                  /\ key[r] \in seriesKey /\ series[r] \in Snapshot
           /\ at \in 1..(Inf + 2)
           /\ \A k \in seriesKey : Done(k) \in 0..(Inf + 2)
  <1>1. /\ \A k \in seriesKey : /\ registry[k] \in Requests \cup {"none"} /\ snaps[k] \in Snapshot
                                /\ exposed[k] \in Snapshot
        /\ \A r \in Requests : series[r] \in Snapshot /\ key[r] \in seriesKey
                               /\ seconds[r] \in Latencies \cup {0}
    BY DEF TypeOK
  <1>2. \A k \in seriesKey : SeriesOf(k) \in Snapshot
    BY <1>1, ZeroFacts DEF SeriesOf
  <1>3. \A r \in Requests : seconds[r] \in Nat
    <2>1. Latencies \cup {0} \subseteq Nat
      BY DEF ValueAssumption
    <2>2. \A r \in Requests : seconds[r] \in Latencies \cup {0}
      BY DEF TypeOK
    <2> QED
      BY <2>1, <2>2, Zenon
  <1>4. \A r \in Requests : bucketIndex(seconds[r]) \in Slots
    BY <1>3, IndexFacts
  <1>5. at \in 1..(Inf + 2)
    <2>1. at \in 1..Len(Loads)
      BY DEF TypeOK
    <2> QED
      BY <2>1, LoadFacts
  <1>6. \A k \in seriesKey : Done(k) \in 0..(Inf + 2)
    BY <1>5, LadderFacts DEF Done
  <1> QED
    BY <1>1, <1>2, <1>3, <1>4, <1>5, <1>6

LEMMA MineFacts ==
    ASSUME TypeOK, Registered, NEW r \in Requests, pc[r] \in Settled
    PROVE  /\ mine[r] \in Requests /\ key[r] \in seriesKey
           /\ registry[key[r]] = mine[r] /\ key[mine[r]] = key[r]
           /\ SeriesOf(key[r]) = series[mine[r]]
           /\ \A k \in seriesKey : k # key[r] => registry[k] # mine[r]
  <1>1. key[r] \in seriesKey /\ registry[key[r]] # "none" /\ mine[r] = registry[key[r]]
    BY TypeFacts DEF Registered
  <1>2. mine[r] \in Requests /\ mine[r] # "none"
    BY <1>1, TypeFacts
  <1>3. \A k \in seriesKey : registry[k] = mine[r] => key[mine[r]] = k
    BY <1>2 DEF Registered
  <1> QED
    BY <1>1, <1>2, <1>3 DEF SeriesOf

LEMMA SamePast ==
    ASSUME NEW P, Same(P), NEW k
    PROVE  Past(k, P)' = Past(k, P)
  BY DEF Same, Past

LEMMA PastFinite ==
    ASSUME NEW k, NEW P
    PROVE  IsFiniteSet(Past(k, P)) /\ Past(k, P) \subseteq Requests
  BY FS_Subset DEF Past, RequestAssumption

LEMMA SameCount ==
    ASSUME Same(Observed), NEW k \in seriesKey,
           SeriesOf(k).count = Cardinality(Past(k, {"observed"})),
           SeriesOf(k)'.count = SeriesOf(k).count
    PROVE  (SeriesOf(k).count = Cardinality(Past(k, {"observed"})))'
  <1>1. Past(k, {"observed"})' = Past(k, {"observed"})
    BY SamePast DEF Observed
  <1> QED
    BY <1>1

LEMMA SameSum ==
    ASSUME TypeOK, Same(Counted), NEW k \in seriesKey,
           SeriesOf(k).sum = Sum(seconds, Past(k, {"count", "observed"})),
           SeriesOf(k)'.sum = SeriesOf(k).sum
    PROVE  (SeriesOf(k).sum = Sum(seconds, Past(k, {"count", "observed"})))'
  <1>1. PICK R : R = Past(k, {"count", "observed"})
    OBVIOUS
  <1>2. Past(k, {"count", "observed"})' = R
    BY <1>1, SamePast DEF Counted
  <1>3. IsFiniteSet(R) /\ R \subseteq Requests
    BY <1>1, PastFinite
  <1>4. \A r \in R : r \in Requests /\ seconds[r] \in Nat /\ seconds[r] = seconds'[r]
    BY <1>1, <1>3, TypeFacts DEF Same, Counted, Past
  <1>5. Sum(seconds, R) = Sum(seconds', R)
    <2>1. PICK f, g : f = seconds /\ g = seconds'
      OBVIOUS
    <2>2. Counts(f, R) /\ \A x \in R : f[x] = g[x]
      BY <1>4, <2>1 DEF Counts
    <2>3. Sum(f, R) = Sum(g, R)
      BY <1>3, <2>2, SumSame
    <2> QED
      BY <2>1, <2>3
  <1>6. Sum(seconds, Past(k, {"count", "observed"}))' = Sum(seconds', R)
    BY <1>2
  <1> QED
    BY <1>1, <1>5, <1>6

LEMMA SameBuckets ==
    ASSUME Same(Bucketed), NEW k \in seriesKey,
           \A i \in Slots : SeriesOf(k).buckets[i] = Cardinality(InSlot(k, i)),
           \A i \in Slots : SeriesOf(k)'.buckets[i] = SeriesOf(k).buckets[i]
    PROVE  (\A i \in Slots : SeriesOf(k).buckets[i] = Cardinality(InSlot(k, i)))'
  <1>1. ASSUME NEW i \in Slots PROVE InSlot(k, i)' = InSlot(k, i)
    <2>1. Past(k, Bucketed)' = Past(k, Bucketed)
      BY SamePast
    <2>2. \A r \in Past(k, Bucketed) : seconds'[r] = seconds[r]
      BY DEF Same, Past
    <2> QED
      BY <2>1, <2>2 DEF InSlot
  <1> QED
    BY <1>1

LEMMA ExactKept ==
    ASSUME TypeOK, Same(Bucketed), Same(Counted), Same(Observed),
           NEW k \in seriesKey, SeriesOf(k)' = SeriesOf(k), Exact(k)
    PROVE  Exact(k)'
  <1>1. (SeriesOf(k).count = Cardinality(Past(k, {"observed"})))'
    BY SameCount DEF Exact
  <1>2. (SeriesOf(k).sum = Sum(seconds, Past(k, {"count", "observed"})))'
    BY SameSum DEF Exact
  <1>3. (\A i \in Slots : SeriesOf(k).buckets[i] = Cardinality(InSlot(k, i)))'
    BY SameBuckets DEF Exact
  <1> QED
    BY <1>1, <1>2, <1>3 DEF Exact

LEMMA ScrapedKept ==
    ASSUME TypeOK, TypeOK', NEW k \in seriesKey, Scraped(k), UNCHANGED scrape,
           Done(k)' = Done(k), NoLess(SeriesOf(k), SeriesOf(k)'),
           registry'[k] = "none" => registry[k] = "none"
    PROVE  Scraped(k)'
  <1>1. PICK s, t, n : s = SeriesOf(k) /\ t = SeriesOf(k)' /\ n = Done(k)
    OBVIOUS
  <1>2. s \in Snapshot /\ snaps[k] \in Snapshot /\ exposed[k] \in Snapshot /\ n \in 0..(Inf + 2)
    BY <1>1, TypeFacts
  <1>3. t \in Snapshot
    <2>1. (\A j \in seriesKey : registry[j] \in Requests \cup {"none"})' /\ (\A r \in Requests : series[r] \in Snapshot)'
      BY DEF TypeOK
    <2> QED
      BY <1>1, <2>1, ZeroFacts DEF SeriesOf
  <1>4. snaps' = snaps /\ exposed' = exposed
    BY DEF scrape
  <1>5. NoLess(s, t) /\ Behind(exposed[k], s) /\ Snapped(n, snaps[k], exposed[k], s)
    BY <1>1 DEF Scraped
  <1>6. Behind(exposed[k], t) /\ Snapped(n, snaps[k], exposed[k], t)
    BY <1>2, <1>3, <1>5, GrowthKeeps
  <1>7. Behind(exposed[k], SeriesOf(k))' /\ Snapped(Done(k), snaps[k], exposed[k], SeriesOf(k))'
    <2>1. Behind(exposed'[k], SeriesOf(k)') /\ Snapped(Done(k)', snaps'[k], exposed'[k], SeriesOf(k)')
      BY <1>1, <1>4, <1>6
    <2> QED
      BY <2>1
  <1>8. IsHistogram(exposed[k])'
    BY <1>4 DEF Scraped, IsHistogram
  <1>9. (registry[k] = "none" => exposed[k] = Zero /\ snaps[k] = Zero)'
    BY <1>4 DEF Scraped
  <1> QED
    BY <1>7, <1>8, <1>9 DEF Scraped

LEMMA NoLessReflexive ==
    ASSUME NEW s \in Snapshot
    PROVE  NoLess(s, s)
  BY SnapshotFacts DEF NoLess

(* A step that only moves a request where no number depends on it.         *)
LEMMA QuietStep ==
    ASSUME MInv, TypeOK', Registered', Walked', UNCHANGED scrape,
           Same(Bucketed), Same(Counted), Same(Observed),
           \A k \in seriesKey : /\ SeriesOf(k)' = SeriesOf(k) /\ Done(k)' = Done(k)
                                /\ registry'[k] = "none" => registry[k] = "none"
    PROVE  MInv'
  <1>1. ASSUME NEW k \in seriesKey PROVE Exact(k)' /\ Scraped(k)'
    <2>1. TypeOK /\ Exact(k) /\ Scraped(k)
      BY DEF MInv
    <2>2. Exact(k)'
      BY <2>1, ExactKept
    <2>3. NoLess(SeriesOf(k), SeriesOf(k)')
      BY <2>1, TypeFacts, NoLessReflexive
    <2> QED
      BY <2>1, <2>2, <2>3, ScrapedKept
  <1> QED
    BY <1>1 DEF MInv

(* A request joins those in P.                                             *)
Joins(r, P) ==
    /\ pc[r] \notin P /\ pc'[r] \in P
    /\ \A x \in Requests : x # r => pc'[x] = pc[x]
    /\ UNCHANGED <<key, seconds>>

LEMMA JoinPast ==
    ASSUME NEW P, NEW r \in Requests, Joins(r, P), NEW k
    PROVE  /\ r \notin Past(k, P)
           /\ Past(k, P)' = IF k = key[r] THEN Past(k, P) \cup {r} ELSE Past(k, P)
  BY DEF Joins, Past

-----------------------------------------------------------------------------
(* The actions of a request *)

(* Nothing refers to a request that has not registered or found a series.  *)
LEMMA UnsettledFacts ==
    ASSUME TypeOK, Registered, Walked, NEW r \in Requests, pc[r] \notin Settled
    PROVE  /\ \A k \in seriesKey : registry[k] # r
           /\ r \notin live /\ series[r] = Zero
  <1>1. \A k \in seriesKey : registry[k] # r
    BY DEF Registered, NameAssumption
  <1>2. key[r] \in seriesKey
    BY TypeFacts
  <1> QED
    BY <1>1, <1>2 DEF Registered, Walked

LEMMA DoneKept ==
    ASSUME UNCHANGED <<registry, scrape>>
    PROVE  \A k : Done(k)' = Done(k)
  BY DEF Done, scrape

LEMMA SeriesKept ==
    ASSUME UNCHANGED <<registry, series>>
    PROVE  \A k : SeriesOf(k)' = SeriesOf(k)
  BY DEF SeriesOf

LEMMA ServedKeeps ==
    ASSUME MInv, NEW r \in Requests, Served(r) \/ HandlerPanics(r)
    PROVE  MInv'
  <1>1. TypeOK /\ Registered /\ Walked
    BY DEF MInv
  <1>2. UNCHANGED <<registry, series, mine, old, scrape>> /\ pc[r] = "idle"
    BY DEF Served, HandlerPanics
  <1>3. /\ pc' \in [Requests -> {"idle", "panicked", "lookup", "create", "bucket", "load", "swap",
                                "count", "observed"}]
        /\ pc'[r] \in {"lookup", "panicked"}
        /\ \A x \in Requests : x # r => pc'[x] = pc[x]
    BY <1>1 DEF TypeOK, Served, HandlerPanics
  <1>4. /\ key' \in [Requests -> seriesKey]
        /\ \A x \in Requests : x # r => key'[x] = key[x]
    <2>1. CASE HandlerPanics(r)
      BY <1>1, <2>1 DEF TypeOK, HandlerPanics
    <2>2. CASE Served(r)
      <3>1. PICK m \in Methods, c \in Codes : key' = [key EXCEPT ![r] = <<normalizeMethod(m), c>>]
        BY <2>2 DEF Served
      <3>2. <<normalizeMethod(m), c>> \in seriesKey
        BY DEF normalizeMethod, seriesKey
      <3> QED
        BY <1>1, <3>1, <3>2 DEF TypeOK
    <2> QED BY <2>1, <2>2
  <1>5. /\ seconds' \in [Requests -> Latencies \cup {0}]
        /\ \A x \in Requests : x # r => seconds'[x] = seconds[x]
    <2>1. seconds \in [Requests -> Latencies \cup {0}]
      BY <1>1 DEF TypeOK
    <2>2. CASE HandlerPanics(r)
      BY <2>1, <2>2 DEF HandlerPanics
    <2>3. CASE Served(r)
      <3>1. PICK v \in Latencies : seconds' = [seconds EXCEPT ![r] = v]
        BY <2>3 DEF Served
      <3> QED
        BY <2>1, <3>1
    <2> QED BY <2>2, <2>3
  <1>6. TypeOK'
    BY <1>1, <1>2, <1>3, <1>4, <1>5 DEF TypeOK, scrape
  <1>7. /\ \A k \in seriesKey : registry[k] # r
        /\ r \notin live /\ series[r] = Zero
    BY <1>1, <1>2, UnsettledFacts DEF Settled
  <1>8. Registered'
    <2>1. pc'[r] \notin Settled
      BY <1>3 DEF Settled
    <2>2. \A k \in seriesKey : registry[k] # "none" => key'[registry[k]] = k /\ pc'[registry[k]] \in Settled
      <3>1. \A k \in seriesKey : registry[k] # "none" => registry[k] \in Requests
        BY <1>1, TypeFacts
      <3> QED
        BY <1>1, <1>3, <1>4, <1>7, <3>1 DEF Registered
    <2>3. \A x \in Requests : pc'[x] \in Settled =>
             registry[key'[x]] # "none" /\ mine[x] = registry[key'[x]]
      BY <1>1, <1>3, <1>4, <2>1 DEF Registered
    <2>4. \A x \in Requests : registry[key'[x]] # x => series[x] = Zero
      BY <1>1, <1>4, <1>7 DEF Registered
    <2> QED
      BY <1>2, <2>2, <2>3, <2>4 DEF Registered
  <1>9. Walked'
    <2>1. live \subseteq Requests
      BY <1>1 DEF TypeOK
    <2> QED
      BY <1>1, <1>2, <1>4, <1>7, <2>1 DEF Walked, scrape
  <1>10. ASSUME NEW P, "idle" \notin P, "lookup" \notin P, "panicked" \notin P PROVE Same(P)
    BY <1>2, <1>3, <1>4, <1>5, <1>10 DEF Same
  <1>11. Same(Bucketed) /\ Same(Counted) /\ Same(Observed)
    BY <1>10 DEF Bucketed, Counted, Observed
  <1>12. \A k \in seriesKey : /\ SeriesOf(k)' = SeriesOf(k) /\ Done(k)' = Done(k)
                              /\ registry'[k] = "none" => registry[k] = "none"
    BY <1>2, DoneKept, SeriesKept
  <1> QED
    BY <1>2, <1>6, <1>8, <1>9, <1>11, <1>12, QuietStep

LEMMA LookupKeeps ==
    ASSUME MInv, NEW r \in Requests, observe(r)
    PROVE  MInv'
  <1>1. TypeOK /\ Registered /\ Walked
    BY DEF MInv
  <1>2. UNCHANGED <<registry, series, key, seconds, old, scrape>> /\ pc[r] = "lookup"
    BY DEF observe
  <1>3. key[r] \in seriesKey /\ registry[key[r]] \in Requests \cup {"none"}
    BY <1>1, TypeFacts
  <1>4. /\ mine' \in [Requests -> Requests \cup {"none"}] /\ mine'[r] = registry[key[r]]
        /\ \A x \in Requests : x # r => mine'[x] = mine[x]
    BY <1>1, <1>3 DEF TypeOK, observe
  <1>5. /\ pc' \in [Requests -> {"idle", "panicked", "lookup", "create", "bucket", "load", "swap",
                                "count", "observed"}]
        /\ pc'[r] = IF registry[key[r]] = "none" THEN "create" ELSE "bucket"
        /\ \A x \in Requests : x # r => pc'[x] = pc[x]
    BY <1>1 DEF TypeOK, observe
  <1>6. TypeOK'
    BY <1>1, <1>2, <1>4, <1>5 DEF TypeOK, scrape
  <1>7. Registered'
    <2>1. pc'[r] \in Settled => registry[key[r]] # "none"
      BY <1>5 DEF Settled
    <2>2. \A x \in Requests : pc[x] \in Settled => pc'[x] \in Settled
      BY <1>2, <1>5 DEF Settled
    <2>3. \A k \in seriesKey : registry[k] # "none" => key[registry[k]] = k /\ pc'[registry[k]] \in Settled
      <3>1. \A k \in seriesKey : registry[k] # "none" => registry[k] \in Requests
        BY <1>1, TypeFacts
      <3> QED
        BY <1>1, <2>2, <3>1 DEF Registered
    <2>4. \A x \in Requests : pc'[x] \in Settled =>
             registry[key[x]] # "none" /\ mine'[x] = registry[key[x]]
      BY <1>1, <1>4, <1>5, <2>1 DEF Registered
    <2> QED
      BY <1>1, <1>2, <2>3, <2>4 DEF Registered
  <1>8. Walked'
    BY <1>1, <1>2 DEF Walked, scrape
  <1>9. ASSUME NEW P, "lookup" \notin P, "create" \notin P, "bucket" \notin P PROVE Same(P)
    BY <1>2, <1>5, <1>9 DEF Same
  <1>10. Same(Bucketed) /\ Same(Counted) /\ Same(Observed)
    BY <1>9 DEF Bucketed, Counted, Observed
  <1>11. \A k \in seriesKey : /\ SeriesOf(k)' = SeriesOf(k) /\ Done(k)' = Done(k)
                              /\ registry'[k] = "none" => registry[k] = "none"
    BY <1>2, DoneKept, SeriesKept
  <1> QED
    BY <1>2, <1>6, <1>7, <1>8, <1>10, <1>11, QuietStep

LEMMA SumLoopKeeps ==
    ASSUME MInv, NEW r \in Requests, LoadSum(r) \/ SwapFails(r)
    PROVE  MInv'
  <1>1. TypeOK /\ Registered /\ Walked
    BY DEF MInv
  <1>2. UNCHANGED <<registry, series, key, seconds, mine, scrape>> /\ pc[r] \in {"load", "swap"}
    BY DEF LoadSum, SwapFails
  <1>3. old' \in [Requests -> Nat]
    <2>1. mine[r] \in Requests
      BY <1>1, <1>2, MineFacts DEF Settled
    <2>2. series[mine[r]].sum \in Nat
      BY <1>1, <2>1, TypeFacts, SnapshotFacts
    <2> QED
      BY <1>1, <2>2 DEF TypeOK, LoadSum, SwapFails
  <1>4. /\ pc' \in [Requests -> {"idle", "panicked", "lookup", "create", "bucket", "load", "swap",
                                "count", "observed"}]
        /\ pc'[r] \in {"load", "swap"}
        /\ \A x \in Requests : x # r => pc'[x] = pc[x]
    BY <1>1 DEF TypeOK, LoadSum, SwapFails
  <1>5. TypeOK'
    BY <1>1, <1>2, <1>3, <1>4 DEF TypeOK, scrape
  <1>6. \A x \in Requests : pc[x] \in Settled <=> pc'[x] \in Settled
    BY <1>2, <1>4 DEF Settled
  <1>7. Registered'
    <2>1. \A k \in seriesKey : registry[k] # "none" => registry[k] \in Requests
      BY <1>1, TypeFacts
    <2> QED
      BY <1>1, <1>2, <1>6, <2>1 DEF Registered
  <1>8. Walked'
    BY <1>1, <1>2 DEF Walked, scrape
  <1>9. ASSUME NEW P, "load" \in P <=> "swap" \in P PROVE Same(P)
    BY <1>2, <1>4, <1>9 DEF Same
  <1>10. Same(Bucketed) /\ Same(Counted) /\ Same(Observed)
    BY <1>9 DEF Bucketed, Counted, Observed
  <1>11. \A k \in seriesKey : /\ SeriesOf(k)' = SeriesOf(k) /\ Done(k)' = Done(k)
                              /\ registry'[k] = "none" => registry[k] = "none"
    BY <1>2, DoneKept, SeriesKept
  <1> QED
    BY <1>2, <1>5, <1>7, <1>8, <1>10, <1>11, QuietStep

LEMMA NewSeriesKeeps ==
    ASSUME MInv, NEW r \in Requests, newSeries(r)
    PROVE  MInv'
  <1>1. TypeOK /\ Registered /\ Walked
    BY DEF MInv
  <1>2. UNCHANGED <<series, key, seconds, old, scrape>> /\ pc[r] = "create"
    BY DEF newSeries
  <1>3. PICK c, w : c = key[r] /\ w = Winner(r)
    OBVIOUS
  <1>4. c \in seriesKey /\ registry[c] \in Requests \cup {"none"}
    BY <1>1, <1>3, TypeFacts
  <1>5. w \in Requests /\ w # "none" /\ (registry[c] # "none" => w = registry[c])
        /\ (registry[c] = "none" => w = r)
    BY <1>3, <1>4 DEF Winner, NameAssumption
  <1>6. /\ registry' \in [seriesKey -> Requests \cup {"none"}] /\ registry'[c] = w
        /\ \A k \in seriesKey : k # c => registry'[k] = registry[k]
    BY <1>1, <1>3, <1>4, <1>5 DEF TypeOK, newSeries
  <1>7. /\ mine' \in [Requests -> Requests \cup {"none"}] /\ mine'[r] = w
        /\ \A x \in Requests : x # r => mine'[x] = mine[x]
    BY <1>1, <1>3, <1>5 DEF TypeOK, newSeries
  <1>8. /\ pc' \in [Requests -> {"idle", "panicked", "lookup", "create", "bucket", "load", "swap",
                                "count", "observed"}]
        /\ pc'[r] = "bucket"
        /\ \A x \in Requests : x # r => pc'[x] = pc[x]
    BY <1>1 DEF TypeOK, newSeries
  <1>9. TypeOK'
    BY <1>1, <1>2, <1>6, <1>7, <1>8 DEF TypeOK, scrape
  <1>10. \A k \in seriesKey : registry[k] # "none" => registry'[k] = registry[k] /\ registry[k] \in Requests
    <2>1. \A k \in seriesKey : registry[k] # "none" => registry[k] \in Requests
      BY <1>1, TypeFacts
    <2> QED
      BY <1>5, <1>6, <2>1
  <1>11. \A k \in seriesKey : registry'[k] = registry[k] \/ (k = c /\ registry[k] = "none" /\ registry'[k] = r)
    BY <1>5, <1>6
  <1>12. /\ \A k \in seriesKey : registry[k] # r
         /\ r \notin live /\ series[r] = Zero
    BY <1>1, <1>2, UnsettledFacts DEF Settled
  <1>13. \A x \in Requests : key[x] \in seriesKey
    BY <1>1, TypeFacts
  <1>14. \A x \in Requests : pc[x] \in Settled => pc'[x] \in Settled
    BY <1>8 DEF Settled
  <1>15. pc'[r] \in Settled /\ \A x \in Requests : x # r /\ pc'[x] \in Settled => pc[x] \in Settled
    BY <1>8 DEF Settled
  <1>16. Registered'
    <2>1. \A k \in seriesKey : registry'[k] # "none" => key[registry'[k]] = k /\ pc'[registry'[k]] \in Settled
      <3> SUFFICES ASSUME NEW k \in seriesKey, registry'[k] # "none"
                   PROVE  key[registry'[k]] = k /\ pc'[registry'[k]] \in Settled
        OBVIOUS
      <3>1. CASE registry[k] # "none"
        BY <1>1, <1>10, <1>14, <3>1 DEF Registered
      <3>2. CASE registry[k] = "none"
        BY <1>3, <1>11, <1>15, <3>2
      <3> QED BY <3>1, <3>2
    <2>2. \A x \in Requests : pc'[x] \in Settled =>
             registry'[key[x]] # "none" /\ mine'[x] = registry'[key[x]]
      <3> SUFFICES ASSUME NEW x \in Requests, pc'[x] \in Settled
                   PROVE  registry'[key[x]] # "none" /\ mine'[x] = registry'[key[x]]
        OBVIOUS
      <3>1. CASE x = r
        BY <1>3, <1>5, <1>6, <1>7, <3>1
      <3>2. CASE x # r
        <4>1. registry[key[x]] # "none" /\ mine[x] = registry[key[x]]
          BY <1>1, <1>15, <3>2 DEF Registered
        <4> QED
          BY <1>7, <1>10, <1>13, <3>2, <4>1
      <3> QED BY <3>1, <3>2
    <2>3. \A x \in Requests : registry'[key[x]] # x => series[x] = Zero
      <3> SUFFICES ASSUME NEW x \in Requests, registry'[key[x]] # x PROVE series[x] = Zero
        OBVIOUS
      <3>1. registry[key[x]] # x
        BY <1>10, <1>13 DEF NameAssumption
      <3> QED
        BY <1>1, <3>1 DEF Registered
    <2> QED
      BY <1>2, <2>1, <2>2, <2>3 DEF Registered
  <1>17. Walked'
    <2>1. live \subseteq Requests
      BY <1>1 DEF TypeOK
    <2>2. \A x \in live : registry[key[x]] = x /\ registry'[key[x]] = registry[key[x]]
      BY <1>1, <1>10, <1>13, <2>1 DEF Walked, NameAssumption
    <2> QED
      BY <1>1, <1>2, <2>2 DEF Walked, scrape
  <1>18. ASSUME NEW P, "create" \notin P, "bucket" \notin P PROVE Same(P)
    BY <1>2, <1>8, <1>18 DEF Same
  <1>19. Same(Bucketed) /\ Same(Counted) /\ Same(Observed)
    BY <1>18 DEF Bucketed, Counted, Observed
  <1>20. ASSUME NEW k \in seriesKey
         PROVE  /\ SeriesOf(k)' = SeriesOf(k) /\ Done(k)' = Done(k)
                /\ registry'[k] = "none" => registry[k] = "none"
    <2>1. registry'[k] = "none" => registry[k] = "none"
      BY <1>10
    <2>2. SeriesOf(k)' = SeriesOf(k)
      <3>1. CASE registry'[k] = registry[k]
        BY <1>2, <3>1 DEF SeriesOf
      <3>2. CASE registry[k] = "none" /\ registry'[k] = r
        BY <1>2, <1>12, <3>2 DEF SeriesOf, NameAssumption
      <3> QED BY <1>11, <3>1, <3>2
    <2>3. registry'[k] \in live <=> registry[k] \in live
      <3>1. "none" \notin live
        BY <1>1 DEF TypeOK, NameAssumption
      <3> QED
        BY <1>11, <1>12, <3>1
    <2>4. registry[k] \in live => registry'[k] = registry[k]
      BY <1>1, <1>10 DEF TypeOK, NameAssumption
    <2>5. Done(k)' = Done(k)
      BY <1>2, <2>3, <2>4 DEF Done, scrape
    <2> QED
      BY <2>1, <2>2, <2>5
  <1> QED
    BY <1>2, <1>9, <1>16, <1>17, <1>19, <1>20, QuietStep

LEMMA SeriesGrows ==
    ASSUME TypeOK, Registered, NEW r \in Requests, pc[r] \in Settled,
           NEW t, series' = [series EXCEPT ![mine[r]] = t], registry' = registry
    PROVE  \A k \in seriesKey : SeriesOf(k)' = IF k = key[r] THEN t ELSE SeriesOf(k)
  <1>1. /\ mine[r] \in Requests /\ key[r] \in seriesKey
        /\ registry[key[r]] = mine[r] /\ key[mine[r]] = key[r]
        /\ \A k \in seriesKey : k # key[r] => registry[k] # mine[r]
    BY MineFacts
  <1>2. series'[mine[r]] = t /\ \A x \in Requests : x # mine[r] => series'[x] = series[x]
    BY <1>1 DEF TypeOK
  <1>3. ASSUME NEW k \in seriesKey PROVE SeriesOf(k)' = IF k = key[r] THEN t ELSE SeriesOf(k)
    <2>1. CASE k = key[r]
      BY <1>1, <1>2, <2>1 DEF SeriesOf, NameAssumption
    <2>2. CASE k # key[r]
      <3>1. registry[k] # mine[r] /\ registry[k] \in Requests \cup {"none"}
        BY <1>1, <2>2, TypeFacts
      <3> QED
        BY <1>2, <2>2, <3>1 DEF SeriesOf
    <2> QED BY <2>1, <2>2
  <1> QED
    BY <1>3

(* A step of a request that adds to the series of its key.                 *)
LEMMA GrowingStep ==
    ASSUME MInv, NEW r \in Requests, pc[r] \in Settled, pc'[r] \in Settled,
           pc' \in [Requests -> {"idle", "panicked", "lookup", "create", "bucket", "load", "swap",
                                "count", "observed"}],
           \A x \in Requests : x # r => pc'[x] = pc[x],
           NEW t \in Snapshot, series' = [series EXCEPT ![mine[r]] = t],
           NoLess(series[mine[r]], t), old' \in [Requests -> Nat],
           UNCHANGED <<registry, key, seconds, mine, scrape>>,
           \A k \in seriesKey : Exact(k)'
    PROVE  MInv'
  <1>1. TypeOK /\ Registered /\ Walked
    BY DEF MInv
  <1>2. /\ mine[r] \in Requests /\ key[r] \in seriesKey
        /\ registry[key[r]] = mine[r] /\ key[mine[r]] = key[r]
        /\ SeriesOf(key[r]) = series[mine[r]]
        /\ \A k \in seriesKey : k # key[r] => registry[k] # mine[r]
    BY <1>1, MineFacts
  <1>3. /\ series' \in [Requests -> Snapshot] /\ series'[mine[r]] = t
        /\ \A x \in Requests : x # mine[r] => series'[x] = series[x]
    BY <1>1, <1>2 DEF TypeOK
  <1>4. TypeOK'
    BY <1>1, <1>3 DEF TypeOK, scrape
  <1>5. Registered'
    <2>1. \A k \in seriesKey : registry[k] # "none" => registry[k] \in Requests
      BY <1>1, TypeFacts
    <2>2. \A x \in Requests : pc[x] \in Settled <=> pc'[x] \in Settled
      OBVIOUS
    <2>3. \A x \in Requests : registry[key[x]] # x => series'[x] = Zero
      BY <1>1, <1>2, <1>3 DEF Registered
    <2> QED
      BY <1>1, <2>1, <2>2, <2>3 DEF Registered
  <1>6. Walked'
    BY <1>1 DEF Walked, scrape
  <1>7. ASSUME NEW k \in seriesKey PROVE NoLess(SeriesOf(k), SeriesOf(k)')
    <2>1. SeriesOf(k)' = IF k = key[r] THEN t ELSE SeriesOf(k)
      BY <1>1, SeriesGrows
    <2>2. CASE k = key[r]
      BY <1>2, <2>1, <2>2
    <2>3. CASE k # key[r]
      BY <1>1, <2>1, <2>3, TypeFacts, NoLessReflexive
    <2> QED BY <2>2, <2>3
  <1>8. ASSUME NEW k \in seriesKey PROVE Scraped(k)'
    <2>1. Scraped(k)
      BY DEF MInv
    <2>2. Done(k)' = Done(k)
      BY DoneKept
    <2> QED
      BY <1>1, <1>4, <1>7, <2>1, <2>2, ScrapedKept
  <1> QED
    BY <1>4, <1>5, <1>6, <1>8 DEF MInv

(* The atomic adds to one series.                                          *)
MoreIn(s, j) == [s EXCEPT !.buckets[j] = s.buckets[j] + 1]

LEMMA BucketAdded ==
    ASSUME NEW s \in Snapshot, NEW j \in Slots, NEW t, t = MoreIn(s, j)
    PROVE  /\ t \in Snapshot /\ t.sum = s.sum /\ t.count = s.count
           /\ t.buckets[j] = s.buckets[j] + 1
           /\ \A i \in Slots : i # j => t.buckets[i] = s.buckets[i]
           /\ NoLess(s, t)
  <1>1. s.sum \in Nat /\ s.count \in Nat /\ \A i \in Slots : s.buckets[i] \in Nat
    BY SnapshotFacts
  <1>2. PICK n : n = s.buckets[j] + 1
    OBVIOUS
  <1>3. n \in Nat /\ s.buckets[j] <= n
    BY <1>1, <1>2
  <1>4. t = [s EXCEPT !.buckets[j] = n]
    BY <1>2 DEF MoreIn
  <1>5. /\ t \in Snapshot /\ t.sum = s.sum /\ t.count = s.count
        /\ t.buckets[j] = n /\ \A i \in Slots : i # j => t.buckets[i] = s.buckets[i]
    BY <1>3, <1>4 DEF Snapshot
  <1>6. \A i \in Slots : s.buckets[i] <= t.buckets[i]
    BY <1>1, <1>3, <1>5
  <1> QED
    BY <1>1, <1>2, <1>5, <1>6 DEF NoLess

LEMMA SumAdded ==
    ASSUME NEW s \in Snapshot, NEW v \in Nat, NEW t, t = [s EXCEPT !.sum = s.sum + v]
    PROVE  /\ t \in Snapshot /\ t.sum = s.sum + v /\ t.count = s.count /\ t.buckets = s.buckets
           /\ NoLess(s, t)
  <1>1. s.sum \in Nat /\ s.count \in Nat /\ \A i \in Slots : s.buckets[i] \in Nat
    BY SnapshotFacts
  <1>2. t \in Snapshot /\ t.sum = s.sum + v /\ t.count = s.count /\ t.buckets = s.buckets
    <2>1. PICK n \in Nat : n = s.sum + v
      BY <1>1
    <2>2. t = [s EXCEPT !.sum = n]
      BY <2>1
    <2> QED
      BY <2>1, <2>2 DEF Snapshot
  <1> QED
    BY <1>1, <1>2 DEF NoLess

LEMMA CountAdded ==
    ASSUME NEW s \in Snapshot, NEW t, t = [s EXCEPT !.count = @ + 1]
    PROVE  /\ t \in Snapshot /\ t.sum = s.sum /\ t.count = s.count + 1 /\ t.buckets = s.buckets
           /\ NoLess(s, t)
  <1>1. s.sum \in Nat /\ s.count \in Nat /\ \A i \in Slots : s.buckets[i] \in Nat
    BY SnapshotFacts
  <1>2. t \in Snapshot /\ t.sum = s.sum /\ t.count = s.count + 1 /\ t.buckets = s.buckets
    <2>1. PICK n \in Nat : n = s.count + 1
      BY <1>1
    <2>2. t = [s EXCEPT !.count = n]
      BY <2>1
    <2> QED
      BY <2>1, <2>2 DEF Snapshot
  <1> QED
    BY <1>1, <1>2 DEF NoLess

LEMMA AddBucketKeeps ==
    ASSUME MInv, NEW r \in Requests, AddBucket(r)
    PROVE  MInv'
  <1>1. TypeOK /\ Registered
    BY DEF MInv
  <1>2. UNCHANGED <<registry, key, seconds, mine, old, scrape>> /\ pc[r] = "bucket"
    BY DEF AddBucket
  <1>3. /\ pc' \in [Requests -> {"idle", "panicked", "lookup", "create", "bucket", "load", "swap",
                                "count", "observed"}]
        /\ pc'[r] = "load"
        /\ \A x \in Requests : x # r => pc'[x] = pc[x]
    BY <1>1 DEF TypeOK, AddBucket
  <1>4. pc[r] \in Settled /\ pc'[r] \in Settled
    BY <1>2, <1>3 DEF Settled
  <1>5. PICK s, j : s = series[mine[r]] /\ j = bucketIndex(seconds[r])
    OBVIOUS
  <1>6. PICK t : t = MoreIn(s, j)
    OBVIOUS
  <1>7. /\ mine[r] \in Requests /\ key[r] \in seriesKey /\ SeriesOf(key[r]) = s
        /\ s \in Snapshot /\ j \in Slots
    BY <1>1, <1>4, <1>5, MineFacts, TypeFacts
  <1>8. series' = [series EXCEPT ![mine[r]] = t]
    BY <1>1, <1>5, <1>6, <1>7 DEF AddBucket, TypeOK, MoreIn
  <1>9. /\ t \in Snapshot /\ t.sum = s.sum /\ t.count = s.count
        /\ t.buckets[j] = s.buckets[j] + 1
        /\ \A i \in Slots : i # j => t.buckets[i] = s.buckets[i]
        /\ NoLess(s, t)
    BY <1>6, <1>7, BucketAdded
  <1>10. Joins(r, Bucketed) /\ Same(Counted) /\ Same(Observed)
    <2>1. Joins(r, Bucketed)
      BY <1>2, <1>3 DEF Joins, Bucketed
    <2>2. ASSUME NEW P, "bucket" \notin P, "load" \notin P PROVE Same(P)
      BY <1>2, <1>3, <2>2 DEF Same
    <2> QED
      BY <2>1, <2>2 DEF Counted, Observed
  <1>11. \A k \in seriesKey : SeriesOf(k)' = IF k = key[r] THEN t ELSE SeriesOf(k)
    BY <1>1, <1>2, <1>4, <1>8, SeriesGrows
  <1>12. ASSUME NEW k \in seriesKey PROVE Exact(k)'
    <2>1. Exact(k)
      BY DEF MInv
    <2>2. SeriesOf(k)'.count = SeriesOf(k).count /\ SeriesOf(k)'.sum = SeriesOf(k).sum
      BY <1>7, <1>9, <1>11
    <2>3. (SeriesOf(k).count = Cardinality(Past(k, {"observed"})))'
      BY <1>10, <2>1, <2>2, SameCount DEF Exact
    <2>4. (SeriesOf(k).sum = Sum(seconds, Past(k, {"count", "observed"})))'
      BY <1>1, <1>10, <2>1, <2>2, SameSum DEF Exact
    <2>5. ASSUME NEW i \in Slots PROVE SeriesOf(k)'.buckets[i] = Cardinality(InSlot(k, i)')
      <3>1. SeriesOf(k).buckets[i] = Cardinality(InSlot(k, i))
        BY <2>1 DEF Exact
      <3>2. r \notin InSlot(k, i) /\ IsFiniteSet(InSlot(k, i))
        <4>1. r \notin Past(k, Bucketed)
          BY <1>10, JoinPast
        <4>2. IsFiniteSet(Past(k, Bucketed))
          BY PastFinite
        <4>3. InSlot(k, i) \in SUBSET Past(k, Bucketed)
          BY DEF InSlot
        <4> QED
          BY <4>1, <4>2, <4>3, FS_Subset
      <3>3. Past(k, Bucketed)' = IF k = key[r] THEN Past(k, Bucketed) \cup {r} ELSE Past(k, Bucketed)
        BY <1>10, JoinPast
      <3>4. CASE k = key[r] /\ i = j
        <4>1. InSlot(k, i)' = InSlot(k, i) \cup {r}
          BY <1>2, <1>5, <3>3, <3>4 DEF InSlot
        <4>2. Cardinality(InSlot(k, i) \cup {r}) = Cardinality(InSlot(k, i)) + 1
          BY <3>2, FS_AddElement
        <4>3. SeriesOf(k)'.buckets[i] = SeriesOf(k).buckets[i] + 1
          BY <1>7, <1>9, <1>11, <3>4
        <4> QED
          BY <3>1, <4>1, <4>2, <4>3
      <3>5. CASE ~(k = key[r] /\ i = j)
        <4>1. InSlot(k, i)' = InSlot(k, i)
          BY <1>2, <1>5, <3>3, <3>5 DEF InSlot
        <4>2. SeriesOf(k)'.buckets[i] = SeriesOf(k).buckets[i]
          BY <1>7, <1>9, <1>11, <3>5
        <4> QED
          BY <3>1, <4>1, <4>2
      <3> QED BY <3>4, <3>5
    <2> QED
      BY <2>3, <2>4, <2>5 DEF Exact
  <1>13. old' \in [Requests -> Nat]
    BY <1>1, <1>2 DEF TypeOK
  <1> QED
    BY <1>2, <1>3, <1>4, <1>5, <1>8, <1>9, <1>12, <1>13, GrowingStep

LEMMA SwapSumKeeps ==
    ASSUME MInv, NEW r \in Requests, SwapSum(r)
    PROVE  MInv'
  <1>1. TypeOK /\ Registered
    BY DEF MInv
  <1>2. UNCHANGED <<registry, key, seconds, mine, scrape>> /\ pc[r] = "swap"
    BY DEF SwapSum
  <1>3. /\ pc' \in [Requests -> {"idle", "panicked", "lookup", "create", "bucket", "load", "swap",
                                "count", "observed"}]
        /\ pc'[r] = "count"
        /\ \A x \in Requests : x # r => pc'[x] = pc[x]
    BY <1>1 DEF TypeOK, SwapSum
  <1>4. pc[r] \in Settled /\ pc'[r] \in Settled
    BY <1>2, <1>3 DEF Settled
  <1>5. PICK s, v : s = series[mine[r]] /\ v = seconds[r]
    OBVIOUS
  <1>6. PICK t : t = [s EXCEPT !.sum = s.sum + v]
    OBVIOUS
  <1>7. /\ mine[r] \in Requests /\ key[r] \in seriesKey /\ SeriesOf(key[r]) = s
        /\ s \in Snapshot /\ v \in Nat /\ s.sum \in Nat
    BY <1>1, <1>4, <1>5, MineFacts, TypeFacts, SnapshotFacts
  <1>8. series' = [series EXCEPT ![mine[r]] = t]
    BY <1>1, <1>5, <1>6, <1>7 DEF SwapSum, Unchanged, TypeOK
  <1>9. t \in Snapshot /\ t.sum = s.sum + v /\ t.count = s.count /\ t.buckets = s.buckets
        /\ NoLess(s, t)
    BY <1>6, <1>7, SumAdded
  <1>10. Joins(r, Counted) /\ Same(Bucketed) /\ Same(Observed)
    <2>1. Joins(r, Counted)
      BY <1>2, <1>3 DEF Joins, Counted
    <2>2. ASSUME NEW P, "swap" \in P <=> "count" \in P PROVE Same(P)
      BY <1>2, <1>3, <2>2 DEF Same
    <2> QED
      BY <2>1, <2>2 DEF Bucketed, Observed
  <1>11. \A k \in seriesKey : SeriesOf(k)' = IF k = key[r] THEN t ELSE SeriesOf(k)
    BY <1>1, <1>2, <1>4, <1>8, SeriesGrows
  <1>12. ASSUME NEW k \in seriesKey PROVE Exact(k)'
    <2>1. Exact(k)
      BY DEF MInv
    <2>2. SeriesOf(k)'.count = SeriesOf(k).count /\ SeriesOf(k)'.buckets = SeriesOf(k).buckets
      BY <1>7, <1>9, <1>11
    <2>3. (SeriesOf(k).count = Cardinality(Past(k, {"observed"})))'
      BY <1>10, <2>1, <2>2, SameCount DEF Exact
    <2>4. (\A i \in Slots : SeriesOf(k).buckets[i] = Cardinality(InSlot(k, i)))'
      BY <1>10, <2>1, <2>2, SameBuckets DEF Exact
    <2>5. PICK R : R = Past(k, Counted)
      OBVIOUS
    <2>6. SeriesOf(k).sum = Sum(seconds, R)
      BY <2>1, <2>5 DEF Exact, Counted
    <2>7. r \notin R /\ Past(k, Counted)' = IF k = key[r] THEN R \cup {r} ELSE R
      BY <1>10, <2>5, JoinPast
    <2>8. IsFiniteSet(R) /\ Counts(seconds, R \cup {r})
      BY <1>1, <2>5, PastFinite, TypeFacts DEF Counts
    <2>9. Sum(seconds, R \cup {r}) = seconds[r] + Sum(seconds, R) /\ Sum(seconds, R) \in Nat
      <3>1. Counts(seconds, R)
        BY <2>8 DEF Counts
      <3> QED
        BY <2>7, <2>8, <3>1, SumAdd, SumType
    <2>10. SeriesOf(k)'.sum = Sum(seconds, Past(k, Counted)')
      <3>1. CASE k = key[r]
        BY <1>5, <1>7, <1>9, <1>11, <2>6, <2>7, <2>9, <3>1
      <3>2. CASE k # key[r]
        BY <1>11, <2>6, <2>7, <3>2
      <3> QED BY <3>1, <3>2
    <2>11. (SeriesOf(k).sum = Sum(seconds, Past(k, {"count", "observed"})))'
      BY <1>2, <2>10 DEF Counted
    <2> QED
      BY <2>3, <2>4, <2>11 DEF Exact
  <1>13. old' \in [Requests -> Nat]
    BY <1>1 DEF TypeOK, SwapSum
  <1> QED
    BY <1>2, <1>3, <1>4, <1>5, <1>8, <1>9, <1>12, <1>13, GrowingStep

LEMMA AddCountKeeps ==
    ASSUME MInv, NEW r \in Requests, AddCount(r)
    PROVE  MInv'
  <1>1. TypeOK /\ Registered
    BY DEF MInv
  <1>2. UNCHANGED <<registry, key, seconds, mine, old, scrape>> /\ pc[r] = "count"
    BY DEF AddCount
  <1>3. /\ pc' \in [Requests -> {"idle", "panicked", "lookup", "create", "bucket", "load", "swap",
                                "count", "observed"}]
        /\ pc'[r] = "observed"
        /\ \A x \in Requests : x # r => pc'[x] = pc[x]
    BY <1>1 DEF TypeOK, AddCount
  <1>4. pc[r] \in Settled /\ pc'[r] \in Settled
    BY <1>2, <1>3 DEF Settled
  <1>5. PICK s : s = series[mine[r]]
    OBVIOUS
  <1>6. PICK t : t = [s EXCEPT !.count = @ + 1]
    OBVIOUS
  <1>7. /\ mine[r] \in Requests /\ key[r] \in seriesKey /\ SeriesOf(key[r]) = s
        /\ s \in Snapshot
    BY <1>1, <1>4, <1>5, MineFacts, TypeFacts
  <1>8. series' = [series EXCEPT ![mine[r]] = t]
    BY <1>1, <1>5, <1>6, <1>7 DEF AddCount, TypeOK
  <1>9. t \in Snapshot /\ t.sum = s.sum /\ t.count = s.count + 1 /\ t.buckets = s.buckets
        /\ NoLess(s, t)
    BY <1>6, <1>7, CountAdded
  <1>10. Joins(r, Observed) /\ Same(Bucketed) /\ Same(Counted)
    <2>1. Joins(r, Observed)
      BY <1>2, <1>3 DEF Joins, Observed
    <2>2. ASSUME NEW P, "count" \in P, "observed" \in P PROVE Same(P)
      BY <1>2, <1>3, <2>2 DEF Same
    <2> QED
      BY <2>1, <2>2 DEF Bucketed, Counted
  <1>11. \A k \in seriesKey : SeriesOf(k)' = IF k = key[r] THEN t ELSE SeriesOf(k)
    BY <1>1, <1>2, <1>4, <1>8, SeriesGrows
  <1>12. ASSUME NEW k \in seriesKey PROVE Exact(k)'
    <2>1. Exact(k)
      BY DEF MInv
    <2>2. SeriesOf(k)'.sum = SeriesOf(k).sum /\ SeriesOf(k)'.buckets = SeriesOf(k).buckets
      BY <1>7, <1>9, <1>11
    <2>3. (SeriesOf(k).sum = Sum(seconds, Past(k, {"count", "observed"})))'
      BY <1>1, <1>10, <2>1, <2>2, SameSum DEF Exact
    <2>4. (\A i \in Slots : SeriesOf(k).buckets[i] = Cardinality(InSlot(k, i)))'
      BY <1>10, <2>1, <2>2, SameBuckets DEF Exact
    <2>5. PICK R : R = Past(k, Observed)
      OBVIOUS
    <2>6. SeriesOf(k).count = Cardinality(R)
      BY <2>1, <2>5 DEF Exact, Observed
    <2>7. r \notin R /\ Past(k, Observed)' = IF k = key[r] THEN R \cup {r} ELSE R
      BY <1>10, <2>5, JoinPast
    <2>8. Cardinality(R \cup {r}) = Cardinality(R) + 1
      BY <2>5, <2>7, PastFinite, FS_AddElement
    <2>9. SeriesOf(k)'.count = Cardinality(Past(k, Observed)')
      <3>1. CASE k = key[r]
        BY <1>7, <1>9, <1>11, <2>6, <2>7, <2>8, <3>1
      <3>2. CASE k # key[r]
        BY <1>11, <2>6, <2>7, <3>2
      <3> QED BY <3>1, <3>2
    <2>10. (SeriesOf(k).count = Cardinality(Past(k, {"observed"})))'
      BY <2>9 DEF Observed
    <2> QED
      BY <2>3, <2>4, <2>10 DEF Exact
  <1>13. old' \in [Requests -> Nat]
    BY <1>1, <1>2 DEF TypeOK
  <1> QED
    BY <1>2, <1>3, <1>4, <1>5, <1>8, <1>9, <1>12, <1>13, GrowingStep

-----------------------------------------------------------------------------
(* The buckets cumulated *)

UpTo(k, i) == {r \in Past(k, Bucketed) : bucketIndex(seconds[r]) <= i}

LEMMA CumulatedStep ==
    ASSUME TypeOK, NEW k \in seriesKey, Exact(k), NEW i \in Nat, i + 1 \in Slots,
           Sum(SeriesOf(k).buckets, 1..i) = Cardinality(UpTo(k, i))
    PROVE  Sum(SeriesOf(k).buckets, 1..(i + 1)) = Cardinality(UpTo(k, i + 1))
  <1>1. PICK s, b : s = SeriesOf(k) /\ b = SeriesOf(k).buckets
    OBVIOUS
  <1>2. s \in Snapshot
    BY <1>1, TypeFacts
  <1>3. PICK S, T : S = UpTo(k, i) /\ T = InSlot(k, i + 1)
    OBVIOUS
  <1>4. \A r \in Past(k, Bucketed) : bucketIndex(seconds[r]) \in Nat
    BY TypeFacts, LadderFacts DEF Past
  <1>5. UpTo(k, i + 1) = S \cup T /\ S \cap T = {}
    BY <1>3, <1>4 DEF UpTo, InSlot
  <1>6. IsFiniteSet(S) /\ IsFiniteSet(T)
    <2>1. S \in SUBSET Past(k, Bucketed) /\ T \in SUBSET Past(k, Bucketed)
      BY <1>3 DEF UpTo, InSlot
    <2> QED
      BY <2>1, PastFinite, FS_Subset
  <1>7. Cardinality(S) \in Nat /\ Cardinality(T) \in Nat
    BY <1>6, FS_CardinalityType
  <1>8. Cardinality(S \cup T) = Cardinality(S) + Cardinality(T)
    <2>1. Cardinality(S \cup T) = Cardinality(S) + Cardinality(T) - Cardinality(S \cap T)
      BY <1>6, FS_Union
    <2>2. Cardinality(S \cap T) = 0
      BY <1>5, FS_EmptySet
    <2> QED
      BY <1>7, <2>1, <2>2
  <1>9. Sum(b, 1..(i + 1)) = b[i + 1] + Sum(b, 1..i)
    <2>1. PICK R, x : R = 1..i /\ x = i + 1
      OBVIOUS
    <2>2. R \cup {x} = 1..(i + 1) /\ x \notin R /\ R \cup {x} \in SUBSET Slots
      BY <2>1, LadderFacts
    <2>3. IsFiniteSet(R)
      <3>1. 1 \in Int /\ i \in Int
        OBVIOUS
      <3> QED
        BY <2>1, <3>1, FS_Interval
    <2>4. Counts(b, R \cup {x})
      BY <1>1, <1>2, <2>2, SnapshotFacts
    <2>5. Sum(b, R \cup {x}) = b[x] + Sum(b, R)
      BY <2>2, <2>3, <2>4, SumAdd
    <2> QED
      BY <2>1, <2>2, <2>5
  <1>10. b[i + 1] = Cardinality(T)
    BY <1>1, <1>3 DEF Exact
  <1>11. Sum(b, 1..i) = Cardinality(S)
    BY <1>1, <1>3
  <1>12. Sum(b, 1..(i + 1)) = Cardinality(S \cup T)
    <2>1. PICK m, n : m = Cardinality(S) /\ n = Cardinality(T)
      OBVIOUS
    <2>2. Sum(b, 1..(i + 1)) = n + m /\ Cardinality(S \cup T) = m + n
      BY <1>8, <1>9, <1>10, <1>11, <2>1
    <2> QED
      BY <1>7, <2>1, <2>2
  <1> QED
    BY <1>1, <1>5, <1>12

LEMMA Cumulated ==
    ASSUME TypeOK, NEW k \in seriesKey, Exact(k)
    PROVE  \A i \in 0..Inf : Sum(SeriesOf(k).buckets, 1..i) = Cardinality(UpTo(k, i))
  <1> DEFINE Bad == {i \in 0..Inf : Sum(SeriesOf(k).buckets, 1..i) # Cardinality(UpTo(k, i))}
  <1>1. SUFFICES ASSUME Bad # {} PROVE FALSE
    OBVIOUS
  <1>2. PICK i \in Bad : \A j \in Bad : i <= j
    <2>1. Bad \subseteq Nat
      OBVIOUS
    <2> HIDE DEF Bad
    <2> QED
      BY <1>1, <2>1, LeastIndex
  <1>3. CASE i = 0
    <2>1. PICK b : b = SeriesOf(k).buckets
      OBVIOUS
    <2>2. 1..0 = {} /\ IsFiniteSet({}) /\ Cardinality({}) = 0
      BY FS_EmptySet
    <2>3. Sum(b, 1..0) = 0
      BY <2>2, SumStep
    <2>4. \A r \in Past(k, Bucketed) : ~(bucketIndex(seconds[r]) <= 0)
      <3>1. \A r \in Past(k, Bucketed) : bucketIndex(seconds[r]) \in 1..Inf
        BY TypeFacts, LadderFacts DEF Past
      <3> QED
        BY <3>1
    <2>5. UpTo(k, 0) = {}
      BY <2>4 DEF UpTo
    <2> QED
      BY <1>3, <2>1, <2>2, <2>3, <2>5
  <1>4. CASE i # 0
    <2>1. PICK j \in Nat : i = j + 1
      <3>1. i - 1 \in Nat /\ i = (i - 1) + 1
        BY <1>4
      <3> QED
        BY <3>1
    <2>2. j \in 0..Inf /\ j + 1 \in Slots /\ ~(i <= j)
      BY <2>1, LadderFacts
    <2>3. Sum(SeriesOf(k).buckets, 1..j) = Cardinality(UpTo(k, j))
      BY <1>2, <2>2
    <2>4. Sum(SeriesOf(k).buckets, 1..(j + 1)) = Cardinality(UpTo(k, j + 1))
      BY <2>2, <2>3, CumulatedStep
    <2> QED
      BY <2>1, <2>4
  <1> QED
    BY <1>3, <1>4

LEMMA ExactIsEnough ==
    ASSUME TypeOK, NEW k \in seriesKey, Exact(k)
    PROVE  /\ \A i \in DOMAIN Bounds :
                 Cardinality({r \in Past(k, Bucketed) : seconds[r] <= Bounds[i]})
                     = Sum(SeriesOf(k).buckets, 1..i)
           /\ Cardinality(Past(k, Bucketed)) = Sum(SeriesOf(k).buckets, Slots)
           /\ SeriesOf(k).count <= Sum(SeriesOf(k).buckets, Slots)
  <1>1. \A r \in Past(k, Bucketed) : seconds[r] \in Nat /\ bucketIndex(seconds[r]) \in Slots
    BY TypeFacts DEF Past
  <1>2. ASSUME NEW i \in DOMAIN Bounds
        PROVE  Cardinality({r \in Past(k, Bucketed) : seconds[r] <= Bounds[i]})
                   = Sum(SeriesOf(k).buckets, 1..i)
    <2>1. {r \in Past(k, Bucketed) : seconds[r] <= Bounds[i]} = UpTo(k, i)
      BY <1>1, IndexFacts DEF UpTo
    <2>2. i \in 0..Inf
      BY LadderFacts DEF Inf
    <2> QED
      BY <2>1, <2>2, Cumulated
  <1>3. Cardinality(Past(k, Bucketed)) = Sum(SeriesOf(k).buckets, Slots)
    <2>1. UpTo(k, Inf) = Past(k, Bucketed)
      <3>1. \A r \in Past(k, Bucketed) : bucketIndex(seconds[r]) <= Inf
        BY <1>1, LadderFacts
      <3> QED
        BY <3>1 DEF UpTo
    <2>2. Inf \in 0..Inf /\ Slots = 1..Inf
      BY LadderFacts
    <2> QED
      BY <2>1, <2>2, Cumulated
  <1>4. Cardinality(Past(k, {"observed"})) <= Cardinality(Past(k, Bucketed))
    <2>1. Past(k, {"observed"}) \in SUBSET Past(k, Bucketed)
      BY DEF Past, Bucketed
    <2> QED
      BY <2>1, PastFinite, FS_Subset
  <1>5. SeriesOf(k).count = Cardinality(Past(k, {"observed"}))
    BY DEF Exact
  <1> QED
    BY <1>2, <1>3, <1>4, <1>5

-----------------------------------------------------------------------------
(* The actions of the scraper *)

(* A scrape leaves the requests and what they observed alone.              *)
LEMMA ScrapeReads ==
    ASSUME MInv, UNCHANGED <<registry, series, request>>
    PROVE  /\ Registered' /\ TypeOK /\ Registered /\ Walked
           /\ \A k \in seriesKey : Exact(k)' /\ Scraped(k) /\ SeriesOf(k)' = SeriesOf(k)
  <1>1. TypeOK /\ Registered /\ Walked /\ \A k \in seriesKey : Exact(k) /\ Scraped(k)
    BY DEF MInv
  <1>2. \A k \in seriesKey : SeriesOf(k)' = SeriesOf(k)
    BY SeriesKept
  <1>3. Same(Bucketed) /\ Same(Counted) /\ Same(Observed)
    BY DEF Same, request
  <1>4. \A k \in seriesKey : Exact(k)'
    BY <1>1, <1>2, <1>3, ExactKept
  <1>5. Registered'
    BY <1>1 DEF Registered, request
  <1> QED
    BY <1>1, <1>2, <1>4, <1>5

LEMMA ScrapeStartsKeeps ==
    ASSUME MInv, ScrapeStarts
    PROVE  MInv'
  <1>1. /\ UNCHANGED <<registry, series, request, reading, at, snaps, exposed, scrapes>>
        /\ ~scraping /\ scraping' = TRUE /\ scrapes < MaxScrapes
        /\ live' = {registry[k] : k \in seriesKey} \ {"none"}
    BY DEF ScrapeStarts
  <1>2. /\ Registered' /\ TypeOK /\ Registered /\ Walked
        /\ \A k \in seriesKey : Exact(k)' /\ Scraped(k) /\ SeriesOf(k)' = SeriesOf(k)
    BY <1>1, ScrapeReads
  <1>3. reading = "none" /\ at = 1
    BY <1>1, <1>2 DEF Walked
  <1>4. TypeOK'
    <2>1. live' \subseteq Requests
      BY <1>1, <1>2, TypeFacts
    <2> QED
      BY <1>1, <1>2, <2>1 DEF TypeOK, request
  <1>5. Walked'
    <2>1. \A s \in live' : registry[key[s]] = s
      BY <1>1, <1>2 DEF Registered
    <2> QED
      BY <1>1, <1>3, <2>1 DEF Walked, request
  <1>6. ASSUME NEW k \in seriesKey PROVE Scraped(k)'
    <2>1. /\ SeriesOf(k) \in Snapshot /\ snaps[k] \in Snapshot /\ exposed[k] \in Snapshot
          /\ registry[k] \in Requests \cup {"none"}
      BY <1>2, TypeFacts
    <2>2. Done(k)' = IF registry[k] = "none" THEN Inf + 2 ELSE 0
      <3>1. registry[k] \in live' <=> registry[k] # "none"
        BY <1>1
      <3> QED
        BY <1>1, <1>3, <3>1 DEF Done
    <2>3. registry[k] = "none" => exposed[k] = Zero /\ snaps[k] = Zero
      BY <1>2 DEF Scraped
    <2>4. Snapped(Done(k)', snaps[k], exposed[k], SeriesOf(k))
      BY <2>1, <2>2, <2>3, NothingLoaded
    <2>5. IsHistogram(exposed[k]) /\ Behind(exposed[k], SeriesOf(k))
      BY <1>2 DEF Scraped
    <2>6. SeriesOf(k)' = SeriesOf(k) /\ snaps' = snaps /\ exposed' = exposed
          /\ registry' = registry
      BY <1>1, <1>2
    <2>7. Snapped(Done(k), snaps[k], exposed[k], SeriesOf(k))'
      BY <2>4, <2>6 DEF Snapped, Below
    <2>8. (IsHistogram(exposed[k]) /\ Behind(exposed[k], SeriesOf(k)))'
      BY <2>5, <2>6 DEF IsHistogram, Behind, Below
    <2> QED
      BY <2>3, <2>6, <2>7, <2>8 DEF Scraped
  <1> QED
    BY <1>2, <1>4, <1>5, <1>6 DEF MInv

LEMMA ScrapeLoadsKeeps ==
    ASSUME MInv, NEW s \in Requests, ScrapeLoads(s)
    PROVE  MInv'
  <1>1. /\ UNCHANGED <<registry, series, request, scraping, exposed, scrapes>>
        /\ scraping /\ s \in live /\ reading \in {"none", s}
        /\ snaps' = [snaps EXCEPT ![key[s]] = Loaded(snaps[key[s]], Loads[at], series[s])]
        /\ IF at < Len(Loads)
           THEN reading' = s /\ at' = at + 1 /\ UNCHANGED live
           ELSE reading' = "none" /\ at' = 1 /\ live' = live \ {s}
    BY DEF ScrapeLoads
  <1>2. /\ Registered' /\ TypeOK /\ Registered /\ Walked
        /\ \A k \in seriesKey : Exact(k)' /\ Scraped(k) /\ SeriesOf(k)' = SeriesOf(k)
    BY <1>1, ScrapeReads
  <1>3. PICK c, n : c = key[s] /\ n = at
    OBVIOUS
  <1>4. /\ c \in seriesKey /\ registry[c] = s /\ n \in 1..(Inf + 2) /\ Len(Loads) = Inf + 2
        /\ s # "none" /\ SeriesOf(c) = series[s]
        /\ \A k \in seriesKey : k # c => registry[k] # s
    <2>1. c \in seriesKey /\ registry[c] = s /\ n \in 1..(Inf + 2) /\ Len(Loads) = Inf + 2
      BY <1>1, <1>2, <1>3, TypeFacts, LoadFacts DEF Walked
    <2>2. s # "none"
      BY DEF NameAssumption
    <2>3. \A k \in seriesKey : k # c => registry[k] # s
      BY <1>2, <1>3, <2>2 DEF Registered
    <2> QED
      BY <2>1, <2>2, <2>3 DEF SeriesOf
  <1>5. Done(c) = n - 1
    <2>1. CASE reading = "none"
      <3>1. n = 1
        BY <1>2, <1>3, <2>1 DEF Walked
      <3>2. Done(c) = 0
        BY <1>1, <1>4, <2>1 DEF Done
      <3> QED BY <3>1, <3>2
    <2>2. CASE reading = s
      BY <1>1, <1>3, <1>4, <2>2 DEF Done
    <2> QED BY <1>1, <2>1, <2>2
  <1>6. PICK snap : snap = Loaded(snaps[c], Loads[n], SeriesOf(c))
    OBVIOUS
  <1>7. /\ SeriesOf(c) \in Snapshot /\ snaps[c] \in Snapshot /\ exposed[c] \in Snapshot
        /\ IsHistogram(exposed[c]) /\ Behind(exposed[c], SeriesOf(c))
        /\ Snapped(n - 1, snaps[c], exposed[c], SeriesOf(c))
    BY <1>2, <1>4, <1>5, TypeFacts DEF Scraped
  <1>8. SeriesOf(c).count <= Sum(SeriesOf(c).buckets, Slots)
    <2>1. Exact(c)
      BY <1>4 DEF MInv
    <2> QED
      BY <1>2, <1>4, <2>1, ExactIsEnough
  <1>9. snap \in Snapshot /\ Snapped(n, snap, exposed[c], SeriesOf(c))
    BY <1>4, <1>6, <1>7, <1>8, LoadKeeps
  <1>10. snaps' = [snaps EXCEPT ![c] = snap]
    BY <1>1, <1>3, <1>4, <1>6
  <1>11. TypeOK'
    <2>1. snaps' \in [seriesKey -> Snapshot]
      BY <1>2, <1>9, <1>10 DEF TypeOK
    <2>2. at' \in 1..Len(Loads)
      BY <1>1, <1>3, <1>4
    <2>3. reading' \in Requests \cup {"none"} /\ live' \subseteq Requests
      BY <1>1, <1>2 DEF TypeOK
    <2> QED
      BY <1>1, <1>2, <2>1, <2>2, <2>3 DEF TypeOK, request
  <1>12. Walked'
    <2>1. \A x \in live' : registry[key[x]] = x
      BY <1>1, <1>2 DEF Walked
    <2>2. IF reading' = "none" THEN at' = 1 ELSE reading' \in live'
      BY <1>1, <1>4
    <2> QED
      BY <1>1, <1>2, <2>1, <2>2 DEF Walked, request
  <1>13. Done(c)' = n
    <2>1. CASE at < Len(Loads)
      BY <1>1, <1>3, <1>4, <2>1 DEF Done
    <2>2. CASE ~(at < Len(Loads))
      <3>1. Done(c)' = Inf + 2
        BY <1>1, <1>4, <2>2 DEF Done
      <3> QED
        BY <1>3, <1>4, <2>2, <3>1, LadderFacts
    <2> QED BY <2>1, <2>2
  <1>14. ASSUME NEW k \in seriesKey PROVE Scraped(k)'
    <2>1. SeriesOf(k)' = SeriesOf(k) /\ exposed' = exposed /\ registry' = registry
      BY <1>1, <1>2
    <2>2. (IsHistogram(exposed[k]) /\ Behind(exposed[k], SeriesOf(k)))'
      BY <1>2, <2>1 DEF Scraped, IsHistogram, Behind, Below
    <2>3. CASE k = c
      <3>1. snaps'[k] = snap
        BY <1>2, <1>10, <2>3 DEF TypeOK
      <3>2. Snapped(Done(k)', snaps'[k], exposed[k], SeriesOf(k))
        BY <1>9, <1>13, <2>3, <3>1
      <3>3. Snapped(Done(k), snaps[k], exposed[k], SeriesOf(k))'
        BY <2>1, <3>2 DEF Snapped, Below
      <3>4. registry'[k] # "none"
        BY <1>4, <2>1, <2>3
      <3> QED
        BY <2>2, <3>3, <3>4 DEF Scraped
    <2>4. CASE k # c
      <3>1. snaps'[k] = snaps[k]
        BY <1>2, <1>10, <2>4 DEF TypeOK
      <3>2. Done(k)' = Done(k)
        <4>1. registry[k] # s
          BY <1>4, <2>4
        <4>2. registry[k] \in live' <=> registry[k] \in live
          BY <1>1, <4>1
        <4>3. registry[k] \in live => registry[k] # "none"
          BY <1>2 DEF TypeOK, NameAssumption
        <4>4. registry[k] \in live => registry[k] # reading /\ registry[k] # reading'
          BY <1>1, <4>1, <4>3
        <4> QED
          BY <1>1, <2>1, <4>2, <4>4 DEF Done
      <3>3. Snapped(Done(k), snaps[k], exposed[k], SeriesOf(k))
        BY <1>2 DEF Scraped
      <3>4. Snapped(Done(k), snaps[k], exposed[k], SeriesOf(k))'
        BY <2>1, <3>1, <3>2, <3>3 DEF Snapped, Below
      <3>5. registry'[k] = "none" => exposed'[k] = Zero /\ snaps'[k] = Zero
        BY <1>2, <2>1, <3>1 DEF Scraped
      <3> QED
        BY <2>2, <3>4, <3>5 DEF Scraped
    <2> QED BY <2>3, <2>4
  <1> QED
    BY <1>2, <1>11, <1>12, <1>14 DEF MInv

LEMMA ScrapeServesKeeps ==
    ASSUME MInv, ScrapeServes
    PROVE  /\ MInv'
           /\ \A k \in seriesKey : NoLess(exposed[k], exposed'[k])
  <1>1. /\ UNCHANGED <<registry, series, request, live, reading, at>>
        /\ scraping /\ live = {} /\ exposed' = snaps /\ scraping' = FALSE
        /\ snaps' = [k \in seriesKey |-> Zero] /\ scrapes' = scrapes + 1
    BY DEF ScrapeServes
  <1>2. /\ Registered' /\ TypeOK /\ Registered /\ Walked
        /\ \A k \in seriesKey : Exact(k)' /\ Scraped(k) /\ SeriesOf(k)' = SeriesOf(k)
    BY <1>1, ScrapeReads
  <1>3. TypeOK'
    <2>1. scrapes' \in 0..MaxScrapes
      BY <1>1, <1>2 DEF TypeOK, Walked, ValueAssumption
    <2>2. snaps' \in [seriesKey -> Snapshot]
      BY <1>1, ZeroFacts
    <2> QED
      BY <1>1, <1>2, <2>1, <2>2 DEF TypeOK, request
  <1>4. Walked'
    BY <1>1, <1>2 DEF Walked, request
  <1>5. ASSUME NEW k \in seriesKey
        PROVE  Scraped(k)' /\ NoLess(exposed[k], exposed'[k])
    <2>1. /\ SeriesOf(k) \in Snapshot /\ snaps[k] \in Snapshot /\ exposed[k] \in Snapshot
      BY <1>2, TypeFacts
    <2>2. Done(k) = Inf + 2
      BY <1>1 DEF Done
    <2>3. IsHistogram(snaps[k]) /\ NoLess(exposed[k], snaps[k]) /\ Behind(snaps[k], SeriesOf(k))
      <3>1. Snapped(Inf + 2, snaps[k], exposed[k], SeriesOf(k))
        BY <1>2, <2>2 DEF Scraped
      <3> QED
        BY <2>1, <3>1, CompleteSnapshot
    <2>4. exposed'[k] = snaps[k] /\ snaps'[k] = Zero /\ Done(k)' = 0
          /\ SeriesOf(k)' = SeriesOf(k) /\ registry' = registry
      BY <1>1, <1>2 DEF Done
    <2>5. Snapped(0, Zero, snaps[k], SeriesOf(k))
      BY <2>1, NothingLoaded, ZeroFacts
    <2>6. Snapped(Done(k), snaps[k], exposed[k], SeriesOf(k))'
      BY <2>4, <2>5 DEF Snapped, Below
    <2>7. (IsHistogram(exposed[k]) /\ Behind(exposed[k], SeriesOf(k)))'
      BY <2>3, <2>4 DEF IsHistogram, Behind, Below
    <2>8. registry'[k] = "none" => exposed'[k] = Zero /\ snaps'[k] = Zero
      BY <1>2, <2>4 DEF Scraped
    <2> QED
      BY <2>3, <2>4, <2>6, <2>7, <2>8 DEF Scraped
  <1> QED
    BY <1>2, <1>3, <1>4, <1>5 DEF MInv

-----------------------------------------------------------------------------
LEMMA InitMInv == Init => MInv
  <1> SUFFICES ASSUME Init PROVE MInv
    OBVIOUS
  <1>1. NoKey \in seriesKey
    <2>1. PICK c \in Codes : TRUE
      BY DEF RequestAssumption
    <2>2. <<"other", c>> \in seriesKey
      BY DEF seriesKey
    <2> QED
      BY <2>2 DEF NoKey
  <1>2. 1 \in 1..Len(Loads)
    BY LoadFacts, LadderFacts
  <1>3. TypeOK
    <2>1. /\ registry \in [seriesKey -> Requests \cup {"none"}]
          /\ series \in [Requests -> Snapshot]
          /\ snaps \in [seriesKey -> Snapshot] /\ exposed \in [seriesKey -> Snapshot]
      BY ZeroFacts DEF Init
    <2>2. /\ pc \in [Requests -> {"idle", "panicked", "lookup", "create", "bucket", "load", "swap",
                                  "count", "observed"}]
          /\ key \in [Requests -> seriesKey]
          /\ mine \in [Requests -> Requests \cup {"none"}]
      BY <1>1 DEF Init
    <2>3. seconds \in [Requests -> Latencies \cup {0}] /\ old \in [Requests -> Nat]
      BY DEF Init
    <2>4. /\ scraping \in BOOLEAN /\ live \subseteq Requests /\ reading \in Requests \cup {"none"}
          /\ at \in 1..Len(Loads)
      BY <1>2 DEF Init
    <2>5. scrapes \in 0..MaxScrapes
      BY DEF Init, ValueAssumption
    <2> QED
      BY <2>1, <2>2, <2>3, <2>4, <2>5 DEF TypeOK
  <1>4. Registered
    BY <1>1 DEF Init, Registered, Settled
  <1>5. Walked
    BY DEF Init, Walked
  <1>6. ASSUME NEW k \in seriesKey PROVE Exact(k) /\ Scraped(k)
    <2>1. /\ SeriesOf(k) = Zero /\ exposed[k] = Zero /\ snaps[k] = Zero /\ Done(k) = 0
          /\ registry[k] = "none"
      BY <1>6 DEF Init, SeriesOf, Done
    <2>2. \A P : "idle" \notin P => Past(k, P) = {}
      BY DEF Init, Past
    <2>3. Past(k, {"observed"}) = {} /\ Past(k, {"count", "observed"}) = {}
          /\ Past(k, Bucketed) = {}
      BY <2>2 DEF Bucketed
    <2>4. \A i \in Slots : InSlot(k, i) = {}
      BY <2>3 DEF InSlot
    <2>5. IsFiniteSet({}) /\ Cardinality({}) = 0
      BY FS_EmptySet
    <2>6. Sum(seconds, {}) = 0
      BY <2>5, SumStep
    <2>7. Exact(k)
      BY <2>1, <2>3, <2>4, <2>5, <2>6, ZeroFacts DEF Exact
    <2>8. Scraped(k)
      BY <2>1, ZeroFacts, NothingLoaded DEF Scraped
    <2> QED BY <2>7, <2>8
  <1> QED
    BY <1>3, <1>4, <1>5, <1>6 DEF MInv

LEMMA StutterMInv ==
    ASSUME MInv, UNCHANGED vars
    PROVE  MInv'
  <1>1. UNCHANGED <<registry, series, request, scrape>>
    BY DEF vars
  <1>2. TypeOK /\ Registered /\ Walked /\ Registered'
        /\ \A k \in seriesKey : SeriesOf(k)' = SeriesOf(k)
    BY <1>1, ScrapeReads
  <1>3. TypeOK' /\ Walked'
    BY <1>1, <1>2 DEF TypeOK, Walked, request, scrape
  <1>4. Same(Bucketed) /\ Same(Counted) /\ Same(Observed)
    BY <1>1 DEF Same, request
  <1>5. \A k \in seriesKey : Done(k)' = Done(k)
    BY <1>1, DoneKept
  <1> QED
    BY <1>1, <1>2, <1>3, <1>4, <1>5, QuietStep

LEMMA NextMInv == MInv /\ [Next]_vars => MInv'
  <1> SUFFICES ASSUME MInv, [Next]_vars PROVE MInv'
    OBVIOUS
  <1>1. ASSUME NEW r \in Requests, Observe(r) PROVE MInv'
    BY <1>1, ServedKeeps, LookupKeeps, SumLoopKeeps, NewSeriesKeeps, AddBucketKeeps,
       SwapSumKeeps, AddCountKeeps DEF Observe
  <1>2. ASSUME NEW r \in Requests, ScrapeLoads(r) PROVE MInv'
    BY <1>2, ScrapeLoadsKeeps
  <1>3. CASE ScrapeStarts
    BY <1>3, ScrapeStartsKeeps
  <1>4. CASE ScrapeServes
    BY <1>4, ScrapeServesKeeps
  <1>5. CASE UNCHANGED vars
    BY <1>5, StutterMInv
  <1> QED
    BY <1>1, <1>2, <1>3, <1>4, <1>5 DEF Next

(* Every variable keeps its type: a request never loads or adds through a  *)
(* missing series, and collect never loads past the last bucket.           *)
THEOREM TypeCorrect == Spec => []TypeOK
  <1>1. MInv => TypeOK
    BY DEF MInv
  <1> QED
    BY <1>1, InitMInv, NextMInv, PTL DEF Spec

(* An observation is in its series exactly once in each of the numbers it  *)
(* has reached, whichever of the requests with its key made the series     *)
(* (observe's double-checked registration) and however their addFloat      *)
(* loops collide.                                                          *)
THEOREM NoneLost == Spec => []NoObservationLost
  <1>1. MInv => NoObservationLost
    <2> SUFFICES ASSUME MInv, NEW k \in seriesKey
                 PROVE  /\ SeriesOf(k).count = Cardinality(Past(k, {"observed"}))
                        /\ SeriesOf(k).sum = Sum(seconds, Past(k, {"count", "observed"}))
                        /\ \A i \in DOMAIN Bounds :
                              Cardinality({r \in Past(k, Bucketed) : seconds[r] <= Bounds[i]})
                                  = Sum(SeriesOf(k).buckets, 1..i)
                        /\ Cardinality(Past(k, Bucketed)) = Sum(SeriesOf(k).buckets, Slots)
      BY DEF NoObservationLost, Bucketed
    <2>1. TypeOK /\ Exact(k)
      BY DEF MInv
    <2>2. /\ SeriesOf(k).count = Cardinality(Past(k, {"observed"}))
          /\ SeriesOf(k).sum = Sum(seconds, Past(k, {"count", "observed"}))
      BY <2>1 DEF Exact
    <2> QED
      BY <2>1, <2>2, ExactIsEnough
  <1> QED
    BY <1>1, InitMInv, NextMInv, PTL DEF Spec

(* Every exposition is a histogram, and no number of it is less than in    *)
(* the exposition before, although collect loads the sum, the count and    *)
(* each bucket of a series in separate steps while requests add to them.   *)
THEOREM ScrapesNeverFall == Spec => ScrapeMonotone
  <1>1. MInv /\ [Next]_vars =>
           [\A k \in seriesKey : IsHistogram(exposed'[k]) /\ NoLess(exposed[k], exposed'[k])]_vars
    <2> SUFFICES ASSUME MInv, [Next]_vars, NEW k \in seriesKey
                 PROVE  IsHistogram(exposed'[k]) /\ NoLess(exposed[k], exposed'[k])
      OBVIOUS
    <2>1. IsHistogram(exposed'[k])
      <3>1. Scraped(k)'
        BY NextMInv DEF MInv
      <3> QED
        BY <3>1 DEF Scraped, IsHistogram
    <2>2. NoLess(exposed[k], exposed'[k])
      <3>1. CASE ScrapeServes
        BY <3>1, ScrapeServesKeeps
      <3>2. CASE ~ScrapeServes
        <4>1. exposed' = exposed
          BY <3>2 DEF Next, vars, scrape, Observe, Served, HandlerPanics, observe, newSeries,
                      AddBucket, LoadSum, SwapSum, SwapFails, AddCount, ScrapeLoads, ScrapeStarts
        <4>2. exposed[k] \in Snapshot
          BY TypeFacts DEF MInv
        <4> QED
          BY <4>1, <4>2, NoLessReflexive
      <3> QED BY <3>1, <3>2
    <2> QED BY <2>1, <2>2
  <1> QED
    BY <1>1, InitMInv, NextMInv, PTL DEF Spec, ScrapeMonotone
=============================================================================
