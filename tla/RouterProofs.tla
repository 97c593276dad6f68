----------------------------- MODULE RouterProofs -----------------------------
(***************************************************************************)
(* The network simulator, for every connected topology: its routing tables *)
(* send packets along shortest paths, its queues keep their limit, and the *)
(* packets between two nodes stay in order.                                *)
(***************************************************************************)
EXTENDS Router, NumberProofs, SequenceTheorems, FiniteSetTheorems

N == Cardinality(Routers)

LEMMA SizeFact == N \in Nat /\ N < INFINITY
BY RouterAssumption, FS_CardinalityType DEF N

LEMMA NeighboursFact ==
  ASSUME NEW g, NEW v \in Routers
  PROVE  /\ Neighbours(g, v) \subseteq Routers
         /\ \A w \in Neighbours(g, v) : v \in Neighbours(g, w)
<1>1. \A w \in Routers : {v, w} = {w, v}
  OBVIOUS
<1> QED BY <1>1 DEF Neighbours

-----------------------------------------------------------------------------
(* Distances.                                                              *)

\* A set of routers, and the routers one hop from it.
Grow(g, B) == B \cup UNION {Neighbours(g, w) : w \in B}

LEMMA GrowFact ==
  ASSUME NEW g, NEW B \in SUBSET Routers
  PROVE  Grow(g, B) \in SUBSET Routers
BY NeighboursFact DEF Grow

\* What Within(g, v) satisfies: each set grows from the one before.
AreBalls(g, v, b) ==
  b = [k \in 0..N |-> IF k = 0 THEN {v} ELSE Grow(g, b[k - 1])]

LEMMA WithinFact ==
  ASSUME NEW g, NEW v \in Routers
  PROVE  /\ Within(g, v) \in [0..N -> SUBSET Routers]
         /\ Within(g, v)[0] = {v}
         /\ \A k \in 1..N : Within(g, v)[k] = Grow(g, Within(g, v)[k - 1])
<1> DEFINE u == Within(g, v)
<1>0. PICK step \in [SUBSET Routers -> SUBSET Routers] :
        \A B \in SUBSET Routers : step[B] = Grow(g, B)
  <2> DEFINE s == [B \in SUBSET Routers |-> Grow(g, B)]
  <2>1. s \in [SUBSET Routers -> SUBSET Routers]
    BY GrowFact
  <2>2. \A B \in SUBSET Routers : s[B] = Grow(g, B)
    OBVIOUS
  <2> QED BY <2>1, <2>2
<1>1. PICK f \in [0..N -> SUBSET Routers] : Iterates(f, {v}, step, N)
  <2>1. {v} \in SUBSET Routers
    OBVIOUS
  <2> QED BY <2>1, SizeFact, Iteration
<1>2. AreBalls(g, v, f)
  <2>1. ASSUME NEW k \in 0..N
        PROVE  f[k] = IF k = 0 THEN {v} ELSE Grow(g, f[k - 1])
    <3>1. CASE k = 0
      BY <1>1, <3>1 DEF Iterates
    <3>2. CASE k # 0
      <4>1. k \in 1..N /\ k - 1 \in 0..N
        BY SizeFact, <3>2
      <4>2. f[k] = step[f[k - 1]] /\ f[k - 1] \in SUBSET Routers
        BY <1>1, <4>1 DEF Iterates
      <4> QED BY <1>0, <3>2, <4>2
    <3> QED BY <3>1, <3>2
  <2>2. f = [k \in 0..N |-> f[k]]
    BY <1>1
  <2> QED BY <2>1, <2>2 DEF AreBalls
<1>3. AreBalls(g, v, u)
  <2>1. u = CHOOSE b : AreBalls(g, v, b)
    BY DEF Within, AreBalls, Grow, N
  <2> QED BY <1>2, <2>1
<1> HIDE DEF u
<1>4. /\ u = [k \in 0..N |-> u[k]] /\ u[0] = {v}
      /\ \A k \in 1..N : u[k] = Grow(g, u[k - 1])
  <2>1. u = [k \in 0..N |-> u[k]]
    BY <1>3 DEF AreBalls
  <2>2. \A k \in 0..N : u[k] = IF k = 0 THEN {v} ELSE Grow(g, u[k - 1])
    BY <1>3 DEF AreBalls
  <2>3. 0 \in 0..N /\ \A k \in 1..N : k \in 0..N /\ k # 0
    BY SizeFact
  <2>4. u[0] = {v}
    BY <2>2, <2>3
  <2>5. \A k \in 1..N : u[k] = Grow(g, u[k - 1])
    BY <2>2, <2>3
  <2> QED BY <2>1, <2>4, <2>5
<1>5. \A k \in 0..N : u[k] \in SUBSET Routers
  <2> DEFINE P == {k \in 0..N : u[k] \in SUBSET Routers}
  <2>1. 0 \in P
    BY SizeFact, <1>4
  <2>2. \A k \in 0..(N - 1) : k \in P => k + 1 \in P
    <3> SUFFICES ASSUME NEW k \in 0..(N - 1), k \in P PROVE k + 1 \in P
      OBVIOUS
    <3>1. k + 1 \in 1..N /\ (k + 1) - 1 = k /\ k + 1 \in 0..N
      BY SizeFact
    <3>2. u[k + 1] = Grow(g, u[k]) /\ u[k] \in SUBSET Routers
      BY <1>4, <3>1
    <3> QED BY <3>1, <3>2, GrowFact
  <2>3. 0..N \subseteq P
    <3> HIDE DEF P
    <3> QED BY <2>1, <2>2, SizeFact, Induction
  <2> QED BY <2>3
<1> QED BY <1>4, <1>5 DEF u

\* The balls grow until all routers are in them.
LEMMA WithinAll ==
  ASSUME NEW g \in Topologies, NEW v \in Routers
  PROVE  /\ \A j, k \in 0..N : j <= k => Within(g, v)[j] \subseteq Within(g, v)[k]
         /\ Within(g, v)[N] = Routers
<1>1. PICK u : u = Within(g, v)
  OBVIOUS
<1>2. /\ u \in [0..N -> SUBSET Routers] /\ u[0] = {v}
      /\ \A k \in 1..N : u[k] = Grow(g, u[k - 1])
  BY <1>1, WithinFact
<1>3. \A j \in 0..N : \A k \in 0..N : j <= k => u[j] \subseteq u[k]
  <2> SUFFICES ASSUME NEW j \in 0..N
               PROVE  \A k \in 0..N : j <= k => u[j] \subseteq u[k]
    OBVIOUS
  <2> DEFINE P == {k \in 0..N : j <= k => u[j] \subseteq u[k]}
  <2>1. 0 \in P
    BY SizeFact
  <2>2. ASSUME NEW k \in 0..(N - 1), k \in P PROVE k + 1 \in P
    <3>1. k + 1 \in 1..N /\ (k + 1) - 1 = k /\ k + 1 \in 0..N
      BY SizeFact
    <3>2. u[k] \subseteq u[k + 1]
      BY <1>2, <3>1 DEF Grow
    <3>3. j <= k + 1 => j <= k \/ j = k + 1
      OBVIOUS
    <3> QED BY <2>2, <3>1, <3>2, <3>3
  <2>3. 0..N \subseteq P
    <3> HIDE DEF P
    <3> QED BY <2>1, <2>2, SizeFact, Induction
  <2> QED BY <2>3
<1> DEFINE Closed(B) == \A l \in g : l \cap B # {} => l \subseteq B
           P == {k \in 0..N : IsFiniteSet(u[k]) /\ (Cardinality(u[k]) > k \/ Closed(u[k]))}
<1>4. ASSUME NEW B \in SUBSET Routers, Grow(g, B) = B PROVE Closed(B)
  <2> SUFFICES ASSUME NEW l \in g, NEW x \in l \cap B, NEW y \in l PROVE y \in B
    OBVIOUS
  <2>1. l \subseteq Routers /\ Cardinality(l) = 2
    BY RouterAssumption
  <2>2. CASE y = x
    BY <2>2
  <2>3. CASE y # x
    <3>1. l = {x, y}
      <4>1. IsFiniteSet(l)
        BY <2>1, RouterAssumption, FS_Subset
      <4>2. /\ IsFiniteSet({x, y}) /\ Cardinality({x, y}) = 2
        <5>1. IsFiniteSet({x}) /\ Cardinality({x}) = 1
          BY FS_Singleton
        <5>2. {x, y} = {x} \cup {y} /\ y \notin {x}
          BY <2>3
        <5>3. IsFiniteSet({x} \cup {y}) /\ Cardinality({x} \cup {y}) = Cardinality({x}) + 1
          BY <5>1, <5>2, FS_AddElement
        <5> QED BY <5>1, <5>2, <5>3
      <4>3. {x, y} \in SUBSET l
        OBVIOUS
      <4>4. Cardinality({x, y}) = Cardinality(l) => {x, y} = l
        BY <4>1, <4>3, FS_Subset
      <4> QED BY <2>1, <4>2, <4>4
    <3>2. y \in Neighbours(g, x)
      BY <2>1, <3>1 DEF Neighbours
    <3> QED BY <1>4, <3>2 DEF Grow
  <2> QED BY <2>2, <2>3
<1>5. 0 \in P
  <2>1. IsFiniteSet({v}) /\ Cardinality({v}) = 1
    BY FS_Singleton
  <2>2. 0 \in 0..N /\ IsFiniteSet(u[0]) /\ Cardinality(u[0]) > 0
    BY <1>2, <2>1, SizeFact
  <2> HIDE DEF Closed
  <2> QED BY <2>2
<1>6. ASSUME NEW k \in 0..(N - 1), k \in P PROVE k + 1 \in P
  <2>1. k + 1 \in 1..N /\ (k + 1) - 1 = k /\ k \in 0..N /\ k + 1 \in 0..N
    BY SizeFact
  <2>2. u[k + 1] = Grow(g, u[k]) /\ u[k] \subseteq u[k + 1] /\ u[k + 1] \in SUBSET Routers
    BY <1>2, <2>1 DEF Grow
  <2>3. IsFiniteSet(u[k + 1]) /\ Cardinality(u[k + 1]) \in Nat /\ Cardinality(u[k]) \in Nat
    BY <1>6, <2>2, RouterAssumption, FS_Subset, FS_CardinalityType
  <2>4. CASE u[k + 1] = u[k]
    <3>1. Closed(u[k + 1])
      BY <1>4, <2>2, <2>4
    <3> QED BY <2>1, <2>3, <3>1
  <2>5. CASE u[k + 1] # u[k]
    <3>1. ~Closed(u[k])
      <4>1. PICK y \in u[k + 1] : y \notin u[k]
        BY <2>2, <2>5
      <4>2. PICK x \in u[k] : y \in Neighbours(g, x)
        BY <2>2, <4>1 DEF Grow
      <4> QED BY <4>1, <4>2 DEF Neighbours
    <3>2. Cardinality(u[k]) < Cardinality(u[k + 1])
      BY <2>2, <2>3, <2>5, FS_Subset
    <3> QED BY <1>6, <2>1, <2>3, <3>1, <3>2
  <2> QED BY <2>4, <2>5
<1>7. N \in P
  <2>1. 0..N \subseteq P
    <3> HIDE DEF P
    <3> QED BY <1>5, <1>6, SizeFact, Induction
  <2> QED BY <2>1, SizeFact
<1>8. Closed(u[N])
  <2>1. u[N] \in SUBSET Routers
    BY <1>2, SizeFact
  <2>2. Cardinality(u[N]) <= N
    BY <2>1, RouterAssumption, FS_Subset DEF N
  <2>3. Cardinality(u[N]) \in Nat
    BY <1>7, FS_CardinalityType
  <2> QED BY <1>7, <2>2, <2>3, SizeFact
<1>9. u[N] # {} /\ u[N] \in SUBSET Routers
  BY <1>2, <1>3, SizeFact
<1>10. u[N] = Routers
  <2> DEFINE B == u[N]
  <2>1. Closed(B) /\ B \in (SUBSET Routers) \ {{}}
    BY <1>8, <1>9
  <2> HIDE DEF B
  <2>2. B = Routers
    BY <2>1, RouterAssumption
  <2> QED BY <2>2 DEF B
<1> QED BY <1>1, <1>3, <1>10

\* The distance is the least number of hops: w is in the balls from there on.
LEMMA DistanceFact ==
  ASSUME NEW g \in Topologies, NEW v \in Routers, NEW w \in Routers
  PROVE  /\ Distance(g, v, w) \in 0..N
         /\ \A k \in 0..N : w \in Within(g, v)[k] <=> Distance(g, v, w) <= k
<1>1. PICK ball : ball = Within(g, v)
  OBVIOUS
<1>2. /\ \A j, k \in 0..N : j <= k => ball[j] \subseteq ball[k]
      /\ w \in ball[N] /\ N \in 0..N
  BY <1>1, WithinAll, SizeFact
<1> DEFINE T == {k \in 0..N : w \in ball[k]}
           First(k) == w \in ball[k] /\ \A j \in 0..(k - 1) : w \notin ball[j]
<1>3. PICK m \in T : \A x \in T : m <= x
  <2>1. T \subseteq Nat /\ T # {}
    BY <1>2
  <2> HIDE DEF T
  <2> QED BY <2>1, LeastElement
<1>4. m \in 0..N /\ First(m)
  <2>1. \A j \in 0..(m - 1) : j \in 0..N /\ ~(m <= j)
    BY <1>3, SizeFact
  <2> QED BY <1>3, <2>1
<1>5. Distance(g, v, w) = CHOOSE k \in 0..N : First(k)
  BY <1>1 DEF Distance, N
<1>6. PICK d : d = Distance(g, v, w)
  OBVIOUS
<1>7. d \in 0..N /\ First(d)
  <2> HIDE DEF First
  <2> QED BY <1>4, <1>5, <1>6
<1>8. ASSUME NEW k \in 0..N PROVE w \in ball[k] <=> d <= k
  <2>1. d <= k => w \in ball[k]
    BY <1>2, <1>7
  <2>2. ~(d <= k) => k \in 0..(d - 1)
    BY <1>7, SizeFact
  <2> QED BY <1>7, <2>1, <2>2
<1> QED BY <1>1, <1>6, <1>7, <1>8

LEMMA DistanceZero ==
  ASSUME NEW g \in Topologies, NEW v \in Routers, NEW w \in Routers
  PROVE  Distance(g, v, w) = 0 <=> w = v
<1>1. w \in Within(g, v)[0] <=> Distance(g, v, w) <= 0
  BY DistanceFact, SizeFact
<1>2. Within(g, v)[0] = {v} /\ Distance(g, v, w) \in Nat
  BY WithinFact, DistanceFact, SizeFact
<1> QED BY <1>1, <1>2

\* The distances of neighbours differ by one at most.
LEMMA DistanceHop ==
  ASSUME NEW g \in Topologies, NEW v \in Routers, NEW u \in Routers,
         NEW w \in Neighbours(g, u)
  PROVE  w \in Routers /\ Distance(g, v, w) <= Distance(g, v, u) + 1
<1>1. w \in Routers
  BY NeighboursFact
<1>2. PICK d : d = Distance(g, v, u)
  OBVIOUS
<1>3. d \in 0..N /\ Distance(g, v, w) \in 0..N
  BY <1>1, <1>2, DistanceFact
<1>4. CASE d = N
  BY <1>1, <1>2, <1>3, <1>4, SizeFact
<1>5. CASE d # N
  <2>1. d + 1 \in 1..N /\ (d + 1) - 1 = d /\ d + 1 \in 0..N
    BY <1>3, <1>5, SizeFact
  <2>2. u \in Within(g, v)[d]
    BY <1>2, <1>3, DistanceFact, SizeFact
  <2>3. Within(g, v)[d + 1] = Grow(g, Within(g, v)[d])
    BY <2>1, WithinFact
  <2>4. w \in Within(g, v)[d + 1]
    BY <2>2, <2>3 DEF Grow
  <2> QED BY <1>1, <1>2, <2>1, <2>4, DistanceFact
<1> QED BY <1>4, <1>5

\* A router that is not v has a neighbour one hop nearer to v.
LEMMA DistanceBack ==
  ASSUME NEW g \in Topologies, NEW v \in Routers, NEW w \in Routers, w # v
  PROVE  \E u \in Routers : /\ w \in Neighbours(g, u)
                            /\ Distance(g, v, u) + 1 = Distance(g, v, w)
<1>1. PICK d : d = Distance(g, v, w)
  OBVIOUS
<1>2. d \in 1..N /\ d - 1 \in 0..N /\ d \in 0..N
  BY <1>1, DistanceFact, DistanceZero, SizeFact
<1>3. w \in Within(g, v)[d] /\ w \notin Within(g, v)[d - 1]
  BY <1>1, <1>2, DistanceFact
<1>4. /\ Within(g, v)[d] = Grow(g, Within(g, v)[d - 1])
      /\ Within(g, v)[d - 1] \subseteq Routers
  <2>1. Within(g, v)[d] = Grow(g, Within(g, v)[d - 1])
    BY <1>2, WithinFact
  <2>2. Within(g, v)[d - 1] \in SUBSET Routers
    <3>1. PICK b : b = Within(g, v)
      OBVIOUS
    <3>2. b \in [0..N -> SUBSET Routers]
      BY <3>1, WithinFact
    <3>3. b[d - 1] \in SUBSET Routers
      BY <1>2, <3>2
    <3> QED BY <3>1, <3>3
  <2> QED BY <2>1, <2>2
<1>5. PICK u \in Within(g, v)[d - 1] : w \in Neighbours(g, u)
  BY <1>3, <1>4 DEF Grow
<1>6. u \in Routers
  BY <1>4
<1>7. Distance(g, v, u) <= d - 1 /\ Distance(g, v, u) \in 0..N
  BY <1>2, <1>5, <1>6, DistanceFact
<1>8. d <= Distance(g, v, u) + 1
  BY <1>1, <1>5, <1>6, DistanceHop
<1>9. Distance(g, v, u) + 1 = d
  BY <1>2, <1>7, <1>8
<1> QED BY <1>1, <1>5, <1>6, <1>9

LEMMA Triangle ==
  ASSUME NEW g \in Topologies, NEW a \in Routers, NEW b \in Routers, NEW c \in Routers
  PROVE  Distance(g, a, c) <= Distance(g, a, b) + Distance(g, b, c)
<1> DEFINE Near(k, x) == Distance(g, b, x) = k
                         => Distance(g, a, x) <= Distance(g, a, b) + k
           P == {k \in 0..N : \A x \in Routers : Near(k, x)}
<1>0. \A x, y \in Routers : Distance(g, x, y) \in 0..N /\ Distance(g, x, y) \in Nat
  BY DistanceFact, SizeFact
<1>1. 0 \in P
  <2>1. ASSUME NEW x \in Routers PROVE Near(0, x)
    BY <1>0, DistanceZero
  <2> QED BY <2>1, SizeFact
<1>2. ASSUME NEW k \in 0..(N - 1), k \in P PROVE k + 1 \in P
  <2>1. ASSUME NEW x \in Routers, Distance(g, b, x) = k + 1
        PROVE  Distance(g, a, x) <= Distance(g, a, b) + (k + 1)
    <3>1. x # b
      BY <2>1, DistanceZero
    <3>2. PICK u \in Routers : /\ x \in Neighbours(g, u)
                               /\ Distance(g, b, u) + 1 = Distance(g, b, x)
      BY <3>1, DistanceBack
    <3>3. Distance(g, b, u) = k
      BY <1>0, <2>1, <3>2
    <3>4. Distance(g, a, u) <= Distance(g, a, b) + k
      BY <1>2, <3>3
    <3>5. Distance(g, a, x) <= Distance(g, a, u) + 1
      BY <3>2, DistanceHop
    <3> QED BY <1>0, <3>4, <3>5
  <2>2. k + 1 \in 0..N
    BY SizeFact
  <2> QED BY <2>1, <2>2
<1>3. 0..N \subseteq P
  <2> HIDE DEF P
  <2> QED BY <1>1, <1>2, SizeFact, Induction
<1>4. Distance(g, b, c) \in P
  BY <1>0, <1>3
<1> QED BY <1>4

-----------------------------------------------------------------------------
(* The routing tables.                                                     *)

Searches == [done : SUBSET Routers, distance : [Routers -> Nat],
             predecessor : [Routers -> Routers]]

\* Nearest is a router to visit none is nearer than.
LEMMA NearestFact ==
  ASSUME NEW d \in Searches, d.done # Routers
  PROVE  /\ Nearest(d) \in Routers \ d.done
         /\ \A w \in Routers \ d.done : d.distance[Nearest(d)] <= d.distance[w]
<1> DEFINE Left == Routers \ d.done
           Best(v) == \A w \in Left : \/ d.distance[v] < d.distance[w]
                                      \/ d.distance[v] = d.distance[w] /\ v <= w
           distances == {d.distance[w] : w \in Left}
<1>1. /\ Left # {} /\ Left \subseteq Nat
      /\ \A w \in Left : d.distance[w] \in Nat
  <2>1. d.done \subseteq Routers /\ d.distance \in [Routers -> Nat]
    BY DEF Searches
  <2>2. Routers \subseteq Nat
    BY RouterAssumption
  <2> QED BY <2>1, <2>2
<1>2. PICK m \in distances : \A x \in distances : m <= x
  <2>1. distances \subseteq Nat /\ distances # {}
    BY <1>1
  <2> HIDE DEF distances
  <2> QED BY <2>1, LeastElement
<1> DEFINE T == {w \in Left : d.distance[w] = m}
<1>3. PICK v \in T : \A x \in T : v <= x
  <2>1. T \subseteq Nat /\ T # {}
    BY <1>1, <1>2
  <2> HIDE DEF T
  <2> QED BY <2>1, LeastElement
<1>4. v \in Left /\ Best(v)
  <2> SUFFICES ASSUME NEW w \in Left
               PROVE  \/ d.distance[v] < d.distance[w]
                      \/ d.distance[v] = d.distance[w] /\ v <= w
    BY <1>3
  <2>1. d.distance[v] = m /\ m \in Nat /\ m <= d.distance[w] /\ d.distance[w] \in Nat
    BY <1>1, <1>2, <1>3
  <2>2. CASE d.distance[w] = m
    BY <1>3, <2>1, <2>2
  <2>3. CASE d.distance[w] # m
    BY <2>1, <2>3
  <2> QED BY <2>2, <2>3
<1>5. Nearest(d) = CHOOSE x \in Left : Best(x)
  BY DEF Nearest
<1>6. Nearest(d) \in Left /\ Best(Nearest(d))
  <2> HIDE DEF Left, Best
  <2> QED BY <1>4, <1>5
<1> QED BY <1>1, <1>6

LEMMA VisitType ==
  ASSUME NEW g, NEW d \in Searches, d.done # Routers
  PROVE  Visit(g, d) \in Searches
<1> DEFINE next == Nearest(d)
           weight == d.distance[next] + 1
           relaxed == {w \in Neighbours(g, next) : d.distance[w] > weight}
<1>1. next \in Routers
  BY NearestFact
<1>2. /\ d.done \in SUBSET Routers /\ d.distance \in [Routers -> Nat]
      /\ d.predecessor \in [Routers -> Routers]
  BY DEF Searches
<1> HIDE DEF next
<1>3. weight \in Nat
  BY <1>1, <1>2
<1>4. Visit(g, d) =
        [done |-> d.done \cup {next},
         distance |-> [w \in Routers |-> IF w \in relaxed THEN weight ELSE d.distance[w]],
         predecessor |-> [w \in Routers |-> IF w \in relaxed THEN next
                                            ELSE d.predecessor[w]]]
  BY DEF Visit, next
<1> HIDE DEF weight, relaxed
<1>5. d.done \cup {next} \in SUBSET Routers
  BY <1>1, <1>2
<1>6. [w \in Routers |-> IF w \in relaxed THEN weight ELSE d.distance[w]]
        \in [Routers -> Nat]
  BY <1>2, <1>3
<1>7. [w \in Routers |-> IF w \in relaxed THEN next ELSE d.predecessor[w]]
        \in [Routers -> Routers]
  BY <1>1, <1>2
<1> QED BY <1>4, <1>5, <1>6, <1>7 DEF Searches

\* After k visits: a distance found is right, the neighbours of the routers
\* visited have one, and a predecessor is one hop nearer to v.
Searched(g, v, d, k) ==
  /\ d \in Searches /\ Cardinality(d.done) = k
  /\ \A w \in Routers : d.distance[w] \in {INFINITY, Distance(g, v, w)}
  /\ d.distance[v] # INFINITY
  /\ \A u \in d.done : \A w \in Neighbours(g, u) : d.distance[w] # INFINITY
  /\ \A w \in Routers \ {v} : d.distance[w] # INFINITY =>
       /\ w \in Neighbours(g, d.predecessor[w])
       /\ Distance(g, v, d.predecessor[w]) + 1 = Distance(g, v, w)

Start(v) == [done |-> {},
             distance |-> [w \in Routers |-> IF w = v THEN 0 ELSE INFINITY],
             predecessor |-> [w \in Routers |-> w]]

LEMMA SearchStarts ==
  ASSUME NEW g \in Topologies, NEW v \in Routers
  PROVE  Searched(g, v, Start(v), 0)
<1>1. Start(v) \in Searches
  BY DEF Start, Searches, INFINITY
<1>2. Cardinality({}) = 0
  BY FS_EmptySet
<1>3. Distance(g, v, v) = 0
  BY DistanceZero
<1> QED BY <1>1, <1>2, <1>3 DEF Start, Searched, INFINITY

\* Whatever is no farther than the nearest router to visit was found.
LEMMA NearerIsFound ==
  ASSUME NEW g \in Topologies, NEW v \in Routers, NEW d, NEW k, Searched(g, v, d, k),
         NEW m \in Nat, \A w \in Routers \ d.done : m <= d.distance[w],
         NEW w \in Routers, Distance(g, v, w) <= m
  PROVE  d.distance[w] # INFINITY
<1> DEFINE Missing(x) == x \in Routers /\ Distance(g, v, x) <= m /\ d.distance[x] = INFINITY
           T == {Distance(g, v, x) : x \in {y \in Routers : Missing(y)}}
<1>0. \A x \in Routers : Distance(g, v, x) \in 0..N /\ Distance(g, v, x) \in Nat
  BY DistanceFact, SizeFact
<1> SUFFICES ASSUME T # {} PROVE FALSE
  OBVIOUS
<1>1. PICK t \in T : \A x \in T : t <= x
  <2>1. T \subseteq Nat
    BY <1>0
  <2> HIDE DEF T
  <2> QED BY <2>1, LeastElement
<1>2. PICK x \in Routers : Missing(x) /\ t = Distance(g, v, x)
  BY <1>1
<1>3. x # v
  BY <1>2 DEF Searched
<1>4. PICK u \in Routers : /\ x \in Neighbours(g, u)
                           /\ Distance(g, v, u) + 1 = Distance(g, v, x)
  BY <1>3, DistanceBack
<1>5. Distance(g, v, u) < t /\ Distance(g, v, u) < m
  BY <1>0, <1>2, <1>4
<1>6. ~Missing(u)
  <2> SUFFICES ASSUME Missing(u) PROVE FALSE
    OBVIOUS
  <2>1. Distance(g, v, u) \in T
    OBVIOUS
  <2>2. t <= Distance(g, v, u)
    <3> HIDE DEF T
    <3> QED BY <1>1, <2>1
  <2> QED BY <1>0, <1>2, <1>5, <2>2
<1>7. d.distance[u] = Distance(g, v, u)
  BY <1>0, <1>5, <1>6 DEF Searched
<1>8. u \in d.done
  BY <1>0, <1>5, <1>7
<1> QED BY <1>2, <1>4, <1>8 DEF Searched

\* One visit: exactly the neighbours that had no distance are relaxed.
LEMMA VisitStep ==
  ASSUME NEW g \in Topologies, NEW v \in Routers, NEW d, NEW k \in 0..(N - 1),
         Searched(g, v, d, k)
  PROVE  Searched(g, v, Visit(g, d), k + 1)
<1> DEFINE next == Nearest(d)
           weight == d.distance[next] + 1
           relaxed == {w \in Neighbours(g, next) : d.distance[w] > weight}
           e == Visit(g, d)
<1>0. \A w \in Routers : /\ Distance(g, v, w) \in 0..N /\ Distance(g, v, w) \in Nat
                         /\ Distance(g, v, w) < INFINITY
  BY DistanceFact, SizeFact DEF INFINITY
<1>1. /\ d.done \subseteq Routers /\ d.distance \in [Routers -> Nat]
      /\ d.predecessor \in [Routers -> Routers] /\ d \in Searches
      /\ Cardinality(d.done) = k
  BY DEF Searched, Searches
<1>2. d.done # Routers
  BY <1>1, SizeFact DEF N
<1>3. /\ next \in Routers /\ next \notin d.done
      /\ \A w \in Routers \ d.done : d.distance[next] <= d.distance[w]
  BY <1>1, <1>2, NearestFact
<1>4. e = [done |-> d.done \cup {next},
           distance |-> [w \in Routers |-> IF w \in relaxed THEN weight ELSE d.distance[w]],
           predecessor |-> [w \in Routers |-> IF w \in relaxed THEN next
                                              ELSE d.predecessor[w]]]
  BY DEF Visit
<1>5. d.distance[next] \in Nat /\ weight \in Nat /\ Neighbours(g, next) \subseteq Routers
  BY <1>1, <1>3, NeighboursFact
<1> HIDE DEF e, next
<1>6. \A w \in Routers : Distance(g, v, w) <= d.distance[next] => d.distance[w] # INFINITY
  BY <1>1, <1>3, <1>5, NearerIsFound
<1>7. d.distance[next] = Distance(g, v, next)
  <2>1. d.distance[next] \in {INFINITY, Distance(g, v, next)}
    BY <1>3 DEF Searched
  <2>2. CASE d.distance[next] = INFINITY
    <3>1. Distance(g, v, next) <= d.distance[next]
      BY <1>0, <1>3, <2>2 DEF INFINITY
    <3> QED BY <1>3, <1>6, <2>2, <3>1
  <2> QED BY <2>1, <2>2
<1>8. ASSUME NEW w \in Neighbours(g, next)
      PROVE  /\ w \in Routers /\ Distance(g, v, w) <= weight
             /\ w \in relaxed <=> d.distance[w] = INFINITY
             /\ w \in relaxed => Distance(g, v, w) = weight
  <2>1. w \in Routers /\ Distance(g, v, w) <= weight
    BY <1>3, <1>7, DistanceHop
  <2>2. d.distance[w] \in {INFINITY, Distance(g, v, w)} /\ d.distance[w] \in Nat
    BY <1>1, <2>1 DEF Searched
  <2>3. CASE d.distance[w] = INFINITY
    <3>1. ~(Distance(g, v, w) <= d.distance[next])
      BY <1>6, <2>1, <2>3
    <3>2. Distance(g, v, w) = weight
      BY <1>0, <1>5, <2>1, <3>1
    <3>3. weight < INFINITY
      BY <1>0, <2>1, <3>2
    <3>4. w \in relaxed
      BY <1>5, <2>2, <2>3, <3>3 DEF INFINITY
    <3> QED BY <2>1, <2>3, <3>2, <3>4
  <2>4. CASE d.distance[w] # INFINITY
    <3>1. ~(d.distance[w] > weight)
      BY <1>0, <1>5, <2>1, <2>2, <2>4
    <3> QED BY <2>1, <2>4, <3>1
  <2> QED BY <2>3, <2>4
<1>9. /\ e \in Searches /\ e.done = d.done \cup {next}
      /\ \A w \in Routers : /\ e.distance[w] = IF w \in relaxed THEN weight ELSE d.distance[w]
                            /\ e.predecessor[w] = IF w \in relaxed THEN next
                                                  ELSE d.predecessor[w]
  <2> HIDE DEF relaxed, weight
  <2>1. e \in Searches
    BY <1>1, <1>2, VisitType DEF e
  <2> QED BY <1>4, <2>1
<1>10. Cardinality(e.done) = k + 1
  <2>1. IsFiniteSet(d.done)
    BY <1>1, RouterAssumption, FS_Subset
  <2> QED BY <1>1, <1>3, <1>9, <2>1, FS_AddElement
<1>11. \A w \in relaxed : w \in Neighbours(g, next)
  OBVIOUS
<1> HIDE DEF relaxed, weight
<1>12. ASSUME NEW w \in Routers PROVE e.distance[w] \in {INFINITY, Distance(g, v, w)}
  <2>1. CASE w \in relaxed
    BY <1>8, <1>9, <1>11, <2>1
  <2>2. CASE w \notin relaxed
    BY <1>9, <2>2 DEF Searched
  <2> QED BY <2>1, <2>2
<1>13. \A w \in Routers : d.distance[w] # INFINITY =>
          /\ w \notin relaxed /\ e.distance[w] = d.distance[w]
          /\ e.predecessor[w] = d.predecessor[w]
  BY <1>8, <1>9, <1>11
<1>14. \A w \in Neighbours(g, next) : e.distance[w] # INFINITY
  <2> SUFFICES ASSUME NEW w \in Neighbours(g, next) PROVE e.distance[w] # INFINITY
    OBVIOUS
  <2>1. CASE w \in relaxed
    <3>1. e.distance[w] = Distance(g, v, w) /\ w \in Routers
      BY <1>8, <1>9, <2>1
    <3> QED BY <1>0, <3>1 DEF INFINITY
  <2>2. CASE w \notin relaxed
    BY <1>8, <1>13, <2>2
  <2> QED BY <2>1, <2>2
<1>15. \A u \in e.done : \A w \in Neighbours(g, u) : e.distance[w] # INFINITY
  <2> SUFFICES ASSUME NEW u \in e.done, NEW w \in Neighbours(g, u)
               PROVE  e.distance[w] # INFINITY
    OBVIOUS
  <2>1. CASE u = next
    BY <1>14, <2>1
  <2>2. CASE u \in d.done
    <3>1. d.distance[w] # INFINITY /\ w \in Routers
      BY <1>1, <2>2, NeighboursFact DEF Searched
    <3> QED BY <1>13, <3>1
  <2> QED BY <1>9, <2>1, <2>2
<1>16. ASSUME NEW w \in Routers \ {v}, e.distance[w] # INFINITY
       PROVE  /\ w \in Neighbours(g, e.predecessor[w])
              /\ Distance(g, v, e.predecessor[w]) + 1 = Distance(g, v, w)
  <2>1. CASE w \in relaxed
    <3>1. e.predecessor[w] = next /\ Distance(g, v, w) = weight /\ w \in Neighbours(g, next)
      BY <1>8, <1>9, <1>11, <2>1
    <3> QED BY <1>7, <3>1 DEF weight
  <2>2. CASE w \notin relaxed
    <3>1. e.predecessor[w] = d.predecessor[w] /\ d.distance[w] # INFINITY
      BY <1>9, <1>16, <2>2
    <3> QED BY <3>1 DEF Searched
  <2> QED BY <2>1, <2>2
<1>17. e.distance[v] # INFINITY
  BY <1>13 DEF Searched
<1>18. Searched(g, v, e, k + 1)
  BY <1>9, <1>10, <1>12, <1>15, <1>16, <1>17 DEF Searched
<1> QED BY <1>18 DEF e

LEMMA SearchGoesOn ==
  ASSUME NEW g \in Topologies, NEW v \in Routers, NEW h, h[0] = Start(v),
         \A k \in 1..N : h[k - 1].done # Routers => h[k] = Visit(g, h[k - 1])
  PROVE  \A k \in 0..N : Searched(g, v, h[k], k)
<1> DEFINE P == {k \in 0..N : Searched(g, v, h[k], k)}
<1>1. 0 \in P
  BY SearchStarts, SizeFact
<1>2. ASSUME NEW k \in 0..(N - 1), k \in P PROVE k + 1 \in P
  <2>1. k + 1 \in 1..N /\ (k + 1) - 1 = k /\ k + 1 \in 0..N
    BY SizeFact
  <2>2. Cardinality(h[k].done) = k /\ k # N
    BY <1>2, SizeFact DEF Searched
  <2>3. h[k + 1] = Visit(g, h[k])
    BY <2>1, <2>2 DEF N
  <2>4. Searched(g, v, Visit(g, h[k]), k + 1)
    BY <1>2, VisitStep
  <2> QED BY <2>1, <2>3, <2>4
<1>3. 0..N \subseteq P
  <2> HIDE DEF P
  <2> QED BY <1>1, <1>2, SizeFact, Induction
<1> QED BY <1>3

\* What the visits of Visited(g, v) satisfy.
AreVisits(g, v, h) ==
  h = [k \in 0..N |-> IF k = 0 THEN Start(v) ELSE Visit(g, h[k - 1])]

LEMMA VisitedFact ==
  ASSUME NEW g \in Topologies, NEW v \in Routers
  PROVE  Searched(g, v, Visited(g, v), N)
<1>0. 0 \in 0..N /\ N \in 0..N /\ \A k \in 1..N : k \in 0..N /\ k - 1 \in 0..N /\ k # 0
  BY SizeFact
<1>1. PICK step \in [Searches -> Searches] :
        \A d \in Searches : Visit(g, d) \in Searches => step[d] = Visit(g, d)
  <2> DEFINE s == [d \in Searches |-> IF Visit(g, d) \in Searches THEN Visit(g, d) ELSE d]
  <2>1. s \in [Searches -> Searches]
    OBVIOUS
  <2>2. \A d \in Searches : Visit(g, d) \in Searches => s[d] = Visit(g, d)
    OBVIOUS
  <2> QED BY <2>1, <2>2
<1>2. PICK f \in [0..N -> Searches] : Iterates(f, Start(v), step, N)
  <2>1. Start(v) \in Searches
    BY SearchStarts DEF Searched
  <2> QED BY <2>1, SizeFact, Iteration
<1>3. f[0] = Start(v) /\ \A k \in 1..N : f[k] = step[f[k - 1]] /\ f[k - 1] \in Searches
  BY <1>0, <1>2 DEF Iterates
<1>4. ASSUME NEW k \in 1..N, f[k - 1].done # Routers PROVE f[k] = Visit(g, f[k - 1])
  <2> DEFINE d == f[k - 1]
  <2>1. d \in Searches /\ d.done # Routers
    BY <1>3, <1>4
  <2>2. Visit(g, d) \in Searches
    <3> HIDE DEF d
    <3> QED BY <2>1, VisitType
  <2> QED BY <1>1, <1>3, <2>1, <2>2
<1>5. \A k \in 0..N : Searched(g, v, f[k], k)
  BY <1>3, <1>4, SearchGoesOn
<1>6. ASSUME NEW k \in 1..N PROVE f[k] = Visit(g, f[k - 1])
  <2>1. Searched(g, v, f[k - 1], k - 1)
    BY <1>0, <1>5
  <2>2. f[k - 1].done # Routers
    BY <1>0, <2>1, SizeFact DEF Searched, N
  <2> QED BY <1>4, <2>2
<1>7. AreVisits(g, v, f)
  <2>1. \A k \in 0..N : f[k] = IF k = 0 THEN Start(v) ELSE Visit(g, f[k - 1])
    <3>1. \A k \in 0..N : k # 0 => k \in 1..N
      BY SizeFact
    <3> QED BY <1>3, <1>6, <3>1
  <2>2. f = [k \in 0..N |-> f[k]]
    BY <1>2
  <2> QED BY <2>1, <2>2 DEF AreVisits
<1> DEFINE h == CHOOSE h : AreVisits(g, v, h)
<1>8. Visited(g, v) = h[N]
  BY DEF Visited, AreVisits, Start, N
<1>9. AreVisits(g, v, h)
  BY <1>7
<1> HIDE DEF h
<1>10. h[0] = Start(v) /\ \A k \in 1..N : h[k] = Visit(g, h[k - 1])
  <2>1. \A k \in 0..N : h[k] = IF k = 0 THEN Start(v) ELSE Visit(g, h[k - 1])
    BY <1>9 DEF AreVisits
  <2> QED BY <1>0, <2>1
<1>11. \A k \in 0..N : Searched(g, v, h[k], k)
  BY <1>10, SearchGoesOn
<1> QED BY <1>0, <1>8, <1>11

\* Every router has been visited: the predecessors lead to v by shortest paths.
LEMMA PredecessorFact ==
  ASSUME NEW g \in Topologies, NEW v \in Routers,
         NEW p, p = Visited(g, v).predecessor
  PROVE  /\ p \in [Routers -> Routers]
         /\ \A w \in Routers \ {v} : /\ w \in Neighbours(g, p[w])
                                     /\ Distance(g, v, p[w]) + 1 = Distance(g, v, w)
<1>1. PICK d : d = Visited(g, v)
  OBVIOUS
<1>2. Searched(g, v, d, N) /\ p = d.predecessor
  BY <1>1, VisitedFact
<1>3. p \in [Routers -> Routers] /\ d.done \subseteq Routers /\ Cardinality(d.done) = N
  BY <1>2 DEF Searched, Searches
<1>4. d.done = Routers
  BY <1>3, RouterAssumption, FS_Subset, SizeFact DEF N
<1>5. ASSUME NEW w \in Routers \ {v} PROVE d.distance[w] # INFINITY
  <2>1. PICK u \in Routers : w \in Neighbours(g, u)
    BY DistanceBack
  <2> QED BY <1>2, <1>4, <2>1 DEF Searched
<1> QED BY <1>2, <1>3, <1>5 DEF Searched

\* What the routes along the predecessors p satisfy.
AreRoutes(p, v, s) ==
  s = [w \in Routers \ {v} |-> IF p[w] = v THEN w ELSE s[p[w]]]

\* The predecessors come to an end, so there are such routes: the step that
\* follows them once more has changed nothing after N steps.
LEMMA RoutesExist ==
  ASSUME NEW g \in Topologies, NEW v \in Routers, NEW p \in [Routers -> Routers],
         \A w \in Routers \ {v} : Distance(g, v, p[w]) + 1 = Distance(g, v, w)
  PROVE  \E s : AreRoutes(p, v, s)
<1> DEFINE Others == Routers \ {v}
           S == [Others -> Routers]
<1>0. \A w \in Routers : Distance(g, v, w) \in 0..N /\ Distance(g, v, w) \in Nat
  BY DistanceFact, SizeFact
<1>1. PICK step \in [S -> S] :
        \A s \in S : step[s] = [w \in Others |-> IF p[w] = v THEN w ELSE s[p[w]]]
  <2> DEFINE f == [s \in S |-> [w \in Others |-> IF p[w] = v THEN w ELSE s[p[w]]]]
  <2>1. ASSUME NEW s \in S
        PROVE  [w \in Others |-> IF p[w] = v THEN w ELSE s[p[w]]] \in S
    BY <2>1
  <2>2. f \in [S -> S]
    <3> HIDE DEF S
    <3> QED BY <2>1
  <2> QED BY <2>2
<1>2. PICK f \in [0..(N + 1) -> S] : Iterates(f, [w \in Others |-> w], step, N + 1)
  <2>1. [w \in Others |-> w] \in S /\ N + 1 \in Nat
    BY SizeFact
  <2> HIDE DEF S, Others
  <2> QED BY <2>1, Iteration
<1>3. ASSUME NEW k \in 0..N, NEW w \in Others
      PROVE  f[k + 1][w] = IF p[w] = v THEN w ELSE f[k][p[w]]
  <2>1. k + 1 \in 1..(N + 1) /\ (k + 1) - 1 = k /\ k \in 0..(N + 1)
    BY SizeFact
  <2>2. f[k + 1] = step[f[k]] /\ f[k] \in S
    <3> HIDE DEF S
    <3> QED BY <1>2, <2>1 DEF Iterates
  <2>3. step[f[k]] = [x \in Others |-> IF p[x] = v THEN x ELSE f[k][p[x]]]
    <3> HIDE DEF S
    <3> QED BY <1>1, <2>2
  <2> QED BY <2>2, <2>3
<1> DEFINE Same(k, w) == Distance(g, v, w) <= k => f[k + 1][w] = f[k][w]
           P == {k \in 0..N : \A w \in Others : Same(k, w)}
<1>4. 0 \in P
  <2>1. \A w \in Others : ~(Distance(g, v, w) <= 0)
    BY <1>0, DistanceZero
  <2> QED BY <2>1, SizeFact
<1>5. ASSUME NEW k \in 0..(N - 1), k \in P PROVE k + 1 \in P
  <2>1. k \in 0..N /\ k + 1 \in 0..N
    BY SizeFact
  <2>2. ASSUME NEW w \in Others, Distance(g, v, w) <= k + 1
        PROVE  f[(k + 1) + 1][w] = f[k + 1][w]
    <3>1. /\ f[(k + 1) + 1][w] = IF p[w] = v THEN w ELSE f[k + 1][p[w]]
          /\ f[k + 1][w] = IF p[w] = v THEN w ELSE f[k][p[w]]
      BY <1>3, <2>1
    <3>2. CASE p[w] = v
      BY <3>1, <3>2
    <3>3. CASE p[w] # v
      <4>1. p[w] \in Others /\ Distance(g, v, p[w]) + 1 = Distance(g, v, w)
        BY <3>3
      <4>2. Distance(g, v, p[w]) <= k
        BY <1>0, <2>2, <4>1
      <4>3. f[k + 1][p[w]] = f[k][p[w]]
        BY <1>5, <4>1, <4>2
      <4> QED BY <3>1, <3>3, <4>3
    <3> QED BY <3>2, <3>3
  <2> HIDE DEF Others
  <2> QED BY <2>1, <2>2
<1>6. N \in P
  <2>1. 0..N \subseteq P
    <3> HIDE DEF P
    <3> QED BY <1>4, <1>5, SizeFact, Induction
  <2> QED BY <2>1, SizeFact
<1>7. ASSUME NEW w \in Others PROVE f[N][w] = IF p[w] = v THEN w ELSE f[N][p[w]]
  <2>1. f[N + 1][w] = f[N][w]
    BY <1>0, <1>6
  <2> QED BY <1>3, <2>1, SizeFact
<1>8. f[N] = [w \in Others |-> f[N][w]]
  <2>1. f[N] \in S
    <3> HIDE DEF S
    <3> QED BY <1>2, SizeFact
  <2> QED BY <2>1
<1>9. AreRoutes(p, v, f[N])
  BY <1>7, <1>8 DEF AreRoutes
<1> QED BY <1>9

\* The table a router makes for itself names for every other router a neighbour
\* that is one hop nearer to it: the visits of the loop find the distances, and
\* the walk back along the predecessors finds the first hop (createTable).
THEOREM TablesLeadNearer ==
  ASSUME NEW g \in Topologies, NEW v \in Routers, NEW w \in Routers \ {v},
         NEW x, x = createTable(g, v)[w]
  PROVE  x \in Neighbours(g, v) /\ Distance(g, x, w) + 1 = Distance(g, v, w)
<1>1. PICK p : p = Visited(g, v).predecessor
  OBVIOUS
<1>2. /\ p \in [Routers -> Routers]
      /\ \A y \in Routers \ {v} : /\ y \in Neighbours(g, p[y])
                                  /\ Distance(g, v, p[y]) + 1 = Distance(g, v, y)
  BY <1>1, PredecessorFact
<1> DEFINE s == CHOOSE s : AreRoutes(p, v, s)
<1>3. createTable(g, v) = s
  BY <1>1 DEF createTable, AreRoutes
<1>4. AreRoutes(p, v, s)
  <2>1. \E r : AreRoutes(p, v, r)
    BY <1>2, RoutesExist
  <2> QED BY <2>1
<1> HIDE DEF s
<1>5. \A y \in Routers \ {v} : s[y] = IF p[y] = v THEN y ELSE s[p[y]]
  BY <1>4 DEF AreRoutes
<1>0. \A y, z \in Routers : Distance(g, y, z) \in 0..N /\ Distance(g, y, z) \in Nat
  BY DistanceFact, SizeFact
<1> DEFINE Leads(y, z) == z \in Neighbours(g, v) /\ Distance(g, z, y) + 1 = Distance(g, v, y)
           P == {k \in 0..N : \A y \in Routers \ {v} : Distance(g, v, y) = k => Leads(y, s[y])}
<1>6. 0 \in P
  <2>1. \A y \in Routers \ {v} : Distance(g, v, y) # 0
    BY DistanceZero
  <2> QED BY <2>1, SizeFact
<1>7. ASSUME NEW k \in 0..(N - 1), k \in P PROVE k + 1 \in P
  <2>1. ASSUME NEW y \in Routers \ {v}, Distance(g, v, y) = k + 1 PROVE Leads(y, s[y])
    <3>1. /\ y \in Neighbours(g, p[y]) /\ Distance(g, v, p[y]) = k /\ p[y] \in Routers
      BY <1>0, <1>2, <2>1
    <3>2. CASE p[y] = v
      <4>1. Distance(g, y, y) = 0 /\ Distance(g, v, v) = 0
        BY DistanceZero
      <4> QED BY <1>5, <2>1, <3>1, <3>2, <4>1
    <3>3. CASE p[y] # v
      <4>1. s[y] = s[p[y]] /\ Leads(p[y], s[p[y]])
        BY <1>5, <1>7, <3>1, <3>3
      <4> DEFINE z == s[y]
      <4>2. z \in Neighbours(g, v) /\ Distance(g, z, p[y]) + 1 = k
        BY <3>1, <4>1
      <4> HIDE DEF z
      <4>3. z \in Routers
        BY <4>2, NeighboursFact
      <4>4. Distance(g, z, y) <= Distance(g, z, p[y]) + 1
        BY <3>1, <4>3, DistanceHop
      <4>5. Distance(g, v, z) <= 1
        <5>1. Distance(g, v, v) = 0
          BY DistanceZero
        <5>2. Distance(g, v, z) <= Distance(g, v, v) + 1
          BY <4>2, DistanceHop
        <5> QED BY <5>1, <5>2
      <4>6. Distance(g, v, y) <= Distance(g, v, z) + Distance(g, z, y)
        BY <4>3, Triangle
      <4>7. Distance(g, z, y) + 1 = Distance(g, v, y)
        BY <1>0, <2>1, <3>1, <4>2, <4>3, <4>4, <4>5, <4>6
      <4> QED BY <4>2, <4>7 DEF z
    <3> QED BY <3>2, <3>3
  <2>2. k + 1 \in 0..N
    BY SizeFact
  <2> QED BY <2>1, <2>2
<1>8. 0..N \subseteq P
  <2> HIDE DEF P
  <2> QED BY <1>6, <1>7, SizeFact, Induction
<1>9. Distance(g, v, w) \in P
  BY <1>0, <1>8
<1> QED BY <1>3, <1>9

-----------------------------------------------------------------------------
(* The way of a flow.                                                      *)

\* The routers the packets of f pass, by the tables.
Trail(g, f) ==
  CHOOSE h \in [0..N -> Routers] :
    /\ h[0] = f[1]
    /\ \A k \in 1..N : h[k - 1] # f[2] => h[k] = createTable(g, h[k - 1])[f[2]]

\* A packet of f may be on the queue of v for w.
OnTrail(g, f, v, w) ==
  /\ f[1] \in Routers /\ f[2] \in Routers /\ v # f[2] /\ w = createTable(g, v)[f[2]]
  /\ Distance(g, f[1], v) + 1 + Distance(g, w, f[2]) = Distance(g, f[1], f[2])
  /\ v = Trail(g, f)[Distance(g, f[1], v)]

LEMMA TrailFact ==
  ASSUME NEW g \in Topologies, NEW f, f[1] \in Routers, f[2] \in Routers
  PROVE  /\ Trail(g, f) \in [0..N -> Routers] /\ Trail(g, f)[0] = f[1]
         /\ \A k \in 1..N : Trail(g, f)[k - 1] # f[2] =>
              Trail(g, f)[k] = createTable(g, Trail(g, f)[k - 1])[f[2]]
<1> DEFINE Leads(h) ==
             /\ h[0] = f[1]
             /\ \A k \in 1..N : h[k - 1] # f[2] => h[k] = createTable(g, h[k - 1])[f[2]]
<1>1. PICK step \in [Routers -> Routers] :
        \A v \in Routers \ {f[2]} : step[v] = createTable(g, v)[f[2]]
  <2> DEFINE s == [v \in Routers |-> IF v = f[2] THEN v ELSE createTable(g, v)[f[2]]]
  <2>1. ASSUME NEW v \in Routers, v # f[2] PROVE createTable(g, v)[f[2]] \in Routers
    BY <2>1, TablesLeadNearer, NeighboursFact
  <2>2. s \in [Routers -> Routers]
    BY <2>1
  <2> QED BY <2>2
<1>2. PICK h \in [0..N -> Routers] : Iterates(h, f[1], step, N)
  BY SizeFact, Iteration
<1>3. Leads(h)
  <2>1. \A k \in 1..N : k - 1 \in 0..N
    BY SizeFact
  <2> QED BY <1>1, <1>2, <2>1 DEF Iterates
<1>4. Trail(g, f) = CHOOSE t \in [0..N -> Routers] : Leads(t)
  BY DEF Trail
<1>5. PICK t : t = Trail(g, f)
  OBVIOUS
<1>6. t \in [0..N -> Routers] /\ Leads(t)
  <2> HIDE DEF Leads
  <2> QED BY <1>3, <1>4, <1>5
<1> QED BY <1>5, <1>6

LEMMA TrailStarts ==
  ASSUME NEW g \in Topologies, NEW f, f[1] \in Routers, f[2] \in Routers, f[1] # f[2],
         NEW x, x = createTable(g, f[1])[f[2]]
  PROVE  /\ OnTrail(g, f, f[1], x) /\ x \in Neighbours(g, f[1])
         /\ Distance(g, f[1], f[1]) = 0
<1>1. x \in Neighbours(g, f[1]) /\ Distance(g, x, f[2]) + 1 = Distance(g, f[1], f[2])
  BY TablesLeadNearer
<1>2. Distance(g, f[1], f[1]) = 0
  BY DistanceZero
<1>3. Trail(g, f)[0] = f[1]
  BY TrailFact
<1>4. x \in Routers
  BY <1>1, NeighboursFact
<1>5. Distance(g, x, f[2]) \in Nat
  BY <1>4, DistanceFact, SizeFact
<1> QED BY <1>1, <1>2, <1>3, <1>5 DEF OnTrail

LEMMA TrailGoesOn ==
  ASSUME NEW g \in Topologies, NEW f, NEW v \in Routers, NEW w \in Neighbours(g, v),
         OnTrail(g, f, v, w), w # f[2],
         NEW x, x = createTable(g, w)[f[2]]
  PROVE  /\ OnTrail(g, f, w, x) /\ w \in Routers /\ x \in Neighbours(g, w)
         /\ Distance(g, f[1], w) = Distance(g, f[1], v) + 1
<1>1. /\ f[1] \in Routers /\ f[2] \in Routers /\ w = createTable(g, v)[f[2]] /\ v # f[2]
      /\ Distance(g, f[1], v) + 1 + Distance(g, w, f[2]) = Distance(g, f[1], f[2])
      /\ v = Trail(g, f)[Distance(g, f[1], v)]
  BY DEF OnTrail
<1>2. w \in Routers
  BY NeighboursFact
<1>3. x \in Neighbours(g, w) /\ Distance(g, x, f[2]) + 1 = Distance(g, w, f[2])
  BY <1>1, <1>2, TablesLeadNearer
<1>4. x \in Routers
  BY <1>2, <1>3, NeighboursFact
<1>5. \A y, z \in Routers : Distance(g, y, z) \in 0..N /\ Distance(g, y, z) \in Nat
  BY DistanceFact, SizeFact
<1>6. Distance(g, f[1], w) <= Distance(g, f[1], v) + 1
  BY <1>1, DistanceHop
<1>7. Distance(g, f[1], f[2]) <= Distance(g, f[1], w) + Distance(g, w, f[2])
  BY <1>1, <1>2, Triangle
<1>8. Distance(g, f[1], w) = Distance(g, f[1], v) + 1
  BY <1>1, <1>2, <1>5, <1>6, <1>7
<1>9. Distance(g, f[1], w) + 1 + Distance(g, x, f[2]) = Distance(g, f[1], f[2])
  BY <1>1, <1>2, <1>3, <1>4, <1>5, <1>8
<1>10. w = Trail(g, f)[Distance(g, f[1], w)]
  <2>1. PICK k : k = Distance(g, f[1], w)
    OBVIOUS
  <2>2. k \in 1..N /\ k - 1 = Distance(g, f[1], v)
    BY <1>1, <1>2, <1>5, <1>8, <2>1, SizeFact
  <2>3. Trail(g, f)[k - 1] = v
    BY <1>1, <2>2
  <2>4. Trail(g, f)[k] = createTable(g, v)[f[2]]
    BY <1>1, <2>2, <2>3, TrailFact
  <2> QED BY <1>1, <2>1, <2>4
<1> QED BY <1>1, <1>2, <1>3, <1>8, <1>9, <1>10 DEF OnTrail

\* At the end of the trail no queue is farther on, and none beside it.
LEMMA TrailFollowed ==
  ASSUME NEW g \in Topologies, NEW f,
         NEW v \in Routers, NEW w \in Routers, OnTrail(g, f, v, w),
         NEW x \in Routers, NEW y \in Routers, OnTrail(g, f, x, y)
  PROVE  /\ w = f[2] => Distance(g, f[1], x) <= Distance(g, f[1], v)
         /\ Distance(g, f[1], x) = Distance(g, f[1], v) => x = v /\ y = w
         /\ Distance(g, f[1], v) \in Nat /\ Distance(g, f[1], x) \in Nat
<1>1. \A a, b \in Routers : Distance(g, a, b) \in 0..N /\ Distance(g, a, b) \in Nat
  BY DistanceFact, SizeFact
<1>2. f[1] \in Routers /\ f[2] \in Routers
  BY DEF OnTrail
<1>3. w = f[2] => Distance(g, w, f[2]) = 0
  BY <1>2, DistanceZero
<1>4. w = f[2] => Distance(g, f[1], x) <= Distance(g, f[1], v)
  BY <1>1, <1>2, <1>3 DEF OnTrail
<1>5. Distance(g, f[1], x) = Distance(g, f[1], v) => x = v /\ y = w
  BY DEF OnTrail
<1> QED BY <1>1, <1>2, <1>4, <1>5

-----------------------------------------------------------------------------
(* The queues.                                                             *)

Packets == [flow : Flows, num : Nat]

QueuesOK(g, q) ==
  /\ DOMAIN q = Routers
  /\ \A v \in Routers :
       /\ q[v] \in [Neighbours(g, v) -> Seq(Packets)]
       /\ \A w \in Neighbours(g, v) : Len(q[v][w]) <= QueueMax

\* Only the queue of v for w is changed, to s.
Changed(g, q, r, v, w, s) ==
  /\ QueuesOK(g, r) /\ r[v][w] = s
  /\ \A x \in Routers : \A y \in Neighbours(g, x) :
       x # v \/ y # w => r[x][y] = q[x][y]

LEMMA ChangeQueue ==
  ASSUME NEW g, NEW q, QueuesOK(g, q), NEW v \in Routers, NEW w \in Neighbours(g, v),
         NEW s \in Seq(Packets), Len(s) <= QueueMax,
         NEW r, r = [q EXCEPT ![v][w] = s]
  PROVE  Changed(g, q, r, v, w, s)
<1>1. DOMAIN q = Routers /\ q[v] \in [Neighbours(g, v) -> Seq(Packets)]
  BY DEF QueuesOK
<1>2. /\ DOMAIN r = Routers
      /\ \A x \in Routers : r[x] = IF x = v THEN [q[v] EXCEPT ![w] = s] ELSE q[x]
  BY <1>1
<1>3. /\ r[v] \in [Neighbours(g, v) -> Seq(Packets)] /\ r[v][w] = s
      /\ \A y \in Neighbours(g, v) : y # w => r[v][y] = q[v][y]
  BY <1>1, <1>2
<1>4. ASSUME NEW x \in Routers
      PROVE  /\ r[x] \in [Neighbours(g, x) -> Seq(Packets)]
             /\ \A y \in Neighbours(g, x) : Len(r[x][y]) <= QueueMax
  <2>1. CASE x = v
    <3>1. \A y \in Neighbours(g, v) : Len(r[v][y]) <= QueueMax
      BY <1>3 DEF QueuesOK
    <3> QED BY <1>3, <2>1, <3>1
  <2>2. CASE x # v
    <3>1. r[x] = q[x]
      BY <1>2, <2>2
    <3> QED BY <3>1 DEF QueuesOK
  <2> QED BY <2>1, <2>2
<1>5. \A x \in Routers : x # v => r[x] = q[x]
  BY <1>2
<1> QED BY <1>2, <1>3, <1>4, <1>5 DEF Changed, QueuesOK

LEMMA QueueFact ==
  ASSUME NEW g, NEW q, QueuesOK(g, q), NEW v \in Routers, NEW w \in Neighbours(g, v)
  PROVE  /\ q[v][w] \in Seq(Packets) /\ Len(q[v][w]) \in 0..QueueMax
         /\ DOMAIN q[v][w] = 1..Len(q[v][w])
<1>1. q[v][w] \in Seq(Packets) /\ Len(q[v][w]) <= QueueMax
  BY DEF QueuesOK
<1>2. Len(q[v][w]) \in Nat /\ DOMAIN q[v][w] = 1..Len(q[v][w])
  BY <1>1, LenProperties
<1> QED BY <1>1, <1>2, HubAssumption

\* e is s, or s with pk at its end.
Enqueued(s, pk, e) ==
  \/ e = s
  \/ /\ Len(e) = Len(s) + 1 /\ e[Len(s) + 1] = pk
     /\ \A i \in 1..Len(s) : e[i] = s[i]

\* A full queue drops the packet, another one has it at its end.
LEMMA EnqueueOne ==
  ASSUME NEW s \in Seq(Packets), Len(s) <= QueueMax, NEW pk \in Packets,
         NEW e, e = enQ(s, <<pk>>)
  PROVE  /\ e \in Seq(Packets) /\ Len(e) <= QueueMax
         /\ Enqueued(s, pk, e)
<1>1. PICK n : n = Len(s)
  OBVIOUS
<1>2. n \in Nat /\ QueueMax \in Nat \ {0} /\ n <= QueueMax
  BY <1>1, HubAssumption
<1>3. <<pk>> \in Seq(Packets) /\ Len(<<pk>>) = 1 /\ <<pk>>[1] = pk
  OBVIOUS
<1>4. PICK b : b = s \o <<pk>>
  OBVIOUS
<1>5. /\ b \in Seq(Packets) /\ Len(b) = n + 1 /\ b[n + 1] = pk
      /\ \A i \in 1..n : b[i] = s[i]
  BY <1>1, <1>2, <1>4
<1>0. e = IF n + 1 <= QueueMax THEN b ELSE SubSeq(b, 1, QueueMax)
  <2>1. PICK one : one = <<pk>>
    OBVIOUS
  <2>2. Len(one) = 1 /\ b = s \o one
    BY <1>3, <1>4, <2>1
  <2> QED BY <1>1, <2>1, <2>2 DEF enQ
<1>6. CASE n < QueueMax
  <2>1. n + 1 <= QueueMax
    BY <1>2, <1>6
  <2>2. e = b
    BY <1>0, <2>1
  <2> QED BY <1>1, <1>5, <2>1, <2>2 DEF Enqueued
<1>7. CASE n = QueueMax
  <2>1. e = SubSeq(b, 1, n)
    BY <1>0, <1>2, <1>7
  <2>2. SubSeq(b, 1, n) = s
    BY <1>1, <1>2, <1>3, <1>4, ConcatProperties, SubSeqFull, SubSeqOfConcat1
  <2> QED BY <2>1, <2>2 DEF Enqueued
<1> QED BY <1>2, <1>6, <1>7

\* The i-th packet on the queue of v for w is one of f.
At(g, q, v, w, i, f) ==
  /\ v \in Routers /\ w \in Neighbours(g, v)
  /\ i \in 1..Len(q[v][w]) /\ q[v][w][i].flow = f

\* r is left of q when the head of the queue of v for w was taken.
HeadTaken(g, q, r, v, w) ==
  /\ QueuesOK(g, q) /\ v \in Routers /\ w \in Neighbours(g, v) /\ q[v][w] # << >>
  /\ Changed(g, q, r, v, w, Tail(q[v][w]))

\* r is q with a packet at the end of the queue of v for w.
PacketPut(g, q, r, v, w, pk) ==
  /\ QueuesOK(g, q) /\ v \in Routers /\ w \in Neighbours(g, v)
  /\ pk \in Packets /\ Changed(g, q, r, v, w, r[v][w])
  /\ Len(r[v][w]) = Len(q[v][w]) + 1 /\ r[v][w][Len(q[v][w]) + 1] = pk
  /\ \A i \in 1..Len(q[v][w]) : r[v][w][i] = q[v][w][i]

\* The queues of r are those of q.
SameQueues(g, q, r) ==
  /\ QueuesOK(g, q) /\ QueuesOK(g, r)
  /\ \A v \in Routers : \A w \in Neighbours(g, v) : r[v][w] = q[v][w]

LEMMA TakeHead ==
  ASSUME NEW g, NEW q, QueuesOK(g, q), NEW v \in Routers, NEW w \in Neighbours(g, v),
         q[v][w] # << >>, NEW r, r = [q EXCEPT ![v][w] = Tail(@)]
  PROVE  HeadTaken(g, q, r, v, w)
<1>1. q[v][w] \in Seq(Packets) /\ Len(q[v][w]) \in 0..QueueMax
  BY QueueFact
<1>2. PICK s : s = Tail(q[v][w])
  OBVIOUS
<1>3. s \in Seq(Packets) /\ Len(s) = Len(q[v][w]) - 1
  BY <1>1, <1>2
<1>4. Len(s) <= QueueMax
  BY <1>1, <1>3, HubAssumption
<1>5. r = [q EXCEPT ![v][w] = s]
  BY <1>2
<1>6. Changed(g, q, r, v, w, s)
  BY <1>3, <1>4, <1>5, ChangeQueue
<1> QED BY <1>2, <1>6 DEF HeadTaken

LEMMA PutPacket ==
  ASSUME NEW g, NEW q, QueuesOK(g, q), NEW v \in Routers, NEW w \in Neighbours(g, v),
         NEW pk \in Packets, NEW r, r = [q EXCEPT ![v][w] = enQ(@, <<pk>>)]
  PROVE  PacketPut(g, q, r, v, w, pk) \/ SameQueues(g, q, r)
<1>1. q[v][w] \in Seq(Packets) /\ Len(q[v][w]) <= QueueMax
  BY DEF QueuesOK
<1>2. PICK b \in Seq(Packets) : b = q[v][w] /\ Len(b) <= QueueMax
  BY <1>1
<1>0. PICK s : s = enQ(b, <<pk>>)
  OBVIOUS
<1>3. s \in Seq(Packets) /\ Len(s) <= QueueMax /\ Enqueued(b, pk, s)
  BY <1>0, <1>2, EnqueueOne
<1>4. r = [q EXCEPT ![v][w] = s]
  BY <1>0, <1>2
<1>5. Changed(g, q, r, v, w, s)
  BY <1>3, <1>4, ChangeQueue
<1>6. CASE s = b
  BY <1>2, <1>5, <1>6 DEF Changed, SameQueues
<1>7. CASE s # b
  BY <1>2, <1>3, <1>5, <1>7 DEF Changed, PacketPut, Enqueued
<1> QED BY <1>6, <1>7

\* Where the packets are: all others keep their place, or move up by one.
Before(v, w, i, x, y) == IF x = v /\ y = w THEN i + 1 ELSE i

LEMMA PlacesTaken ==
  ASSUME NEW g, NEW q, NEW r, NEW v, NEW w, HeadTaken(g, q, r, v, w),
         NEW x, NEW y, NEW i \in Nat \ {0}, NEW f
  PROVE  /\ At(g, r, x, y, i, f) <=> At(g, q, x, y, Before(v, w, i, x, y), f)
         /\ At(g, r, x, y, i, f) => r[x][y][i] = q[x][y][Before(v, w, i, x, y)]
<1> SUFFICES ASSUME x \in Routers, y \in Neighbours(g, x) PROVE
       /\ At(g, r, x, y, i, f) <=> At(g, q, x, y, Before(v, w, i, x, y), f)
       /\ At(g, r, x, y, i, f) => r[x][y][i] = q[x][y][Before(v, w, i, x, y)]
  BY DEF At
<1>1. CASE x = v /\ y = w
  <2>1. PICK s : s = q[v][w]
    OBVIOUS
  <2>2. s \in Seq(Packets) /\ s # << >> /\ r[v][w] = Tail(s)
    BY <2>1 DEF HeadTaken, QueuesOK, Changed
  <2>3. /\ Len(r[v][w]) = Len(s) - 1 /\ Len(s) \in Nat
        /\ \A j \in 1..(Len(s) - 1) : r[v][w][j] = s[j + 1]
    BY <2>2
  <2>4. i \in 1..Len(r[v][w]) <=> i + 1 \in 1..Len(s)
    BY <2>3
  <2> QED BY <1>1, <2>1, <2>3, <2>4 DEF At, Before
<1>2. CASE ~(x = v /\ y = w)
  <2>1. r[x][y] = q[x][y]
    BY <1>2 DEF HeadTaken, Changed
  <2> QED BY <1>2, <2>1 DEF At, Before
<1> QED BY <1>1, <1>2

\* The place of the packet put.
New(q, v, w, x, y, i) == x = v /\ y = w /\ i = Len(q[v][w]) + 1

LEMMA PlacesPut ==
  ASSUME NEW g, NEW q, NEW r, NEW v, NEW w, NEW pk, PacketPut(g, q, r, v, w, pk),
         NEW x, NEW y, NEW i, NEW f
  PROVE  /\ At(g, r, x, y, i, f) <=> \/ At(g, q, x, y, i, f)
                                     \/ New(q, v, w, x, y, i) /\ f = pk.flow
         /\ At(g, q, x, y, i, f) => r[x][y][i] = q[x][y][i]
         /\ New(q, v, w, x, y, i) => r[x][y][i] = pk
<1>1. v \in Routers /\ w \in Neighbours(g, v)
  BY DEF PacketPut
<1>2. CASE x = v /\ y = w
  <2>1. PICK n : n = Len(q[v][w])
    OBVIOUS
  <2>2. n \in Nat
    BY <1>1, <2>1, QueueFact DEF PacketPut
  <2>3. /\ Len(r[v][w]) = n + 1 /\ r[v][w][n + 1] = pk
        /\ \A j \in 1..n : r[v][w][j] = q[v][w][j]
    BY <2>1 DEF PacketPut
  <2>4. i \in 1..(n + 1) <=> i \in 1..n \/ i = n + 1
    BY <2>2
  <2> QED BY <1>1, <1>2, <2>1, <2>3, <2>4 DEF At, New
<1>3. CASE ~(x = v /\ y = w)
  <2>1. x \in Routers /\ y \in Neighbours(g, x) => r[x][y] = q[x][y]
    BY <1>3 DEF PacketPut, Changed
  <2> QED BY <1>3, <2>1 DEF At, New
<1> QED BY <1>2, <1>3

-----------------------------------------------------------------------------
(* The order of a flow.                                                    *)

Hops(g, f, v) == Distance(g, f[1], v)

\* Of two packets of f the one farther on, or earlier on the queue of a router.
Ahead(g, f, x, j, v, i) == Hops(g, f, v) < Hops(g, f, x) \/ (x = v /\ j < i)

\* The packets of f are on its trail, their numbers past low and up to high, and
\* those ahead were sent first.
FlowOK(g, q, f, low, high) ==
  /\ \A v, w, i : At(g, q, v, w, i, f) =>
       OnTrail(g, f, v, w) /\ low < q[v][w][i].num /\ q[v][w][i].num <= high
  /\ \A v, w, i, x, y, j :
       At(g, q, v, w, i, f) /\ At(g, q, x, y, j, f) /\ Ahead(g, f, x, j, v, i)
       => q[x][y][j].num < q[v][w][i].num

\* The packets of f more than k hops from its source were sent before n, all
\* others after it.
Parts(g, q, f, k, n) ==
  \A v, w, i : At(g, q, v, w, i, f) =>
    \/ k < Hops(g, f, v) /\ q[v][w][i].num < n
    \/ Hops(g, f, v) <= k /\ n < q[v][w][i].num

LEMMA AtFact ==
  ASSUME NEW g, NEW q, QueuesOK(g, q), NEW v, NEW w, NEW i, NEW f, At(g, q, v, w, i, f)
  PROVE  /\ v \in Routers /\ w \in Routers /\ w \in Neighbours(g, v) /\ i \in Nat \ {0}
         /\ q[v][w][i] \in Packets /\ q[v][w][i].num \in Nat
         /\ q[v][w][i] = [flow |-> f, num |-> q[v][w][i].num]
<1>1. v \in Routers /\ w \in Neighbours(g, v) /\ w \in Routers
  BY NeighboursFact DEF At
<1>2. q[v][w] \in Seq(Packets) /\ Len(q[v][w]) \in Nat
  BY <1>1, QueueFact, HubAssumption
<1>3. i \in 1..Len(q[v][w]) /\ q[v][w][i].flow = f
  BY DEF At
<1>4. q[v][w][i] \in Packets
  BY <1>2, <1>3
<1> QED BY <1>1, <1>2, <1>3, <1>4 DEF Packets

LEMMA FlowTaken ==
  ASSUME NEW g \in Topologies, NEW q, NEW r, NEW v, NEW w, HeadTaken(g, q, r, v, w),
         NEW f, NEW low, NEW high, FlowOK(g, q, f, low, high)
  PROVE  FlowOK(g, r, f, low, high)
<1>1. QueuesOK(g, q) /\ QueuesOK(g, r)
  BY DEF HeadTaken, Changed
<1>2. ASSUME NEW x, NEW y, NEW i, At(g, r, x, y, i, f)
      PROVE  /\ At(g, q, x, y, Before(v, w, i, x, y), f)
             /\ r[x][y][i] = q[x][y][Before(v, w, i, x, y)]
             /\ x \in Routers /\ y \in Routers /\ i \in Nat /\ OnTrail(g, f, x, y)
  <2>1. x \in Routers /\ y \in Routers /\ i \in Nat \ {0}
    BY <1>1, <1>2, AtFact
  <2>2. /\ At(g, q, x, y, Before(v, w, i, x, y), f)
        /\ r[x][y][i] = q[x][y][Before(v, w, i, x, y)]
    BY <1>2, <2>1, PlacesTaken
  <2> QED BY <2>1, <2>2 DEF FlowOK
<1>3. ASSUME NEW x, NEW y, NEW i, At(g, r, x, y, i, f)
      PROVE  OnTrail(g, f, x, y) /\ low < r[x][y][i].num /\ r[x][y][i].num <= high
  BY <1>2, <1>3 DEF FlowOK
<1>4. ASSUME NEW a, NEW b, NEW i, NEW x, NEW y, NEW j,
             At(g, r, a, b, i, f), At(g, r, x, y, j, f), Ahead(g, f, x, j, a, i)
      PROVE  r[x][y][j].num < r[a][b][i].num
  <2>1. /\ At(g, q, a, b, Before(v, w, i, a, b), f)
        /\ r[a][b][i] = q[a][b][Before(v, w, i, a, b)]
        /\ a \in Routers /\ b \in Routers /\ i \in Nat /\ OnTrail(g, f, a, b)
    BY <1>2, <1>4
  <2>2. /\ At(g, q, x, y, Before(v, w, j, x, y), f)
        /\ r[x][y][j] = q[x][y][Before(v, w, j, x, y)]
        /\ x \in Routers /\ y \in Routers /\ j \in Nat /\ OnTrail(g, f, x, y)
    BY <1>2, <1>4
  <2>3. x = a => y = b
    BY <2>1, <2>2, TrailFollowed
  <2>4. Ahead(g, f, x, Before(v, w, j, x, y), a, Before(v, w, i, a, b))
    BY <1>4, <2>1, <2>2, <2>3 DEF Ahead, Before
  <2> QED BY <2>1, <2>2, <2>4 DEF FlowOK
<1> QED BY <1>3, <1>4 DEF FlowOK

LEMMA FlowSplit ==
  ASSUME NEW g \in Topologies, NEW q, NEW r, NEW v, NEW w, HeadTaken(g, q, r, v, w),
         NEW f, NEW low, NEW high, FlowOK(g, q, f, low, high), At(g, q, v, w, 1, f)
  PROVE  Parts(g, r, f, Hops(g, f, v), q[v][w][1].num)
<1>1. QueuesOK(g, q) /\ QueuesOK(g, r)
  BY DEF HeadTaken, Changed
<1>2. v \in Routers /\ w \in Routers /\ OnTrail(g, f, v, w)
  BY <1>1, AtFact DEF FlowOK
<1> SUFFICES ASSUME NEW x, NEW y, NEW i, At(g, r, x, y, i, f)
             PROVE  \/ Hops(g, f, v) < Hops(g, f, x) /\ r[x][y][i].num < q[v][w][1].num
                    \/ Hops(g, f, x) <= Hops(g, f, v) /\ q[v][w][1].num < r[x][y][i].num
  BY DEF Parts
<1>3. x \in Routers /\ y \in Routers /\ i \in Nat \ {0}
  BY <1>1, AtFact
<1>4. PICK j : j = Before(v, w, i, x, y)
  OBVIOUS
<1>5. At(g, q, x, y, j, f) /\ r[x][y][i] = q[x][y][j]
  BY <1>3, <1>4, PlacesTaken
<1>6. OnTrail(g, f, x, y)
  BY <1>5 DEF FlowOK
<1>7. /\ Hops(g, f, x) = Hops(g, f, v) => x = v /\ y = w
      /\ Hops(g, f, v) \in Nat /\ Hops(g, f, x) \in Nat
  BY <1>2, <1>3, <1>6, TrailFollowed DEF Hops
<1>8. CASE Hops(g, f, v) < Hops(g, f, x)
  <2>1. Ahead(g, f, x, j, v, 1)
    BY <1>8 DEF Ahead
  <2>2. q[x][y][j].num < q[v][w][1].num
    BY <1>5, <2>1 DEF FlowOK
  <2> QED BY <1>5, <1>8, <2>2
<1>9. CASE Hops(g, f, x) <= Hops(g, f, v)
  <2>1. Ahead(g, f, v, 1, x, j)
    <3>1. CASE Hops(g, f, x) < Hops(g, f, v)
      BY <3>1 DEF Ahead
    <3>2. CASE Hops(g, f, x) = Hops(g, f, v)
      BY <1>3, <1>4, <1>7, <3>2 DEF Ahead, Before
    <3> QED BY <1>7, <1>9, <3>1, <3>2
  <2>2. q[v][w][1].num < q[x][y][j].num
    BY <1>5, <2>1 DEF FlowOK
  <2> QED BY <1>5, <1>9, <2>2
<1> QED BY <1>7, <1>8, <1>9

LEMMA FlowPut ==
  ASSUME NEW g \in Topologies, NEW q, NEW r, NEW v, NEW w, NEW pk,
         PacketPut(g, q, r, v, w, pk),
         NEW f, f = pk.flow, OnTrail(g, f, v, w),
         NEW low, NEW high, FlowOK(g, q, f, low, high), low < pk.num, pk.num <= high,
         NEW k \in Int, Parts(g, q, f, k, pk.num), Hops(g, f, v) = k + 1
  PROVE  FlowOK(g, r, f, low, high)
<1>1. QueuesOK(g, q) /\ QueuesOK(g, r) /\ v \in Routers /\ w \in Neighbours(g, v)
  BY DEF PacketPut, Changed
<1>2. w \in Routers
  BY <1>1, NeighboursFact
<1>3. ASSUME NEW x, NEW y, NEW i, At(g, r, x, y, i, f)
      PROVE  /\ \/ At(g, q, x, y, i, f) /\ r[x][y][i] = q[x][y][i]
                \/ New(q, v, w, x, y, i) /\ r[x][y][i] = pk
             /\ x \in Routers /\ y \in Routers /\ i \in Nat
  <2>1. x \in Routers /\ y \in Routers /\ i \in Nat \ {0}
    BY <1>1, <1>3, AtFact
  <2>2. \/ At(g, q, x, y, i, f) /\ r[x][y][i] = q[x][y][i]
        \/ New(q, v, w, x, y, i) /\ r[x][y][i] = pk
    BY <1>3, PlacesPut
  <2> QED BY <2>1, <2>2
<1>4. ASSUME NEW x, NEW y, NEW i, At(g, r, x, y, i, f)
      PROVE  OnTrail(g, f, x, y) /\ low < r[x][y][i].num /\ r[x][y][i].num <= high
  BY <1>3, <1>4 DEF FlowOK, New
<1>5. ASSUME NEW a, NEW b, NEW i, NEW x, NEW y, NEW j,
             At(g, r, a, b, i, f), At(g, r, x, y, j, f), Ahead(g, f, x, j, a, i)
      PROVE  r[x][y][j].num < r[a][b][i].num
  <2>1. /\ \/ At(g, q, a, b, i, f) /\ r[a][b][i] = q[a][b][i]
           \/ New(q, v, w, a, b, i) /\ r[a][b][i] = pk
        /\ a \in Routers /\ b \in Routers /\ i \in Nat /\ OnTrail(g, f, a, b)
    BY <1>3, <1>4, <1>5
  <2>2. /\ \/ At(g, q, x, y, j, f) /\ r[x][y][j] = q[x][y][j]
           \/ New(q, v, w, x, y, j) /\ r[x][y][j] = pk
        /\ x \in Routers /\ y \in Routers /\ j \in Nat /\ OnTrail(g, f, x, y)
    BY <1>3, <1>4, <1>5
  <2>3. Hops(g, f, a) \in Nat /\ Hops(g, f, x) \in Nat /\ (x = a => y = b)
    BY <2>1, <2>2, TrailFollowed DEF Hops
  <2>4. CASE At(g, q, a, b, i, f) /\ At(g, q, x, y, j, f)
    BY <1>5, <2>1, <2>2, <2>4, PlacesPut DEF FlowOK
  <2>5. CASE New(q, v, w, a, b, i) /\ At(g, q, x, y, j, f)
    <3>1. r[a][b][i] = pk /\ r[x][y][j] = q[x][y][j] /\ Hops(g, f, a) = k + 1
      BY <2>5, PlacesPut DEF New
    <3>2. k < Hops(g, f, x)
      BY <1>5, <2>3, <3>1 DEF Ahead
    <3>3. q[x][y][j].num < pk.num
      BY <2>3, <2>5, <3>2 DEF Parts
    <3> QED BY <3>1, <3>3
  <2>6. CASE At(g, q, a, b, i, f) /\ New(q, v, w, x, y, j)
    <3>1. /\ r[a][b][i] = q[a][b][i] /\ r[x][y][j] = pk /\ Hops(g, f, x) = k + 1
          /\ x = v /\ y = w /\ j = Len(q[v][w]) + 1
      BY <2>6, PlacesPut DEF New
    <3>2. ~(x = a /\ j < i)
      <4> SUFFICES ASSUME x = a, j < i PROVE FALSE
        OBVIOUS
      <4>1. i \in 1..Len(q[v][w])
        BY <2>3, <2>6, <3>1 DEF At
      <4>2. Len(q[v][w]) \in Nat
        BY <1>1, QueueFact, HubAssumption
      <4> QED BY <3>1, <4>1, <4>2
    <3>3. Hops(g, f, a) < k + 1
      BY <1>5, <3>1, <3>2 DEF Ahead
    <3>4. pk.num < q[a][b][i].num
      BY <2>3, <2>6, <3>3 DEF Parts
    <3> QED BY <3>1, <3>4
  <2>7. CASE New(q, v, w, a, b, i) /\ New(q, v, w, x, y, j)
    BY <1>5, <2>1, <2>2, <2>3, <2>7 DEF Ahead, New
  <2> QED BY <2>1, <2>2, <2>4, <2>5, <2>6, <2>7
<1> QED BY <1>4, <1>5 DEF FlowOK

\* A flow whose packets all stay where they are.
LEMMA FlowStays ==
  ASSUME NEW g, NEW q, NEW r, NEW f,
         \A x, y, i : At(g, r, x, y, i, f) =>
            At(g, q, x, y, i, f) /\ r[x][y][i] = q[x][y][i],
         NEW low, NEW high, FlowOK(g, q, f, low, high)
  PROVE  FlowOK(g, r, f, low, high)
<1>1. ASSUME NEW x, NEW y, NEW i, At(g, r, x, y, i, f)
      PROVE  OnTrail(g, f, x, y) /\ low < r[x][y][i].num /\ r[x][y][i].num <= high
  BY <1>1 DEF FlowOK
<1>2. ASSUME NEW a, NEW b, NEW i, NEW x, NEW y, NEW j,
             At(g, r, a, b, i, f), At(g, r, x, y, j, f), Ahead(g, f, x, j, a, i)
      PROVE  r[x][y][j].num < r[a][b][i].num
  <2>1. /\ At(g, q, a, b, i, f) /\ r[a][b][i] = q[a][b][i]
        /\ At(g, q, x, y, j, f) /\ r[x][y][j] = q[x][y][j]
    BY <1>2
  <2>2. q[x][y][j].num < q[a][b][i].num
    BY <1>2, <2>1 DEF FlowOK
  <2> QED BY <2>1, <2>2
<1> QED BY <1>1, <1>2 DEF FlowOK

LEMMA FlowPutOther ==
  ASSUME NEW g, NEW q, NEW r, NEW v, NEW w, NEW pk, PacketPut(g, q, r, v, w, pk),
         NEW f, f # pk.flow, NEW low, NEW high, FlowOK(g, q, f, low, high)
  PROVE  FlowOK(g, r, f, low, high)
<1>1. ASSUME NEW x, NEW y, NEW i, At(g, r, x, y, i, f)
      PROVE  At(g, q, x, y, i, f) /\ r[x][y][i] = q[x][y][i]
  BY <1>1, PlacesPut
<1> QED BY <1>1, FlowStays

LEMMA FlowSame ==
  ASSUME NEW g, NEW q, NEW r, SameQueues(g, q, r),
         NEW f, NEW low, NEW high, FlowOK(g, q, f, low, high)
  PROVE  FlowOK(g, r, f, low, high)
<1>1. ASSUME NEW x, NEW y, NEW i, At(g, r, x, y, i, f)
      PROVE  At(g, q, x, y, i, f) /\ r[x][y][i] = q[x][y][i]
  BY <1>1 DEF At, SameQueues
<1> QED BY <1>1, FlowStays

\* More packets sent.
LEMMA FlowHigher ==
  ASSUME NEW g, NEW q, QueuesOK(g, q), NEW f, NEW low, NEW high \in Nat,
         FlowOK(g, q, f, low, high), NEW higher \in Nat, high <= higher
  PROVE  FlowOK(g, q, f, low, higher)
<1>1. ASSUME NEW x, NEW y, NEW i, At(g, q, x, y, i, f)
      PROVE  OnTrail(g, f, x, y) /\ low < q[x][y][i].num /\ q[x][y][i].num <= higher
  <2>1. q[x][y][i].num \in Nat
    BY <1>1, AtFact
  <2> QED BY <1>1, <2>1 DEF FlowOK
<1> QED BY <1>1 DEF FlowOK

\* The packet that was farthest has arrived.
LEMMA FlowArrived ==
  ASSUME NEW g, NEW q, NEW f, NEW low, NEW high, FlowOK(g, q, f, low, high),
         NEW n, \A x, y, i : At(g, q, x, y, i, f) => n < q[x][y][i].num
  PROVE  FlowOK(g, q, f, n, high)
BY DEF FlowOK

-----------------------------------------------------------------------------
(* The numbers on their way.                                               *)

On(q, f) ==
  LET own(s) == {s[i].num : i \in {i \in DOMAIN s : s[i].flow = f}}
  IN  UNION {UNION {own(q[v][w]) : w \in DOMAIN q[v]} : v \in Routers}

LEMMA OnFact ==
  ASSUME NEW g, NEW q, QueuesOK(g, q), NEW f, NEW n
  PROVE  n \in On(q, f) <=> \E v, w, i : At(g, q, v, w, i, f) /\ q[v][w][i].num = n
<1> DEFINE own(s) == {s[i].num : i \in {i \in DOMAIN s : s[i].flow = f}}
<1>1. ASSUME NEW v \in Routers, NEW w \in Neighbours(g, v)
      PROVE  n \in own(q[v][w]) <=> \E i : At(g, q, v, w, i, f) /\ q[v][w][i].num = n
  <2>1. DOMAIN q[v][w] = 1..Len(q[v][w])
    BY QueueFact
  <2> QED BY <2>1 DEF At
<1>2. \A v \in Routers : DOMAIN q[v] = Neighbours(g, v)
  BY DEF QueuesOK
<1>3. n \in On(q, f) <=> \E v \in Routers : \E w \in DOMAIN q[v] : n \in own(q[v][w])
  BY DEF On
<1> HIDE DEF own
<1>4. ASSUME NEW v, NEW w, NEW i, At(g, q, v, w, i, f)
      PROVE  v \in Routers /\ w \in Neighbours(g, v)
  BY <1>4 DEF At
<1> QED BY <1>1, <1>2, <1>3, <1>4

LEMMA OnTaken ==
  ASSUME NEW g, NEW q, NEW r, NEW v, NEW w, HeadTaken(g, q, r, v, w), NEW f
  PROVE  /\ On(r, f) \subseteq On(q, f)
         /\ \A n \in On(q, f) :
              n \in On(r, f) \/ (q[v][w][1].flow = f /\ n = q[v][w][1].num)
<1>1. QueuesOK(g, q) /\ QueuesOK(g, r)
  BY DEF HeadTaken, Changed
<1>2. ASSUME NEW n \in On(r, f) PROVE n \in On(q, f)
  <2>1. PICK x, y, i : At(g, r, x, y, i, f) /\ r[x][y][i].num = n
    BY <1>1, OnFact
  <2>2. i \in Nat \ {0}
    BY <1>1, <2>1, AtFact
  <2>3. PICK j : j = Before(v, w, i, x, y)
    OBVIOUS
  <2>4. At(g, q, x, y, j, f) /\ q[x][y][j].num = n
    BY <2>1, <2>2, <2>3, PlacesTaken
  <2> QED BY <1>1, <2>4, OnFact
<1>3. ASSUME NEW n \in On(q, f)
      PROVE  n \in On(r, f) \/ (q[v][w][1].flow = f /\ n = q[v][w][1].num)
  <2>1. PICK x, y, j : At(g, q, x, y, j, f) /\ q[x][y][j].num = n
    BY <1>1, OnFact
  <2>2. j \in Nat \ {0} /\ q[x][y][j].flow = f
    BY <1>1, <2>1, AtFact DEF At
  <2>3. CASE x = v /\ y = w /\ j = 1
    BY <2>1, <2>2, <2>3
  <2>4. CASE ~(x = v /\ y = w /\ j = 1)
    <3>1. PICK i \in Nat \ {0} : j = Before(v, w, i, x, y)
      <4>1. CASE x = v /\ y = w
        <5>1. j - 1 \in Nat \ {0} /\ (j - 1) + 1 = j
          BY <2>2, <2>4, <4>1
        <5> QED BY <4>1, <5>1 DEF Before
      <4>2. CASE ~(x = v /\ y = w)
        BY <2>2, <4>2 DEF Before
      <4> QED BY <4>1, <4>2
    <3>2. At(g, r, x, y, i, f) /\ r[x][y][i] = q[x][y][j]
      BY <2>1, <3>1, PlacesTaken
    <3> QED BY <1>1, <2>1, <3>2, OnFact
  <2> QED BY <2>3, <2>4
<1> QED BY <1>2, <1>3

LEMMA OnPut ==
  ASSUME NEW g, NEW q, NEW r, NEW v, NEW w, NEW pk, PacketPut(g, q, r, v, w, pk), NEW f
  PROVE  On(r, f) = IF f = pk.flow THEN On(q, f) \cup {pk.num} ELSE On(q, f)
<1>1. QueuesOK(g, q) /\ QueuesOK(g, r)
  BY DEF PacketPut, Changed
<1>2. ASSUME NEW n \in On(r, f) PROVE n \in On(q, f) \/ (f = pk.flow /\ n = pk.num)
  <2>1. PICK x, y, i : At(g, r, x, y, i, f) /\ r[x][y][i].num = n
    BY <1>1, OnFact
  <2>2. CASE At(g, q, x, y, i, f)
    <3>1. q[x][y][i].num = n
      BY <2>1, <2>2, PlacesPut
    <3> QED BY <1>1, <2>2, <3>1, OnFact
  <2>3. CASE New(q, v, w, x, y, i) /\ f = pk.flow
    BY <2>1, <2>3, PlacesPut
  <2> QED BY <2>1, <2>2, <2>3, PlacesPut
<1>3. ASSUME NEW n \in On(q, f) PROVE n \in On(r, f)
  <2>1. PICK x, y, i : At(g, q, x, y, i, f) /\ q[x][y][i].num = n
    BY <1>1, OnFact
  <2>2. At(g, r, x, y, i, f) /\ r[x][y][i] = q[x][y][i]
    BY <2>1, PlacesPut
  <2> QED BY <1>1, <2>1, <2>2, OnFact
<1>4. ASSUME f = pk.flow PROVE pk.num \in On(r, f)
  <2>1. PICK i : i = Len(q[v][w]) + 1
    OBVIOUS
  <2>2. New(q, v, w, v, w, i)
    BY <2>1 DEF New
  <2>3. At(g, r, v, w, i, f) /\ r[v][w][i] = pk
    BY <1>4, <2>2, PlacesPut
  <2> QED BY <1>1, <2>3, OnFact
<1> QED BY <1>2, <1>3, <1>4

LEMMA OnSame ==
  ASSUME NEW g, NEW q, NEW r, SameQueues(g, q, r), NEW f
  PROVE  On(r, f) = On(q, f)
<1>1. QueuesOK(g, q) /\ QueuesOK(g, r)
  BY DEF SameQueues
<1>2. ASSUME NEW x, NEW y, NEW i
      PROVE  /\ At(g, r, x, y, i, f) <=> At(g, q, x, y, i, f)
             /\ At(g, r, x, y, i, f) => r[x][y][i] = q[x][y][i]
  BY DEF At, SameQueues
<1>3. ASSUME NEW n PROVE n \in On(r, f) <=> n \in On(q, f)
  <2>1. n \in On(r, f) <=> \E v, w, i : At(g, r, v, w, i, f) /\ r[v][w][i].num = n
    BY <1>1, OnFact
  <2>2. n \in On(q, f) <=> \E v, w, i : At(g, q, v, w, i, f) /\ q[v][w][i].num = n
    BY <1>1, OnFact
  <2> QED BY <1>2, <2>1, <2>2
<1> QED BY <1>3

-----------------------------------------------------------------------------
(* The invariant.                                                          *)

Invariant ==
  /\ links \in Topologies
  /\ routingTable = [v \in Routers |-> createTable(links, v)]
  /\ QueuesOK(links, queue)
  /\ sent \in [Flows -> 0..MaxSent] /\ arrived \in [Flows -> Nat]
  /\ \A f \in Flows : /\ arrived[f] <= sent[f]
                      /\ FlowOK(links, queue, f, arrived[f], sent[f])

\* What recv does with a packet of flow f, to the queues and to the flows.
Received(q, pk, f) ==
  \/ /\ arrived' = [arrived EXCEPT ![f] = pk.num]
     /\ \A h \in Flows : On(queue', h) = On(q, h)
     /\ \A m \in On(q, f) : pk.num < m
  \/ /\ arrived' = arrived
     /\ \A h \in Flows : On(queue', h) = On(q, h)
  \/ /\ arrived' = arrived
     /\ \A h \in Flows : On(queue', h) = IF h = f THEN On(q, h) \cup {pk.num}
                                         ELSE On(q, h)

\* The queues are in order without the packet, and it comes after those ahead
\* of it and before all others.
LEMMA RecvStep ==
  ASSUME links \in Topologies, routingTable = [x \in Routers |-> createTable(links, x)],
         arrived \in [Flows -> Nat],
         NEW q, QueuesOK(links, q), NEW s \in [Flows -> Nat],
         \A h \in Flows : arrived[h] <= s[h] /\ FlowOK(links, q, h, arrived[h], s[h]),
         NEW v \in Routers, NEW pk \in Packets, NEW f \in Flows, f = pk.flow,
         f[1] \in Routers, f[2] \in Routers, arrived[f] < pk.num, pk.num <= s[f],
         NEW k \in Int, Parts(links, q, f, k, pk.num),
         v = f[2] => \A x, y, i : At(links, q, x, y, i, f) => Hops(links, f, x) <= k,
         v # f[2] => Hops(links, f, v) = k + 1 /\
                     OnTrail(links, f, v, createTable(links, v)[f[2]]),
         recv(q, v, pk)
  PROVE  /\ QueuesOK(links, queue') /\ arrived' \in [Flows -> Nat]
         /\ \A h \in Flows : arrived'[h] <= s[h] /\ FlowOK(links, queue', h, arrived'[h], s[h])
         /\ Received(q, pk, f)
<1>1. pk.num \in Nat
  BY DEF Packets
<1>2. CASE v = f[2]
  <2>1. queue' = q /\ arrived' = [arrived EXCEPT ![f] = pk.num]
    BY <1>2 DEF recv
  <2>2. ASSUME NEW x, NEW y, NEW i, At(links, q, x, y, i, f)
        PROVE  pk.num < q[x][y][i].num
    <3>1. Hops(links, f, x) <= k /\ x \in Routers
      BY <1>2, <2>2, AtFact
    <3>2. Hops(links, f, x) \in Nat
      BY <3>1, DistanceFact, SizeFact DEF Hops
    <3> QED BY <2>2, <3>1, <3>2 DEF Parts
  <2>3. FlowOK(links, q, f, pk.num, s[f])
    <3>1. FlowOK(links, q, f, arrived[f], s[f])
      OBVIOUS
    <3> QED BY <2>2, <3>1, FlowArrived
  <2>4. \A m \in On(q, f) : pk.num < m
    <3> SUFFICES ASSUME NEW m \in On(q, f) PROVE pk.num < m
      OBVIOUS
    <3>1. PICK x, y, i : At(links, q, x, y, i, f) /\ q[x][y][i].num = m
      BY OnFact
    <3> QED BY <2>2, <3>1
  <2>5. /\ arrived' \in [Flows -> Nat] /\ arrived'[f] = pk.num
        /\ \A h \in Flows : h # f => arrived'[h] = arrived[h]
    BY <1>1, <2>1
  <2>6. ASSUME NEW h \in Flows
        PROVE  arrived'[h] <= s[h] /\ FlowOK(links, queue', h, arrived'[h], s[h])
    <3>1. CASE h = f
      BY <2>1, <2>3, <2>5, <3>1
    <3>2. CASE h # f
      BY <2>1, <2>5, <3>2
    <3> QED BY <3>1, <3>2
  <2> QED BY <2>1, <2>4, <2>5, <2>6 DEF Received
<1>3. CASE v # f[2]
  <2>1. PICK x : x = createTable(links, v)[f[2]]
    OBVIOUS
  <2>2. x \in Neighbours(links, v) /\ OnTrail(links, f, v, x) /\ Hops(links, f, v) = k + 1
    BY <1>3, <2>1, TablesLeadNearer
  <2>3. queue' = [q EXCEPT ![v][x] = enQ(@, <<pk>>)] /\ arrived' = arrived
    BY <1>3, <2>1 DEF recv
  <2>4. PacketPut(links, q, queue', v, x, pk) \/ SameQueues(links, q, queue')
    BY <2>2, <2>3, PutPacket
  <2>5. CASE PacketPut(links, q, queue', v, x, pk)
    <3>1. QueuesOK(links, queue')
      BY <2>5 DEF PacketPut, Changed
    <3>2. FlowOK(links, queue', f, arrived[f], s[f])
      <4>1. FlowOK(links, q, f, arrived[f], s[f])
        OBVIOUS
      <4> QED BY <2>2, <2>5, <4>1, FlowPut
    <3>3. ASSUME NEW h \in Flows, h # f PROVE FlowOK(links, queue', h, arrived[h], s[h])
      <4>1. FlowOK(links, q, h, arrived[h], s[h])
        OBVIOUS
      <4> QED BY <2>5, <3>3, <4>1, FlowPutOther
    <3>4. \A h \in Flows : On(queue', h) = IF h = f THEN On(q, h) \cup {pk.num} ELSE On(q, h)
      BY <2>5, OnPut
    <3> QED BY <2>3, <3>1, <3>2, <3>3, <3>4 DEF Received
  <2>6. CASE SameQueues(links, q, queue')
    <3>1. QueuesOK(links, queue')
      BY <2>6 DEF SameQueues
    <3>2. ASSUME NEW h \in Flows PROVE FlowOK(links, queue', h, arrived[h], s[h])
      <4>1. FlowOK(links, q, h, arrived[h], s[h])
        OBVIOUS
      <4> QED BY <2>6, <4>1, FlowSame
    <3>3. \A h \in Flows : On(queue', h) = On(q, h)
      BY <2>6, OnSame
    <3> QED BY <2>3, <3>1, <3>2, <3>3 DEF Received
  <2> QED BY <2>4, <2>5, <2>6
<1> QED BY <1>2, <1>3

LEMMA InitInvariant == Init => Invariant
<1> SUFFICES ASSUME Init PROVE Invariant
  OBVIOUS
<1>1. QueuesOK(links, queue) /\ \A v \in Routers : \A w \in Neighbours(links, v) :
        queue[v][w] = << >>
  <2>1. /\ DOMAIN queue = Routers
        /\ \A v \in Routers : queue[v] = [w \in Neighbours(links, v) |-> << >>]
    BY DEF Init
  <2>2. << >> \in Seq(Packets) /\ Len(<< >>) <= QueueMax
    BY HubAssumption
  <2> QED BY <2>1, <2>2 DEF QueuesOK
<1>2. \A f, v, w, i : ~At(links, queue, v, w, i, f)
  BY <1>1 DEF At
<1>3. sent \in [Flows -> 0..MaxSent] /\ arrived \in [Flows -> Nat]
  BY RouterAssumption DEF Init
<1>4. \A f \in Flows : arrived[f] <= sent[f]
  BY DEF Init
<1>5. \A f \in Flows : FlowOK(links, queue, f, arrived[f], sent[f])
  BY <1>2 DEF FlowOK
<1> QED BY <1>1, <1>3, <1>4, <1>5 DEF Init, Invariant

LEMMA OnWayIs ==
  /\ \A f : OnWay(f) = On(queue, f)
  /\ \A f : OnWay(f)' = On(queue', f)
BY DEF OnWay, On

LEMMA InsertStep ==
  ASSUME Invariant, NEW f \in Flows, Insert(f)
  PROVE  Invariant' /\ Link!Send(f)
<1>1. /\ links \in Topologies /\ QueuesOK(links, queue)
      /\ routingTable = [v \in Routers |-> createTable(links, v)]
      /\ sent \in [Flows -> 0..MaxSent] /\ arrived \in [Flows -> Nat]
      /\ \A h \in Flows : /\ arrived[h] <= sent[h]
                          /\ FlowOK(links, queue, h, arrived[h], sent[h])
  BY DEF Invariant
<1>2. /\ sent[f] < MaxSent /\ sent' = [sent EXCEPT ![f] = @ + 1]
      /\ links' = links /\ routingTable' = routingTable
  BY DEF Insert
<1>3. MaxSent \in Nat /\ f[1] # f[2]
  BY RouterAssumption
<1>4. PICK n \in Nat : n = sent[f] + 1
  BY <1>1
<1>5. /\ sent' \in [Flows -> 0..MaxSent] /\ sent' \in [Flows -> Nat] /\ sent'[f] = n
      /\ \A h \in Flows : sent[h] \in Nat /\ sent'[h] \in Nat /\ sent[h] <= sent'[h]
  BY <1>1, <1>2, <1>3, <1>4
<1>6. ASSUME NEW h \in Flows
      PROVE  arrived[h] <= sent'[h] /\ FlowOK(links, queue, h, arrived[h], sent'[h])
  <2>1. arrived[h] \in Nat /\ sent[h] \in Nat /\ sent'[h] \in Nat /\ sent[h] <= sent'[h]
    BY <1>1, <1>5
  <2>2. FlowOK(links, queue, h, arrived[h], sent[h]) /\ arrived[h] <= sent[h]
    BY <1>1
  <2>3. FlowOK(links, queue, h, arrived[h], sent'[h])
    BY <1>1, <2>1, <2>2, FlowHigher
  <2> QED BY <2>1, <2>2, <2>3
<1>7. CASE ~(f[1] \in Routers /\ f[2] \in Routers)
  <2>1. queue' = queue /\ arrived' = arrived
    BY <1>7 DEF Insert
  <2>2. Invariant'
    BY <1>1, <1>2, <1>5, <1>6, <2>1 DEF Invariant
  <2>3. [h \in Flows |-> OnWay(h)]' = [h \in Flows |-> OnWay(h)]
    BY <2>1, OnWayIs
  <2> QED BY <1>2, <2>1, <2>2, <2>3 DEF Link!Send
<1>8. CASE f[1] \in Routers /\ f[2] \in Routers
  <2>1. PICK pk : pk = [flow |-> f, num |-> n]
    OBVIOUS
  <2>2. pk \in Packets /\ pk.flow = f /\ pk.num = n
    BY <2>1 DEF Packets
  <2>3. recv(queue, f[1], pk)
    BY <1>4, <1>8, <2>1 DEF Insert
  <2>4. Parts(links, queue, f, -1, n)
    <3>1. ASSUME NEW x, NEW y, NEW i, At(links, queue, x, y, i, f)
          PROVE  -1 < Hops(links, f, x) /\ queue[x][y][i].num < n
      <4>1. x \in Routers /\ queue[x][y][i].num \in Nat
        BY <1>1, <3>1, AtFact
      <4>2. Hops(links, f, x) \in Nat
        BY <1>1, <1>8, <4>1, DistanceFact, SizeFact DEF Hops
      <4>3. queue[x][y][i].num <= sent[f]
        BY <1>1, <3>1 DEF FlowOK
      <4> QED BY <1>4, <1>5, <4>1, <4>2, <4>3
    <3> QED BY <3>1 DEF Parts
  <2>5. /\ OnTrail(links, f, f[1], createTable(links, f[1])[f[2]])
        /\ Hops(links, f, f[1]) = (-1) + 1
    BY <1>1, <1>3, <1>8, TrailStarts DEF Hops
  <2>6. arrived[f] < n /\ n <= sent'[f]
    BY <1>1, <1>4, <1>5
  <2>7. /\ QueuesOK(links, queue') /\ arrived' \in [Flows -> Nat]
        /\ \A h \in Flows : /\ arrived'[h] <= sent'[h]
                            /\ FlowOK(links, queue', h, arrived'[h], sent'[h])
        /\ Received(queue, pk, f)
    <3>1. -1 \in Int
      OBVIOUS
    <3> QED BY <1>1, <1>3, <1>5, <1>6, <1>8, <2>2, <2>3, <2>4, <2>5, <2>6, <3>1, RecvStep
  <2>8. Invariant'
    BY <1>1, <1>2, <1>5, <2>7 DEF Invariant
  <2>9. arrived' = arrived
    BY <1>3, <2>2, <2>3 DEF recv
  <2>10. ASSUME NEW h \in Flows
         PROVE  OnWay(h) = On(queue, h) /\ OnWay(h)' = On(queue', h)
    BY OnWayIs
  <2>11. CASE \A h \in Flows : On(queue', h) = On(queue, h)
    <3>1. [h \in Flows |-> OnWay(h)]' = [h \in Flows |-> OnWay(h)]
      BY <2>10, <2>11
    <3> QED BY <1>2, <2>8, <2>9, <3>1 DEF Link!Send
  <2>12. CASE \A h \in Flows : On(queue', h) = IF h = f THEN On(queue, h) \cup {n}
                                               ELSE On(queue, h)
    <3>1. [h \in Flows |-> OnWay(h)]'
            = [[h \in Flows |-> OnWay(h)] EXCEPT ![f] = @ \cup {sent[f] + 1}]
      BY <1>4, <2>10, <2>12
    <3> QED BY <1>2, <2>8, <2>9, <3>1 DEF Link!Send
  <2> QED BY <2>2, <2>7, <2>11, <2>12 DEF Received
<1> QED BY <1>7, <1>8

LEMMA RunStep ==
  ASSUME Invariant, NEW v \in Routers, NEW w \in Routers, run(v, w)
  PROVE  Invariant' /\ [Link!Next]_(Link!vars)
<1>1. /\ links \in Topologies /\ QueuesOK(links, queue)
      /\ routingTable = [x \in Routers |-> createTable(links, x)]
      /\ sent \in [Flows -> 0..MaxSent] /\ arrived \in [Flows -> Nat]
      /\ \A h \in Flows : /\ arrived[h] <= sent[h]
                          /\ FlowOK(links, queue, h, arrived[h], sent[h])
  BY DEF Invariant
<1>2. /\ w \in Neighbours(links, v) /\ queue[v][w] # << >>
      /\ links' = links /\ routingTable' = routingTable /\ sent' = sent
      /\ recv([queue EXCEPT ![v][w] = Tail(@)], w, Head(queue[v][w]))
  BY DEF run
<1>3. PICK r : r = [queue EXCEPT ![v][w] = Tail(@)]
  OBVIOUS
<1>4. HeadTaken(links, queue, r, v, w) /\ QueuesOK(links, r)
  <2>1. HeadTaken(links, queue, r, v, w)
    BY <1>1, <1>2, <1>3, TakeHead
  <2> QED BY <2>1 DEF HeadTaken, Changed
<1>5. PICK pk : pk = Head(queue[v][w])
  OBVIOUS
<1>6. PICK f : f = pk.flow
  OBVIOUS
<1>7. PICK n : n = pk.num
  OBVIOUS
<1>8. /\ queue[v][w] \in Seq(Packets) /\ pk = queue[v][w][1] /\ 1 \in 1..Len(queue[v][w])
  <2>1. queue[v][w] \in Seq(Packets)
    BY <1>1, <1>2, QueueFact
  <2> QED BY <1>2, <1>5, <2>1
<1>9. pk \in Packets /\ f \in Flows /\ n \in Nat
  <2>1. pk \in Packets
    BY <1>8, ElementOfSeq
  <2> QED BY <1>6, <1>7, <2>1 DEF Packets
<1>10. At(links, queue, v, w, 1, f) /\ queue[v][w][1].num = n
  BY <1>2, <1>6, <1>7, <1>8 DEF At
<1>11. OnTrail(links, f, v, w) /\ arrived[f] < n /\ n <= sent[f]
  BY <1>1, <1>9, <1>10 DEF FlowOK
<1>12. ASSUME NEW h \in Flows
       PROVE  arrived[h] <= sent[h] /\ FlowOK(links, r, h, arrived[h], sent[h])
  BY <1>1, <1>4, FlowTaken
<1>13. PICK k : k = Hops(links, f, v)
  OBVIOUS
<1>14. Parts(links, r, f, k, n)
  <2>1. FlowOK(links, queue, f, arrived[f], sent[f])
    BY <1>1, <1>9
  <2>2. Parts(links, r, f, Hops(links, f, v), queue[v][w][1].num)
    BY <1>1, <1>4, <1>10, <2>1, FlowSplit
  <2> QED BY <1>10, <1>13, <2>2
<1>15. f[1] \in Routers /\ f[2] \in Routers /\ k \in Int
  <2>1. f[1] \in Routers /\ f[2] \in Routers
    BY <1>11 DEF OnTrail
  <2>2. Distance(links, f[1], v) \in 0..N
    BY <1>1, <2>1, DistanceFact
  <2> QED BY <1>13, <2>1, <2>2, SizeFact DEF Hops
<1>16. w = f[2] => \A x, y, i : At(links, r, x, y, i, f) => Hops(links, f, x) <= k
  <2> SUFFICES ASSUME w = f[2], NEW x, NEW y, NEW i, At(links, r, x, y, i, f)
               PROVE  Hops(links, f, x) <= k
    OBVIOUS
  <2>1. x \in Routers /\ y \in Routers
    BY <1>4, AtFact
  <2>2. OnTrail(links, f, x, y)
    BY <1>9, <1>12 DEF FlowOK
  <2> QED BY <1>1, <1>11, <1>13, <2>1, <2>2, TrailFollowed DEF Hops
<1>17. w # f[2] => /\ Hops(links, f, w) = k + 1
                   /\ OnTrail(links, f, w, createTable(links, w)[f[2]])
  BY <1>1, <1>2, <1>11, <1>13, TrailGoesOn DEF Hops
<1>18. /\ QueuesOK(links, queue') /\ arrived' \in [Flows -> Nat]
       /\ \A h \in Flows : /\ arrived'[h] <= sent[h]
                           /\ FlowOK(links, queue', h, arrived'[h], sent[h])
       /\ Received(r, pk, f)
  <2>1. recv(r, w, pk)
    BY <1>2, <1>3, <1>5
  <2>2. sent \in [Flows -> Nat]
    BY <1>1, RouterAssumption
  <2>3. Parts(links, r, f, k, pk.num) /\ arrived[f] < pk.num /\ pk.num <= sent[f]
    BY <1>7, <1>11, <1>14
  <2> QED BY <1>1, <1>4, <1>6, <1>9, <1>12, <1>15, <1>16, <1>17, <2>1, <2>2, <2>3, RecvStep
<1>19. Invariant'
  BY <1>1, <1>2, <1>18 DEF Invariant
<1>20. /\ n \in On(queue, f) /\ n \notin On(r, f)
       /\ On(r, f) = On(queue, f) \ {n}
       /\ \A h \in Flows : h # f => On(r, h) = On(queue, h)
  <2>1. n \in On(queue, f)
    BY <1>1, <1>10, OnFact
  <2>2. n \notin On(r, f)
    <3> SUFFICES ASSUME n \in On(r, f) PROVE FALSE
      OBVIOUS
    <3>1. PICK x, y, i : At(links, r, x, y, i, f) /\ r[x][y][i].num = n
      BY <1>4, OnFact
    <3> QED BY <1>9, <1>14, <3>1 DEF Parts
  <2>3. ASSUME NEW h
        PROVE  /\ On(r, h) \subseteq On(queue, h)
               /\ \A m \in On(queue, h) : m \in On(r, h) \/ (f = h /\ m = n)
    BY <1>4, <1>6, <1>7, <1>8, OnTaken
  <2> QED BY <2>1, <2>2, <2>3
<1>21. ASSUME NEW h \in Flows
       PROVE  OnWay(h) = On(queue, h) /\ OnWay(h)' = On(queue', h)
  BY OnWayIs
<1> DEFINE M == [h \in Flows |-> OnWay(h)]
           MP == [h \in Flows |-> OnWay(h)']
<1>22. CASE \A h \in Flows : On(queue', h) = On(r, h)
  <2>1. MP = [M EXCEPT ![f] = @ \ {n}]
    BY <1>9, <1>20, <1>21, <1>22
  <2>2. n \in M[f]
    BY <1>9, <1>20, <1>21
  <2>3. CASE arrived' = arrived
    <3>1. Link!Lose(f)
      BY <1>2, <2>1, <2>2, <2>3 DEF Link!Lose
    <3> QED BY <1>9, <1>19, <3>1 DEF Link!Next
  <2>4. CASE /\ arrived' = [arrived EXCEPT ![f] = n]
             /\ \A m \in On(r, f) : n < m
    <3>1. \A m \in M[f] : n <= m
      <4> SUFFICES ASSUME NEW m \in On(queue, f) PROVE n <= m
        BY <1>9, <1>21
      <4>1. CASE m = n
        BY <1>9, <4>1
      <4>2. CASE m # n
        <5>1. n < m
          BY <1>20, <2>4, <4>2
        <5>2. PICK x, y, i : At(links, queue, x, y, i, f) /\ queue[x][y][i].num = m
          BY <1>1, OnFact
        <5>3. m \in Nat
          BY <1>1, <5>2, AtFact
        <5> QED BY <1>9, <5>1, <5>3
      <4> QED BY <4>1, <4>2
    <3>2. Link!Arrive(f)
      BY <1>2, <2>1, <2>2, <2>4, <3>1 DEF Link!Arrive
    <3> QED BY <1>9, <1>19, <3>2 DEF Link!Next
  <2> QED BY <1>7, <1>18, <1>22, <2>3, <2>4 DEF Received
<1>23. CASE /\ arrived' = arrived
            /\ \A h \in Flows : On(queue', h) = IF h = f THEN On(r, h) \cup {n}
                                                ELSE On(r, h)
  <2>1. MP = M
    <3>1. \A h \in Flows : On(queue', h) = On(queue, h)
      BY <1>20, <1>23
    <3> QED BY <1>21, <3>1
  <2>2. UNCHANGED Link!vars
    BY <1>2, <1>23, <2>1 DEF Link!vars
  <2> QED BY <1>19, <2>2
<1> QED BY <1>7, <1>18, <1>22, <1>23 DEF Received

LEMMA NextStep ==
  ASSUME Invariant, [Next]_vars
  PROVE  Invariant' /\ [Link!Next]_(Link!vars)
<1>1. CASE \E f \in Flows : Insert(f)
  <2>1. PICK f \in Flows : Insert(f)
    BY <1>1
  <2> QED BY <2>1, InsertStep DEF Link!Next
<1>2. CASE \E v, w \in Routers : run(v, w)
  BY <1>2, RunStep
<1>3. CASE UNCHANGED vars
  <2>1. Invariant'
    BY <1>3 DEF vars, Invariant
  <2>2. [h \in Flows |-> OnWay(h)]' = [h \in Flows |-> OnWay(h)]
    BY <1>3 DEF vars, OnWay
  <2> QED BY <1>3, <2>1, <2>2 DEF vars, Link!vars
<1> QED BY <1>1, <1>2, <1>3 DEF Next

LEMMA InvariantHolds == Spec => []Invariant
<1>1. Init => Invariant
  BY InitInvariant
<1>2. Invariant /\ [Next]_vars => Invariant'
  BY NextStep
<1> QED BY <1>1, <1>2, PTL DEF Spec

-----------------------------------------------------------------------------
(* The theorems.                                                           *)

\* The queues keep their limit, and nothing arrives that was not sent (enQ,
\* recv, run).
THEOREM SimulatorTypeCorrect == Spec => []TypeOK
<1>1. Invariant => TypeOK
  <2> SUFFICES ASSUME Invariant PROVE TypeOK
    OBVIOUS
  <2>1. ASSUME NEW v \in Routers, NEW w \in Neighbours(links, v)
        PROVE  /\ Len(queue[v][w]) <= QueueMax
               /\ \A i \in DOMAIN queue[v][w] : queue[v][w][i].flow \in Flows
    <3>1. QueuesOK(links, queue)
      BY DEF Invariant
    <3>2. queue[v][w] \in Seq(Packets) /\ Len(queue[v][w]) <= QueueMax
      BY <3>1 DEF QueuesOK
    <3>3. \A i \in DOMAIN queue[v][w] : queue[v][w][i] \in Packets
      BY <3>2, ElementOfSeq, LenProperties
    <3> QED BY <3>2, <3>3 DEF Packets
  <2>2. ASSUME NEW f \in Flows PROVE sent[f] \in 0..MaxSent /\ arrived[f] \in 0..sent[f]
    <3>1. sent[f] \in 0..MaxSent /\ arrived[f] \in Nat /\ arrived[f] <= sent[f]
      BY DEF Invariant
    <3> QED BY <3>1, RouterAssumption
  <2> QED BY <2>1, <2>2 DEF Invariant, TypeOK
<1> QED BY <1>1, InvariantHolds, PTL

\* In every connected topology a packet on its way is on a shortest path: the
\* tables the routers make for themselves agree that far (createTable).
THEOREM PathsAreShortest == Spec => []OnShortestPath
<1>1. Invariant => OnShortestPath
  <2> SUFFICES ASSUME Invariant, NEW v \in Routers, NEW w \in Neighbours(links, v),
                      NEW i \in DOMAIN queue[v][w],
                      NEW f, f = queue[v][w][i].flow
               PROVE  Distance(links, f[1], v) + 1 + Distance(links, w, f[2])
                        = Distance(links, f[1], f[2])
    BY DEF OnShortestPath
  <2>1. QueuesOK(links, queue)
    BY DEF Invariant
  <2>2. i \in 1..Len(queue[v][w]) /\ queue[v][w] \in Seq(Packets)
    BY <2>1, QueueFact
  <2>3. f \in Flows
    <3>1. queue[v][w][i] \in Packets
      BY <2>2, ElementOfSeq, LenProperties
    <3> QED BY <3>1 DEF Packets
  <2>4. At(links, queue, v, w, i, f)
    BY <2>2 DEF At
  <2>5. FlowOK(links, queue, f, arrived[f], sent[f])
    BY <2>3 DEF Invariant
  <2>6. OnTrail(links, f, v, w)
    BY <2>4, <2>5 DEF FlowOK
  <2> QED BY <2>6 DEF OnTrail
<1> QED BY <1>1, InvariantHolds, PTL

\* In every connected topology the packets from one node to another are lost or
\* arrive once and in order, whatever they share the queues with (recv, run).
THEOREM FlowsKeepOrder == Spec => ImplementsLink
<1>1. Init => Link!Init
  <2> SUFFICES ASSUME Init PROVE Link!Init
    OBVIOUS
  <2>1. ASSUME NEW f \in Flows PROVE OnWay(f) = {}
    <3>1. \A v \in Routers : \A w \in DOMAIN queue[v] : queue[v][w] = << >>
      BY DEF Init
    <3> QED BY <3>1 DEF OnWay
  <2> QED BY <2>1 DEF Init, Link!Init
<1>2. Invariant /\ [Next]_vars => [Link!Next]_(Link!vars)
  BY NextStep
<1> QED BY <1>1, <1>2, InvariantHolds, PTL DEF Spec, ImplementsLink, Link!Spec
=============================================================================
