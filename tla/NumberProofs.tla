---------------------------- MODULE NumberProofs -----------------------------
(***************************************************************************)
(* Facts about numbers that the other proofs need: least and greatest      *)
(* elements, from the well-foundedness of < on Nat, induction and          *)
(* iteration, and division with remainder, which the file arithmetic of    *)
(* packet_handler.c rests on.                                              *)
(***************************************************************************)
EXTENDS Integers, TLAPS, WellFoundedInduction

\* A non-empty set of naturals has a least element.
LEMMA LeastElement ==
  ASSUME NEW S, S \subseteq Nat, S # {}
  PROVE  \E m \in S : \A x \in S : m <= x
<1> DEFINE R == OpToRel(<, Nat)
<1>1. IsWellFoundedOn(R, Nat)
  BY NatLessThanWellFounded
<1>2. PICK m \in S : \A y \in S : ~(<<y, m>> \in R)
  <2> HIDE DEF R
  <2> QED BY <1>1, WFMin, Zenon
<1>3. \A y \in S : ~(y < m)
  BY <1>2 DEF OpToRel
<1> QED BY <1>3

\* A non-empty bounded set of naturals has a greatest element.
LEMMA GreatestElement ==
  ASSUME NEW n \in Nat, NEW S, S \subseteq 0..n, S # {}
  PROVE  \E m \in S : \A x \in S : x <= m
<1> DEFINE T == {n - x : x \in S}
<1>1. T \subseteq Nat /\ T # {}
  <2>1. \A x \in S : x \in 0..n /\ n - x \in Nat
    OBVIOUS
  <2>2. PICK x \in S : TRUE
    OBVIOUS
  <2>3. n - x \in T
    BY <2>2
  <2> QED BY <2>1, <2>3
<1>2. PICK t \in T : \A y \in T : t <= y
  <2> HIDE DEF T
  <2> QED BY <1>1, LeastElement
<1>3. PICK m \in S : t = n - m
  OBVIOUS
<1>4. ASSUME NEW x \in S PROVE x <= m
  <2>1. t <= n - x
    BY <1>2
  <2> QED BY <2>1, <1>3
<1> QED BY <1>3, <1>4

\* Induction up to n, with a set for the property.
LEMMA Induction ==
  ASSUME NEW n \in Nat, NEW P, 0 \in P, \A k \in 0..(n - 1) : k \in P => k + 1 \in P
  PROVE  0..n \subseteq P
<1> DEFINE S == (0..n) \ P
<1> SUFFICES ASSUME S # {} PROVE FALSE
  OBVIOUS
<1>1. PICK m \in S : \A x \in S : m <= x
  <2>1. S \subseteq Nat
    OBVIOUS
  <2> HIDE DEF S
  <2> QED BY <2>1, LeastElement
<1>2. m \in 0..n /\ m \notin P /\ m # 0
  OBVIOUS
<1>3. m - 1 \in 0..(n - 1) /\ (m - 1) + 1 = m
  BY <1>2
<1>4. m - 1 \notin P
  BY <1>2, <1>3
<1>5. m - 1 \in S
  BY <1>3, <1>4
<1>6. m <= m - 1
  <2> HIDE DEF S
  <2> QED BY <1>1, <1>5
<1> QED BY <1>2, <1>6

\* f has the values on the way from start, by step, up to the n-th.
Iterates(f, start, step, n) ==
  f[0] = start /\ \A k \in 1..n : f[k] = step[f[k - 1]]

LEMMA Iteration ==
  ASSUME NEW n \in Nat, NEW S, NEW start \in S, NEW step \in [S -> S]
  PROVE  \E f \in [0..n -> S] : Iterates(f, start, step, n)
<1> DEFINE Upto(f, k) == Iterates(f, start, step, k)
           P == {k \in 0..n : \E f \in [0..n -> S] : Upto(f, k)}
<1>1. 0 \in P
  <2> DEFINE f == [j \in 0..n |-> start]
  <2>1. f \in [0..n -> S] /\ Upto(f, 0)
    BY DEF Iterates
  <2> HIDE DEF f
  <2> QED BY <2>1
<1>2. ASSUME NEW k \in 0..(n - 1), k \in P PROVE k + 1 \in P
  <2>1. PICK f \in [0..n -> S] : Upto(f, k)
    BY <1>2
  <2> DEFINE g == [f EXCEPT ![k + 1] = step[f[k]]]
  <2>2. k \in 0..n /\ k + 1 \in 0..n
    OBVIOUS
  <2>3. f[k] \in S /\ step[f[k]] \in S
    BY <2>2
  <2>4. /\ g \in [0..n -> S] /\ g[k + 1] = step[f[k]]
        /\ \A j \in 0..k : g[j] = f[j]
    BY <2>2, <2>3
  <2> HIDE DEF g
  <2>5. g[0] = start
    BY <2>1, <2>4 DEF Iterates
  <2>6. ASSUME NEW j \in 1..(k + 1) PROVE g[j] = step[g[j - 1]]
    <3>1. g[j - 1] = f[j - 1]
      BY <2>4
    <3>2. CASE j = k + 1
      BY <2>4, <3>1, <3>2
    <3>3. CASE j # k + 1
      <4>1. j \in 1..k
        BY <3>3
      <4> QED BY <2>1, <2>4, <3>1, <4>1 DEF Iterates
    <3> QED BY <3>2, <3>3
  <2>7. Upto(g, k + 1)
    BY <2>5, <2>6 DEF Iterates
  <2> QED BY <2>2, <2>4, <2>7
<1>3. 0..n \subseteq P
  <2> HIDE DEF P
  <2> QED BY <1>1, <1>2, Induction
<1>4. n \in P
  BY <1>3
<1> QED BY <1>4

\* Of two multiples of b the smaller is b less, at least.
LEMMA Multiples ==
  ASSUME NEW b \in Nat, NEW i \in Nat, NEW j \in Nat, i < j
  PROVE  /\ i * b \in Nat /\ j * b \in Nat
         /\ i * b + b <= j * b
<1>1. PICK d \in Nat : j = i + 1 + d
  <2>1. j - i - 1 \in Nat /\ j = i + 1 + (j - i - 1)
    OBVIOUS
  <2> QED BY <2>1
<1>2. j * b = i * b + b + d * b
  BY <1>1
<1>3. d * b \in Nat /\ i * b \in Nat
  BY <1>1
<1> QED BY <1>2, <1>3

\* Division with remainder.
LEMMA Division ==
  ASSUME NEW n \in Nat, NEW b \in Nat \ {0}
  PROVE  /\ n \div b \in Nat /\ (n \div b) * b \in Nat
         /\ (n \div b) * b <= n /\ n < (n \div b) * b + b
OBVIOUS

\* A number written as a multiple and a remainder has this quotient and this
\* remainder.
LEMMA QuotientAndRemainder ==
  ASSUME NEW a \in Nat, NEW b \in Nat \ {0}, NEW r \in Nat, r < b
  PROVE  (a * b + r) \div b = a /\ (a * b + r) % b = r
<1> DEFINE n == a * b + r
           q == n \div b
<1>1. n \in Nat /\ a * b \in Nat
  OBVIOUS
<1> HIDE DEF n
<1>2. q \in Nat /\ q * b \in Nat /\ q * b <= n /\ n < q * b + b /\ n % b = n - q * b
  BY <1>1
<1> HIDE DEF q
<1>3. ASSUME q < a PROVE FALSE
  <2>1. q * b + b <= a * b
    BY <1>2, <1>3, Multiples
  <2> QED BY <1>1, <1>2, <2>1 DEF n
<1>4. ASSUME a < q PROVE FALSE
  <2>1. a * b + b <= q * b
    BY <1>2, <1>4, Multiples
  <2> QED BY <1>1, <1>2, <2>1 DEF n
<1>5. q = a
  BY <1>2, <1>3, <1>4
<1>6. n % b = r
  BY <1>1, <1>2, <1>5 DEF n
<1> QED BY <1>5, <1>6 DEF n, q
=============================================================================
