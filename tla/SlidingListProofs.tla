-------------------------- MODULE SlidingListProofs --------------------------
(***************************************************************************)
(* The linked lists of sliding_buffer.c implement the windows of           *)
(* SlidingWindows, for every set of addresses and of sequence numbers.     *)
(*                                                                         *)
(* The invariant says which cells the two lists are made of: there are     *)
(* sequences p and q of addresses that the two lists follow, that have no  *)
(* cell in common and leave none out.  What a call does to its list is     *)
(* then a change of p: a prefix is dropped, or one address put in.         *)
(***************************************************************************)
EXTENDS SlidingList, NumberProofs, SequenceTheorems, FiniteSetTheorems

\* p are cells that next leads along, to the end of a list.
IsPath(heap, p) ==
  /\ p \in Seq(DOMAIN heap)
  /\ \A k \in 1..Len(p) : heap[p[k]].next = IF k = Len(p) THEN NULL ELSE p[k + 1]
  /\ \A j, k \in 1..Len(p) : p[j] = p[k] => j = k

In(p) == {p[k] : k \in 1..Len(p)}

\* The list of the cells p.
ListOf(p) == [num_entry |-> Len(p),
              head |-> IF Len(p) = 0 THEN NULL ELSE p[1],
              tail |-> IF Len(p) = 0 THEN NULL ELSE p[Len(p)]]

-----------------------------------------------------------------------------
(* The walks over a heap whose cells are on two paths.                     *)

\* What Walks(heap) satisfies: a walk is a cell, and the walk from the next.
AreWalks(heap, w) ==
  w = [a \in DOMAIN heap |-> IF heap[a].next = NULL THEN <<a>>
                             ELSE <<a>> \o w[heap[a].next]]

\* There is only one way to walk if every walk ends.
LEMMA WalksAreUnique ==
  ASSUME NEW heap, NEW w \in [DOMAIN heap -> Seq(DOMAIN heap)], AreWalks(heap, w),
         \A a \in DOMAIN heap : heap[a].next # NULL => heap[a].next \in DOMAIN heap
  PROVE  Walks(heap) = w
<1> DEFINE u == Walks(heap)
<1>1. AreWalks(heap, u)
  <2>1. u = CHOOSE f : AreWalks(heap, f)
    BY DEF Walks, AreWalks
  <2> QED BY <2>1
<1> HIDE DEF u
<1> DEFINE Differs(a) == u[a] # w[a]
           lengths == {Len(w[a]) : a \in {a \in DOMAIN heap : Differs(a)}}
<1>2. \A a \in DOMAIN heap : w[a] \in Seq(DOMAIN heap) /\ Len(w[a]) \in Nat
  BY LenProperties
<1>3. ASSUME NEW a \in DOMAIN heap, Differs(a)
      PROVE  \E b \in DOMAIN heap : Differs(b) /\ Len(w[b]) < Len(w[a])
  <2> DEFINE b == heap[a].next
  <2>1. /\ u[a] = IF b = NULL THEN <<a>> ELSE <<a>> \o u[b]
        /\ w[a] = IF b = NULL THEN <<a>> ELSE <<a>> \o w[b]
    BY <1>1 DEF AreWalks
  <2>2. b # NULL /\ b \in DOMAIN heap
    BY <1>3, <2>1
  <2>3. u[b] # w[b]
    BY <1>3, <2>1, <2>2
  <2>4. <<a>> \in Seq(DOMAIN heap) /\ Len(<<a>>) = 1
    OBVIOUS
  <2>5. Len(w[a]) = 1 + Len(w[b])
    <3>1. Len(<<a>> \o w[b]) = Len(<<a>>) + Len(w[b])
      BY <1>2, <2>2, <2>4, ConcatProperties
    <3> QED BY <2>1, <2>2, <2>4, <3>1
  <2>6. Len(w[b]) < Len(w[a])
    BY <1>2, <2>2, <2>5
  <2> QED BY <2>2, <2>3, <2>6
<1>4. \A a \in DOMAIN heap : ~Differs(a)
  <2> SUFFICES ASSUME lengths # {} PROVE FALSE
    OBVIOUS
  <2>1. lengths \subseteq Nat
    BY <1>2
  <2>2. PICK m \in lengths : \A n \in lengths : m <= n
    <3> HIDE DEF lengths
    <3> QED BY <2>1, LeastElement
  <2>3. PICK a \in DOMAIN heap : Differs(a) /\ m = Len(w[a])
    BY <2>2
  <2>4. PICK b \in DOMAIN heap : Differs(b) /\ Len(w[b]) < Len(w[a])
    BY <1>3, <2>3
  <2>5. Len(w[b]) \in lengths
    BY <2>4
  <2>6. m <= Len(w[b])
    <3> HIDE DEF lengths
    <3> QED BY <2>2, <2>5
  <2>7. Len(w[b]) \in Nat /\ m \in Nat /\ Len(w[b]) < m
    BY <1>2, <2>1, <2>3, <2>4
  <2> HIDE DEF lengths, Differs
  <2> QED BY <2>6, <2>7
<1>5. u = [a \in DOMAIN heap |-> u[a]] /\ w = [a \in DOMAIN heap |-> w[a]]
  BY <1>1 DEF AreWalks
<1> QED BY <1>4, <1>5 DEF u

IndexOf(p, a) == CHOOSE k \in 1..Len(p) : p[k] = a
From(p, a) == SubSeq(p, IndexOf(p, a), Len(p))

\* The rest of a path from one of its cells on.
LEMMA FromCell ==
  ASSUME NEW heap, NEW p, IsPath(heap, p), NEW k \in 1..Len(p)
  PROVE  /\ From(p, p[k]) \in Seq(DOMAIN heap)
         /\ From(p, p[k]) = SubSeq(p, k, Len(p))
         /\ k = Len(p) => From(p, p[k]) = <<p[k]>>
         /\ k # Len(p) => From(p, p[k]) = <<p[k]>> \o From(p, p[k + 1])
<1>1. p \in Seq(DOMAIN heap) /\ Len(p) \in Nat
  BY LenProperties DEF IsPath
<1>2. \A j \in 1..Len(p) : IndexOf(p, p[j]) = j
  BY DEF IsPath, IndexOf
<1>3. From(p, p[k]) = SubSeq(p, k, Len(p))
  BY <1>2 DEF From
<1>4. SubSeq(p, k, Len(p)) \in Seq(DOMAIN heap)
  <2>1. \A i \in k..Len(p) : p[i] \in DOMAIN heap
    BY <1>1
  <2> QED BY <1>1, <2>1, SubSeqProperties
<1>5. SubSeq(p, k, Len(p)) = <<p[k]>> \o SubSeq(p, k + 1, Len(p))
  <2>1. Len(p) \in k..Len(p)
    BY <1>1
  <2> QED BY <1>1, <2>1, SubSeqRecursiveFirst
<1>6. CASE k = Len(p)
  <2>1. SubSeq(p, k + 1, Len(p)) = << >>
    BY <1>1, <1>6, SubSeqEmpty
  <2>2. <<p[k]>> \o << >> = <<p[k]>>
    <3>1. p[k] \in DOMAIN heap
      BY <1>1
    <3>2. <<p[k]>> \in Seq(DOMAIN heap)
      BY <3>1
    <3> QED BY <3>2, ConcatEmptySeq
  <2> QED BY <1>3, <1>4, <1>5, <1>6, <2>1, <2>2
<1>7. CASE k # Len(p)
  <2>1. k + 1 \in 1..Len(p)
    BY <1>1, <1>7
  <2>2. From(p, p[k + 1]) = SubSeq(p, k + 1, Len(p))
    BY <1>2, <2>1 DEF From
  <2> QED BY <1>3, <1>4, <1>5, <1>7, <2>2
<1> QED BY <1>6, <1>7

\* p and q are two lists, and the heap has no other cells.
TwoPaths(heap, p, q) ==
  /\ IsPath(heap, p) /\ IsPath(heap, q)
  /\ In(p) \cap In(q) = {} /\ DOMAIN heap = In(p) \cup In(q)

LEMMA PathIs ==
  ASSUME NEW heap, NEW p, NEW q, NULL \notin DOMAIN heap, TwoPaths(heap, p, q)
  PROVE  Path(heap, ListOf(p)) = p /\ Path(heap, ListOf(q)) = q
<1> DEFINE w == [a \in DOMAIN heap |-> IF a \in In(p) THEN From(p, a) ELSE From(q, a)]
<1>1. /\ p \in Seq(DOMAIN heap) /\ q \in Seq(DOMAIN heap)
      /\ Len(p) \in Nat /\ Len(q) \in Nat
  BY LenProperties DEF TwoPaths, IsPath
<1>2. /\ \A k \in 1..Len(p) : p[k] \in DOMAIN heap /\ w[p[k]] = From(p, p[k])
      /\ \A k \in 1..Len(q) : q[k] \in DOMAIN heap /\ w[q[k]] = From(q, q[k])
  BY DEF TwoPaths, In
<1>3. ASSUME NEW a \in DOMAIN heap
      PROVE  \/ \E k \in 1..Len(p) : a = p[k]
             \/ \E k \in 1..Len(q) : a = q[k]
  BY DEF TwoPaths, In
<1> HIDE DEF w
<1> DEFINE Walk(a) ==
             /\ w[a] \in Seq(DOMAIN heap)
             /\ heap[a].next # NULL => heap[a].next \in DOMAIN heap
             /\ w[a] = IF heap[a].next = NULL THEN <<a>> ELSE <<a>> \o w[heap[a].next]
<1>4. ASSUME NEW a \in DOMAIN heap PROVE Walk(a)
  <2>1. ASSUME NEW x, IsPath(heap, x), NEW k \in 1..Len(x), a = x[k],
               \A j \in 1..Len(x) : x[j] \in DOMAIN heap /\ w[x[j]] = From(x, x[j])
        PROVE  Walk(a)
    <3>1. heap[a].next = IF k = Len(x) THEN NULL ELSE x[k + 1]
      BY <2>1 DEF IsPath
    <3>2. Len(x) \in Nat
      BY <2>1, LenProperties DEF IsPath
    <3>3. w[a] = From(x, x[k])
      BY <2>1
    <3>4. /\ From(x, x[k]) \in Seq(DOMAIN heap)
          /\ k = Len(x) => From(x, x[k]) = <<x[k]>>
          /\ k # Len(x) => From(x, x[k]) = <<x[k]>> \o From(x, x[k + 1])
      <4>1. IsPath(heap, x) /\ k \in 1..Len(x)
        BY <2>1
      <4> QED BY ONLY <4>1, FromCell, Zenon
    <3>5. CASE k = Len(x)
      <4>1. heap[a].next = NULL
        BY <3>1, <3>5
      <4> QED BY <2>1, <3>3, <3>4, <3>5, <4>1
    <3>6. CASE k # Len(x)
      <4>1. k + 1 \in 1..Len(x)
        BY <3>2, <3>6
      <4>2. x[k + 1] \in DOMAIN heap /\ w[x[k + 1]] = From(x, x[k + 1])
        BY <2>1, <4>1
      <4>3. x[k + 1] # NULL /\ heap[a].next = x[k + 1]
        BY <3>1, <3>6, <4>2
      <4> QED BY <2>1, <3>3, <3>4, <3>6, <4>2, <4>3
    <3> QED BY <3>5, <3>6
  <2>2. CASE \E k \in 1..Len(p) : a = p[k]
    BY <1>2, <2>1, <2>2 DEF TwoPaths
  <2>3. CASE \E k \in 1..Len(q) : a = q[k]
    BY <1>2, <2>1, <2>3 DEF TwoPaths
  <2> QED BY <1>3, <2>2, <2>3
<1>5. Walks(heap) = w
  <2>1. w \in [DOMAIN heap -> Seq(DOMAIN heap)] /\ AreWalks(heap, w)
    <3>1. w = [a \in DOMAIN heap |-> w[a]]
      BY DEF w
    <3> QED BY <1>4, <3>1 DEF AreWalks
  <2> QED BY <1>4, <2>1, WalksAreUnique
<1>6. ASSUME NEW x, IsPath(heap, x),
             \A j \in 1..Len(x) : x[j] \in DOMAIN heap /\ w[x[j]] = From(x, x[j])
      PROVE  Path(heap, ListOf(x)) = x
  <2>1. x \in Seq(DOMAIN heap) /\ Len(x) \in Nat
    BY <1>6, LenProperties DEF IsPath
  <2>2. CASE Len(x) = 0
    BY <2>1, <2>2 DEF ListOf, Path
  <2>3. CASE Len(x) # 0
    <3>1. 1 \in 1..Len(x)
      BY <2>1, <2>3
    <3>2. ListOf(x).head = x[1] /\ x[1] # NULL
      BY <1>6, <2>3, <3>1 DEF ListOf
    <3>3. From(x, x[1]) = SubSeq(x, 1, Len(x))
      BY <1>6, <3>1, FromCell
    <3>4. SubSeq(x, 1, Len(x)) = x
      BY <2>1, SubSeqFull
    <3>5. w[x[1]] = From(x, x[1])
      BY <1>6, <3>1
    <3> QED BY <1>5, <3>2, <3>3, <3>4, <3>5 DEF Path
  <2> QED BY <2>2, <2>3
<1> QED BY <1>2, <1>6 DEF TwoPaths

-----------------------------------------------------------------------------
(* What the calls do to a list: they drop a prefix, or link a cell in.      *)

Cell == [seq : SeqNums, next : Address \cup {NULL}]

HeapOK(heap) == DOMAIN heap \subseteq Address /\ \A a \in DOMAIN heap : heap[a] \in Cell

\* The sequence numbers of the packets in the cells p.
SeqsOn(heap, p) == [k \in 1..Len(p) |-> heap[p[k]].seq]

LEMMA SeqsOnType ==
  ASSUME NEW heap, HeapOK(heap), NEW p \in Seq(DOMAIN heap)
  PROVE  /\ SeqsOn(heap, p) \in Seq(SeqNums) /\ Len(SeqsOn(heap, p)) = Len(p)
         /\ \A k \in 1..Len(p) : /\ SeqsOn(heap, p)[k] = heap[p[k]].seq
                                 /\ SeqsOn(heap, p)[k] \in SeqNums
<1>1. Len(p) \in Nat /\ \A k \in 1..Len(p) : p[k] \in DOMAIN heap
  BY LenProperties
<1>2. \A k \in 1..Len(p) : heap[p[k]].seq \in SeqNums
  BY <1>1 DEF HeapOK, Cell
<1> QED BY <1>1, <1>2 DEF SeqsOn

\* A path of a heap is a path of another one that has the same cells on it.
LEMMA SamePath ==
  ASSUME NEW heap, NEW other, NEW p, IsPath(heap, p), In(p) \subseteq DOMAIN other,
         \A a \in In(p) : other[a] = heap[a]
  PROVE  IsPath(other, p) /\ SeqsOn(other, p) = SeqsOn(heap, p)
<1>1. Len(p) \in Nat /\ p \in [1..Len(p) -> DOMAIN heap]
  BY LenProperties DEF IsPath
<1>2. \A k \in 1..Len(p) : p[k] \in In(p)
  BY DEF In
<1>3. p \in Seq(DOMAIN other)
  <2>1. p \in [1..Len(p) -> DOMAIN other]
    BY <1>1, <1>2
  <2> QED BY <1>1, <2>1
<1>4. \A k \in 1..Len(p) : other[p[k]] = heap[p[k]]
  BY <1>2
<1> QED BY <1>3, <1>4 DEF IsPath, SeqsOn

\* The list r is left of p when its first m cells are gone.
Dropped(heap, p, q, m, r, left) ==
  /\ HeapOK(left) /\ TwoPaths(left, r, q)
  /\ SeqsOn(left, q) = SeqsOn(heap, q)
  /\ SeqsOn(left, r) = SubSeq(SeqsOn(heap, p), m + 1, Len(p))
  /\ ListOf(r) = [num_entry |-> Len(p) - m,
                  head |-> IF m = Len(p) THEN NULL ELSE p[m + 1],
                  tail |-> IF m = Len(p) THEN NULL ELSE ListOf(p).tail]

\* The first m cells are freed.
LEMMA Drop ==
  ASSUME NEW heap, HeapOK(heap), NEW p, NEW q, TwoPaths(heap, p, q),
         NEW m \in 0..Len(p), NEW r, r = SubSeq(p, m + 1, Len(p)),
         NEW left, left = free(heap, {p[j] : j \in 1..m})
  PROVE  Dropped(heap, p, q, m, r, left)
<1> DEFINE freed == {p[j] : j \in 1..m}
<1>1. /\ p \in Seq(DOMAIN heap) /\ q \in Seq(DOMAIN heap)
      /\ Len(p) \in Nat /\ Len(q) \in Nat /\ m \in Nat /\ m <= Len(p)
  BY LenProperties DEF TwoPaths, IsPath
<1>2. /\ r \in Seq(DOMAIN heap) /\ Len(r) = Len(p) - m
      /\ \A k \in 1..Len(r) : r[k] = p[m + k]
  <2>1. \A i \in (m + 1)..Len(p) : p[i] \in DOMAIN heap
    BY <1>1
  <2>2. /\ r \in Seq(DOMAIN heap) /\ Len(r) = IF m + 1 <= Len(p) THEN Len(p) - (m + 1) + 1 ELSE 0
        /\ \A k \in 1..(Len(p) - (m + 1) + 1) : r[k] = p[m + 1 + k - 1]
    BY <1>1, <2>1, SubSeqProperties
  <2> QED BY <1>1, <2>2
<1>3. DOMAIN left = DOMAIN heap \ freed /\ \A a \in DOMAIN left : left[a] = heap[a]
  BY DEF free, Restrict
<1>4. HeapOK(left)
  BY <1>3 DEF HeapOK
<1>5. \A k \in 1..Len(r) : m + k \in 1..Len(p) /\ r[k] \in In(p) /\ r[k] \notin freed
  BY <1>1, <1>2 DEF TwoPaths, IsPath, In
<1>6. In(r) = In(p) \ freed
  <2>1. ASSUME NEW k \in 1..Len(p), p[k] \notin freed PROVE p[k] \in In(r)
    <3>1. ~(k \in 1..m)
      BY <2>1
    <3>2. k \in 1..Len(p) /\ Len(p) \in Nat /\ m \in Nat
      BY <1>1
    <3>3. k - m \in 1..(Len(p) - m) /\ m + (k - m) = k
      BY ONLY <3>1, <3>2
    <3>4. k - m \in 1..Len(r) /\ r[k - m] = p[m + (k - m)]
      BY <1>2, <3>3
    <3>5. \E i \in 1..Len(r) : r[i] = p[k]
      BY ONLY <3>3, <3>4
    <3> QED BY ONLY <3>5 DEF In
  <2>2. In(r) \subseteq In(p) \ freed
    <3> HIDE DEF freed
    <3> QED BY ONLY <1>5 DEF In
  <2>3. \A a \in In(p) : \E k \in 1..Len(p) : a = p[k]
    BY ONLY TRUE DEF In
  <2>4. In(p) \ freed \subseteq In(r)
    <3> HIDE DEF freed
    <3> QED BY ONLY <2>1, <2>3
  <2> QED BY <2>2, <2>4
<1>7. freed \subseteq In(p)
  BY <1>1 DEF In
<1>8. IsPath(left, q) /\ SeqsOn(left, q) = SeqsOn(heap, q)
  <2>1. In(q) \subseteq DOMAIN left /\ \A a \in In(q) : left[a] = heap[a]
    BY <1>3, <1>7 DEF TwoPaths
  <2>2. IsPath(heap, q)
    BY DEF TwoPaths
  <2> QED BY ONLY <2>1, <2>2, SamePath, Zenon
<1>9. IsPath(left, r)
  <2>1. r \in Seq(DOMAIN left)
    <3>1. \A k \in 1..Len(r) : r[k] \in DOMAIN left
      BY <1>3, <1>5 DEF TwoPaths
    <3>2. r \in [1..Len(r) -> DOMAIN left]
      BY <1>2, <3>1, LenProperties
    <3>3. Len(r) \in Nat
      BY <1>1, <1>2
    <3> QED BY ONLY <3>2, <3>3
  <2>2. ASSUME NEW k \in 1..Len(r)
        PROVE  left[r[k]].next = IF k = Len(r) THEN NULL ELSE r[k + 1]
    <3>1. left[r[k]] = heap[p[m + k]]
      BY <1>2, <1>3, <1>5 DEF TwoPaths
    <3>2. heap[p[m + k]].next = IF m + k = Len(p) THEN NULL ELSE p[m + k + 1]
      BY <1>5 DEF TwoPaths, IsPath
    <3>3. k # Len(r) => k + 1 \in 1..Len(r) /\ r[k + 1] = p[m + k + 1]
      BY <1>1, <1>2
    <3> QED BY <1>1, <1>2, <3>1, <3>2, <3>3
  <2>3. ASSUME NEW j \in 1..Len(r), NEW k \in 1..Len(r), r[j] = r[k] PROVE j = k
    <3>1. m + j = m + k
      BY <1>2, <1>5, <2>3 DEF TwoPaths, IsPath
    <3> QED BY <1>1, <3>1
  <2> QED BY <2>1, <2>2, <2>3 DEF IsPath
<1>10. TwoPaths(left, r, q)
  BY <1>3, <1>6, <1>7, <1>8, <1>9 DEF TwoPaths
<1>11. SeqsOn(left, r) = SubSeq(SeqsOn(heap, p), m + 1, Len(p))
  <2> DEFINE s == SeqsOn(heap, p)
             t == SubSeq(s, m + 1, Len(p))
  <2>1. /\ s \in Seq(SeqNums) /\ Len(s) = Len(p)
        /\ \A k \in 1..Len(p) : s[k] = heap[p[k]].seq /\ s[k] \in SeqNums
    BY <1>1, SeqsOnType
  <2>2. /\ t \in Seq(SeqNums) /\ Len(t) = IF m + 1 <= Len(p) THEN Len(p) - (m + 1) + 1 ELSE 0
        /\ \A k \in 1..(Len(p) - (m + 1) + 1) : t[k] = s[m + 1 + k - 1]
    <3> HIDE DEF s
    <3>1. \A i \in (m + 1)..Len(p) : s[i] \in SeqNums
      BY <1>1, <2>1
    <3> QED BY <1>1, <3>1, SubSeqProperties
  <2>3. /\ SeqsOn(left, r) \in Seq(SeqNums) /\ Len(SeqsOn(left, r)) = Len(r)
        /\ \A k \in 1..Len(r) : SeqsOn(left, r)[k] = left[r[k]].seq
    <3>1. r \in Seq(DOMAIN left)
      BY <1>9 DEF IsPath
    <3> QED BY ONLY <1>4, <3>1, SeqsOnType, Zenon
  <2>4. ASSUME NEW k \in 1..Len(r) PROVE SeqsOn(left, r)[k] = t[k]
    <3>1. left[r[k]] = heap[p[m + k]]
      BY <1>2, <1>3, <1>5 DEF TwoPaths
    <3>2. t[k] = s[m + k]
      <4>1. k \in 1..(Len(p) - (m + 1) + 1) /\ m + 1 + k - 1 = m + k
        BY <1>1, <1>2
      <4> QED BY <2>2, <4>1
    <3> QED BY <1>5, <2>1, <2>3, <3>1, <3>2
  <2>5. Len(t) = Len(r)
    BY <1>1, <1>2, <2>2
  <2> HIDE DEF t
  <2>6. SeqsOn(left, r) = t
    BY <2>2, <2>3, <2>4, <2>5, SeqEqual
  <2> QED BY <2>6 DEF t
<1>12. ListOf(r) = [num_entry |-> Len(p) - m,
                    head |-> IF m = Len(p) THEN NULL ELSE p[m + 1],
                    tail |-> IF m = Len(p) THEN NULL ELSE ListOf(p).tail]
  <2>1. CASE m = Len(p)
    BY <1>1, <1>2, <2>1 DEF ListOf
  <2>2. CASE m # Len(p)
    <3>1. 1 \in 1..Len(r) /\ Len(r) \in 1..Len(r) /\ m + Len(r) = Len(p)
      BY <1>1, <1>2, <2>2
    <3>2. r[1] = p[m + 1] /\ r[Len(r)] = p[Len(p)]
      BY <1>2, <3>1
    <3>3. Len(r) # 0 /\ Len(p) # 0 /\ Len(r) = Len(p) - m
      BY <1>1, <1>2, <2>2
    <3> QED BY ONLY <2>2, <3>2, <3>3 DEF ListOf
  <2> QED BY <2>1, <2>2
<1> QED BY <1>4, <1>8, <1>10, <1>11, <1>12 DEF Dropped

\* A new cell is linked in behind the first k cells of p.
Linked(heap, p, k, new, seq, grown) ==
  /\ DOMAIN grown = DOMAIN heap \cup {new}
  /\ grown[new] = [seq |-> seq, next |-> IF k = Len(p) THEN NULL ELSE p[k + 1]]
  /\ k # 0 => grown[p[k]] = [seq |-> heap[p[k]].seq, next |-> new]
  /\ \A a \in DOMAIN heap : (k # 0 => a # p[k]) => grown[a] = heap[a]

With(p, k, new) ==
  [i \in 1..(Len(p) + 1) |-> IF i <= k THEN p[i] ELSE IF i = k + 1 THEN new ELSE p[i - 1]]

LEMMA WithType ==
  ASSUME NEW S, NEW p \in Seq(S), NEW k \in 0..Len(p), NEW new \in S
  PROVE  With(p, k, new) \in Seq(S) /\ Len(With(p, k, new)) = Len(p) + 1
<1>1. Len(p) \in Nat /\ \A i \in 1..Len(p) : p[i] \in S
  BY LenProperties
<1>2. ASSUME NEW i \in 1..(Len(p) + 1) PROVE With(p, k, new)[i] \in S
  <2>1. CASE i <= k
    BY <1>1, <2>1 DEF With
  <2>2. CASE i = k + 1
    BY <1>1, <2>2 DEF With
  <2>3. CASE i > k + 1
    <3>1. i - 1 \in 1..Len(p)
      BY <1>1, <2>3
    <3> QED BY <1>1, <2>3, <3>1 DEF With
  <2> QED BY <1>1, <2>1, <2>2, <2>3
<1>3. With(p, k, new) \in [1..(Len(p) + 1) -> S]
  BY <1>2 DEF With
<1> QED BY <1>1, <1>3

LEMMA LinkIn ==
  ASSUME NEW heap, HeapOK(heap), NEW p, NEW q, TwoPaths(heap, p, q),
         NEW k \in 0..Len(p), k = 0 => Len(p) = 0,
         NEW new \in Address \ DOMAIN heap, NEW seq \in SeqNums,
         NEW grown, Linked(heap, p, k, new, seq, grown),
         NEW r, r = With(p, k, new)
  PROVE  /\ HeapOK(grown) /\ TwoPaths(grown, r, q)
         /\ SeqsOn(grown, q) = SeqsOn(heap, q)
         /\ SeqsOn(grown, r) = With(SeqsOn(heap, p), k, seq)
         /\ ListOf(r) = [num_entry |-> Len(p) + 1,
                         head |-> IF Len(p) = 0 THEN new ELSE ListOf(p).head,
                         tail |-> IF k = Len(p) THEN new ELSE ListOf(p).tail]
<1>1. /\ p \in Seq(DOMAIN heap) /\ Len(p) \in Nat /\ k \in Nat /\ k <= Len(p)
      /\ \A i \in 1..Len(p) : p[i] \in DOMAIN heap /\ p[i] \in In(p) /\ p[i] # new
  BY LenProperties DEF TwoPaths, IsPath, In
<1>2. /\ r \in Seq(DOMAIN grown) /\ Len(r) = Len(p) + 1
      /\ \A i \in 1..(Len(p) + 1) :
           r[i] = IF i <= k THEN p[i] ELSE IF i = k + 1 THEN new ELSE p[i - 1]
  <2>1. p \in Seq(DOMAIN grown) /\ new \in DOMAIN grown
    <3>1. DOMAIN heap \subseteq DOMAIN grown /\ new \in DOMAIN grown
      BY DEF Linked
    <3> QED BY <1>1, <3>1, SeqMonotonic
  <2>2. With(p, k, new) \in Seq(DOMAIN grown) /\ Len(With(p, k, new)) = Len(p) + 1
    BY <2>1, WithType
  <2> QED BY <2>2 DEF With
<1>3. HeapOK(grown)
  <2>1. \A i \in 1..Len(p) : p[i] \in Address \cup {NULL}
    BY <1>1 DEF HeapOK
  <2>2. grown[new] \in Cell
    <3>1. k # Len(p) => k + 1 \in 1..Len(p)
      BY <1>1
    <3> QED BY <2>1, <3>1 DEF Linked, Cell
  <2>3. k # 0 => k \in 1..Len(p) /\ grown[p[k]] \in Cell
    BY <1>1 DEF Linked, HeapOK, Cell
  <2>4. DOMAIN grown \subseteq Address
    BY DEF Linked, HeapOK
  <2>5. \A a \in DOMAIN grown : grown[a] \in Cell
    BY <2>2, <2>3 DEF Linked, HeapOK
  <2> QED BY <2>4, <2>5 DEF HeapOK
<1>4. IsPath(grown, q) /\ SeqsOn(grown, q) = SeqsOn(heap, q)
  <2>1. In(q) \subseteq DOMAIN grown
    BY DEF TwoPaths, Linked
  <2>2. ASSUME NEW a \in In(q) PROVE grown[a] = heap[a]
    <3>1. k # 0 => p[k] \in In(p)
      BY <1>1
    <3> QED BY <3>1 DEF TwoPaths, Linked
  <2>3. IsPath(heap, q)
    BY DEF TwoPaths
  <2> QED BY ONLY <2>1, <2>2, <2>3, SamePath, Zenon
<1>5. \A i \in 1..Len(p) : i # k => grown[p[i]] = heap[p[i]]
  <2>1. ASSUME NEW i \in 1..Len(p), i # k PROVE grown[p[i]] = heap[p[i]]
    <3>1. k # 0 => k \in 1..Len(p) /\ p[i] # p[k]
      BY <1>1, <2>1 DEF TwoPaths, IsPath
    <3> QED BY <1>1, <3>1 DEF Linked
  <2> QED BY <2>1
<1>6. ASSUME NEW i \in 1..Len(r)
      PROVE  /\ grown[r[i]].next = IF i = Len(r) THEN NULL ELSE r[i + 1]
             /\ grown[r[i]].seq = With(SeqsOn(heap, p), k, seq)[i]
  <2>0. /\ i \in 1..(Len(p) + 1)
        /\ With(SeqsOn(heap, p), k, seq)[i]
            = IF i <= k THEN heap[p[i]].seq ELSE IF i = k + 1 THEN seq ELSE heap[p[i - 1]].seq
    <3>1. Len(SeqsOn(heap, p)) = Len(p) /\ i \in 1..(Len(p) + 1)
      BY <1>1, <1>2, SeqsOnType
    <3>2. i > k + 1 => i - 1 \in 1..Len(p)
      BY <1>1, <3>1
    <3> QED BY <1>1, <3>1, <3>2 DEF With, SeqsOn
  <2>1. CASE i < k
    <3>1. i \in 1..Len(p) /\ i # k /\ i # Len(p) /\ i # Len(r) /\ i <= k
      BY <1>1, <1>2, <2>1
    <3>2. r[i] = p[i] /\ r[i + 1] = p[i + 1]
      BY <1>1, <1>2, <2>0, <2>1
    <3>3. grown[r[i]] = heap[p[i]] /\ heap[p[i]].next = p[i + 1]
      BY <1>5, <3>1, <3>2 DEF TwoPaths, IsPath
    <3> QED BY <2>0, <3>1, <3>2, <3>3
  <2>2. CASE i = k
    <3>1. i \in 1..Len(p) /\ i # Len(r) /\ k # 0 /\ i <= k
      BY <1>1, <1>2, <2>0, <2>2
    <3>2. r[i] = p[k] /\ r[i + 1] = new
      BY <1>1, <1>2, <2>0, <2>2
    <3>3. grown[r[i]] = [seq |-> heap[p[i]].seq, next |-> new]
      BY <2>2, <3>1, <3>2 DEF Linked
    <3> QED BY <2>0, <3>1, <3>2, <3>3
  <2>3. CASE i = k + 1
    <3>1. r[i] = new /\ ~(i <= k)
      BY <1>1, <1>2, <2>0, <2>3
    <3>2. grown[r[i]] = [seq |-> seq, next |-> IF k = Len(p) THEN NULL ELSE p[k + 1]]
      BY <3>1 DEF Linked
    <3>3. (k = Len(p)) = (i = Len(r))
      BY <1>1, <1>2, <2>3
    <3>4. k # Len(p) => r[i + 1] = p[k + 1]
      BY <1>1, <1>2, <2>3
    <3> QED BY <2>0, <2>3, <3>1, <3>2, <3>3, <3>4
  <2>4. CASE i > k + 1
    <3>1. i - 1 \in 1..Len(p) /\ i - 1 # k /\ ~(i <= k) /\ i # k + 1
      BY <1>1, <2>0, <2>4
    <3>2. r[i] = p[i - 1] /\ (i # Len(r) => r[i + 1] = p[i])
      <4>1. r[i] = p[i - 1]
        BY <1>2, <2>0, <3>1
      <4>2. i # Len(r) => i + 1 \in 1..(Len(p) + 1) /\ ~(i + 1 <= k) /\ i + 1 # k + 1
                         /\ (i + 1) - 1 = i
        BY <1>1, <1>2, <2>0, <2>4
      <4>3. i # Len(r) => r[i + 1] = p[(i + 1) - 1]
        BY <1>2, <4>2
      <4> QED BY <4>1, <4>2, <4>3
    <3>3. grown[r[i]] = heap[p[i - 1]]
      BY <1>5, <3>1, <3>2
    <3>4. heap[p[i - 1]].next = IF i - 1 = Len(p) THEN NULL ELSE p[i]
      <4>1. (i - 1) + 1 = i
        BY <2>0
      <4>2. heap[p[i - 1]].next = IF i - 1 = Len(p) THEN NULL ELSE p[(i - 1) + 1]
        BY <3>1 DEF TwoPaths, IsPath
      <4> QED BY <4>1, <4>2
    <3>5. (i - 1 = Len(p)) = (i = Len(r))
      BY <1>1, <1>2, <2>0
    <3> QED BY <2>0, <3>1, <3>2, <3>3, <3>4, <3>5
  <2> QED BY <1>1, <2>0, <2>1, <2>2, <2>3, <2>4
<1>7. ASSUME NEW i \in 1..Len(r), NEW j \in 1..Len(r), r[i] = r[j] PROVE i = j
  <2> DEFINE Old(n) == IF n <= k THEN n ELSE n - 1
  <2>1. ASSUME NEW n \in 1..Len(r), n # k + 1
        PROVE  Old(n) \in 1..Len(p) /\ r[n] = p[Old(n)]
    BY <1>1, <1>2, <2>1
  <2>2. r[k + 1] = new /\ k + 1 \in 1..Len(r)
    BY <1>1, <1>2
  <2>3. (i = k + 1) = (j = k + 1)
    BY <1>1, <1>7, <2>1, <2>2
  <2>4. CASE i # k + 1
    <3>1. Old(i) = Old(j)
      <4>1. \A m, n \in 1..Len(p) : p[m] = p[n] => m = n
        BY DEF TwoPaths, IsPath
      <4>2. Old(i) \in 1..Len(p) /\ Old(j) \in 1..Len(p) /\ p[Old(i)] = p[Old(j)]
        BY <1>7, <2>1, <2>3, <2>4
      <4> HIDE DEF Old
      <4> QED BY ONLY <4>1, <4>2
    <3> QED BY <1>1, <2>3, <2>4, <3>1
  <2> QED BY <2>3, <2>4
<1>8. In(r) = In(p) \cup {new}
  <2>1. ASSUME NEW i \in 1..Len(r) PROVE r[i] \in In(p) \cup {new}
    <3>1. i \in 1..(Len(p) + 1)
      BY <1>2
    <3>2. \/ i = k + 1 /\ ~(i <= k)
          \/ i \in 1..Len(p) /\ i <= k
          \/ i - 1 \in 1..Len(p) /\ ~(i <= k) /\ i # k + 1
      BY <1>1, <3>1
    <3> QED BY <1>1, <1>2, <3>1, <3>2
  <2>2. ASSUME NEW i \in 1..Len(p) PROVE p[i] \in In(r)
    <3>1. CASE i <= k
      <4>1. i \in 1..Len(r) /\ r[i] = p[i]
        BY <1>1, <1>2, <3>1
      <4> QED BY <4>1 DEF In
    <3>2. CASE i > k
      <4>1. i + 1 \in 1..Len(r) /\ r[i + 1] = p[i]
        BY <1>1, <1>2, <3>2
      <4> QED BY <4>1 DEF In
    <3> QED BY <1>1, <3>1, <3>2
  <2>3. k + 1 \in 1..Len(r) /\ r[k + 1] = new
    BY <1>1, <1>2
  <2> QED BY <2>1, <2>2, <2>3 DEF In
<1>9. TwoPaths(grown, r, q)
  <2>1. IsPath(grown, r)
    BY <1>2, <1>6, <1>7 DEF IsPath
  <2>2. In(r) \cap In(q) = {} /\ DOMAIN grown = In(r) \cup In(q)
    BY <1>8 DEF TwoPaths, Linked
  <2> QED BY <1>4, <2>1, <2>2 DEF TwoPaths
<1>10. SeqsOn(grown, r) = With(SeqsOn(heap, p), k, seq)
  <2>1. Len(SeqsOn(heap, p)) = Len(p)
    BY <1>1, SeqsOnType
  <2>2. DOMAIN With(SeqsOn(heap, p), k, seq) = 1..Len(r)
    BY <1>2, <2>1 DEF With
  <2>3. With(SeqsOn(heap, p), k, seq) = [i \in 1..Len(r) |-> With(SeqsOn(heap, p), k, seq)[i]]
    BY <1>2, <2>1 DEF With
  <2> QED BY <1>6, <2>3 DEF SeqsOn
<1>11. ListOf(r) = [num_entry |-> Len(p) + 1,
                    head |-> IF Len(p) = 0 THEN new ELSE ListOf(p).head,
                    tail |-> IF k = Len(p) THEN new ELSE ListOf(p).tail]
  <2>1. Len(r) = Len(p) + 1 /\ Len(r) # 0
    BY <1>1, <1>2
  <2>2. r[1] = IF Len(p) = 0 THEN new ELSE p[1]
    BY <1>1, <1>2
  <2>3. r[Len(r)] = IF k = Len(p) THEN new ELSE p[Len(p)]
    BY <1>1, <1>2
  <2>4. k # Len(p) => Len(p) # 0
    BY <1>1
  <2> QED BY ONLY <2>1, <2>2, <2>3, <2>4 DEF ListOf
<1> QED BY <1>3, <1>4, <1>9, <1>10, <1>11

-----------------------------------------------------------------------------
(* The calls.                                                              *)

\* The call made the list r of p's, and left q alone.
Leaves(heap, q, result, r) ==
  /\ HeapOK(result.cells) /\ TwoPaths(result.cells, r, q)
  /\ SeqsOn(result.cells, q) = SeqsOn(heap, q)
  /\ result.list = ListOf(r)

Ascends(s) == \A j, k \in 1..Len(s) : j < k => s[j] < s[k]

LEMMA NullIsNoCell ==
  ASSUME NEW heap, HeapOK(heap)
  PROVE  NULL \notin DOMAIN heap
BY ListAssumption DEF HeapOK

\* A list has a head unless it has no cells.
LEMMA HeadOf ==
  ASSUME NEW heap, HeapOK(heap), NEW p, NEW q, TwoPaths(heap, p, q)
  PROVE  /\ Len(p) \in Nat /\ DOMAIN p = 1..Len(p)
         /\ \A k \in 1..Len(p) : p[k] \in DOMAIN heap /\ p[k] # NULL
         /\ ListOf(p).head = NULL <=> Len(p) = 0
         /\ Path(heap, ListOf(p)) = p
<1>1. p \in Seq(DOMAIN heap)
  BY DEF TwoPaths, IsPath
<1>2. /\ Len(p) \in Nat /\ DOMAIN p = 1..Len(p)
      /\ \A k \in 1..Len(p) : p[k] \in DOMAIN heap /\ p[k] # NULL
  BY <1>1, NullIsNoCell, LenProperties
<1>3. ListOf(p).head = NULL <=> Len(p) = 0
  <2>1. Len(p) # 0 => 1 \in 1..Len(p)
    BY <1>2
  <2> QED BY <1>2, <2>1 DEF ListOf
<1>4. Path(heap, ListOf(p)) = p
  BY NullIsNoCell, PathIs
<1> QED BY <1>2, <1>3, <1>4

\* A cell is linked to another one.
LEMMA Relink ==
  ASSUME NEW heap, HeapOK(heap), NEW a \in DOMAIN heap, NEW next
  PROVE  [heap[a] EXCEPT !.next = next] = [seq |-> heap[a].seq, next |-> next]
<1>1. heap[a] \in Cell
  BY DEF HeapOK
<1> QED BY <1>1 DEF Cell

LEMMA ResultFields ==
  ASSUME NEW heap, NEW list
  PROVE  Result(heap, list).cells = heap /\ Result(heap, list).list = list
BY DEF Result

\* The fields of a list that gets a longer path and another tail.
LEMMA Longer ==
  ASSUME NEW p, NEW x
  PROVE  [ListOf(p) EXCEPT !.num_entry = @ + 1, !.tail = x]
           = [num_entry |-> Len(p) + 1, head |-> ListOf(p).head, tail |-> x]
<1> DEFINE l == ListOf(p)
           longer == [l EXCEPT !.num_entry = @ + 1, !.tail = x]
<1>1. DOMAIN l = {"num_entry", "head", "tail"} /\ l.num_entry = Len(p)
  BY DEF ListOf
<1> HIDE DEF l
<1>2. /\ DOMAIN longer = {"num_entry", "head", "tail"}
      /\ longer.num_entry = Len(p) + 1 /\ longer.head = l.head /\ longer.tail = x
      /\ longer = [i \in DOMAIN longer |-> longer[i]]
  BY <1>1
<1> HIDE DEF longer
<1>3. longer = [num_entry |-> Len(p) + 1, head |-> l.head, tail |-> x]
  BY <1>2
<1> QED BY <1>3 DEF longer, l

\* append_entry puts the packet at the end.
LEMMA AppendEntry ==
  ASSUME NEW heap, HeapOK(heap), NEW p, NEW q, TwoPaths(heap, p, q),
         NEW new \in Address \ DOMAIN heap, NEW seq \in SeqNums,
         NEW result, result = append_entry(heap, ListOf(p), new, seq)
  PROVE  \E r : /\ Leaves(heap, q, result, r)
                /\ SeqsOn(result.cells, r) = Append(SeqsOn(heap, p), seq)
<1> DEFINE n == Len(p)
           r == With(p, n, new)
<1>1. /\ n \in Nat /\ n \in 0..n /\ (n = 0 => Len(p) = 0)
      /\ \A k \in 1..n : p[k] \in DOMAIN heap
      /\ ListOf(p).head = NULL <=> n = 0
  BY HeadOf
<1>2. /\ Linked(heap, p, n, new, seq, result.cells)
      /\ result.list = [num_entry |-> n + 1,
                        head |-> IF n = 0 THEN new ELSE ListOf(p).head,
                        tail |-> IF n = n THEN new ELSE ListOf(p).tail]
  <2> DEFINE with == malloc(heap, new, seq)
             longer == [ListOf(p) EXCEPT !.num_entry = @ + 1, !.tail = new]
  <2>1. result = IF ListOf(p).head = NULL THEN Result(with, [longer EXCEPT !.head = new])
                 ELSE Result([with EXCEPT ![ListOf(p).tail].next = new], longer)
    BY DEF append_entry
  <2>2. longer = [num_entry |-> n + 1, head |-> ListOf(p).head, tail |-> new]
    BY Longer
  <2>3. [longer EXCEPT !.head = new] = [num_entry |-> n + 1, head |-> new, tail |-> new]
    <3> HIDE DEF longer
    <3> QED BY <2>2
  <2>4. /\ DOMAIN with = DOMAIN heap \cup {new} /\ with[new] = [seq |-> seq, next |-> NULL]
        /\ \A a \in DOMAIN heap : with[a] = heap[a]
    BY DEF malloc
  <2> HIDE DEF with, longer
  <2>5. CASE n = 0
    <3>1. result.cells = with /\ result.list = [longer EXCEPT !.head = new]
      BY <1>1, <2>1, <2>5, ResultFields
    <3> QED BY <2>3, <2>4, <2>5, <3>1 DEF Linked
  <2>6. CASE n # 0
    <3>1. n \in 1..n /\ ListOf(p).tail = p[n] /\ p[n] \in DOMAIN heap /\ p[n] # new
      BY <1>1, <2>6 DEF ListOf
    <3>2. result.cells = [with EXCEPT ![p[n]].next = new] /\ result.list = longer
      BY <1>1, <2>1, <2>6, <3>1, ResultFields
    <3>3. [with[p[n]] EXCEPT !.next = new] = [seq |-> heap[p[n]].seq, next |-> new]
      BY <2>4, <3>1, Relink
    <3>4. /\ DOMAIN result.cells = DOMAIN heap \cup {new}
          /\ result.cells[new] = [seq |-> seq, next |-> NULL]
          /\ result.cells[p[n]] = [seq |-> heap[p[n]].seq, next |-> new]
          /\ \A a \in DOMAIN heap : a # p[n] => result.cells[a] = heap[a]
      BY <2>4, <3>1, <3>2, <3>3
    <3> QED BY <2>2, <2>6, <3>2, <3>4 DEF Linked
  <2> QED BY <2>5, <2>6
<1>3. /\ HeapOK(result.cells) /\ TwoPaths(result.cells, r, q)
      /\ SeqsOn(result.cells, q) = SeqsOn(heap, q)
      /\ SeqsOn(result.cells, r) = With(SeqsOn(heap, p), n, seq)
      /\ ListOf(r) = [num_entry |-> n + 1,
                      head |-> IF n = 0 THEN new ELSE ListOf(p).head,
                      tail |-> IF n = n THEN new ELSE ListOf(p).tail]
  BY <1>1, <1>2, LinkIn
<1>4. With(SeqsOn(heap, p), n, seq) = Append(SeqsOn(heap, p), seq)
  <2> DEFINE s == SeqsOn(heap, p)
  <2>1. s \in Seq(SeqNums) /\ Len(s) = n
    BY SeqsOnType DEF TwoPaths, IsPath
  <2> HIDE DEF s
  <2>2. /\ Append(s, seq) \in Seq(SeqNums) /\ Len(Append(s, seq)) = n + 1
        /\ \A i \in 1..n : Append(s, seq)[i] = s[i]
        /\ Append(s, seq)[n + 1] = seq
    BY <2>1, AppendProperties
  <2>3. With(s, n, seq) \in Seq(SeqNums) /\ Len(With(s, n, seq)) = n + 1
    <3>1. PICK k : k = n
      OBVIOUS
    <3>2. k \in 0..Len(s)
      BY <1>1, <2>1, <3>1
    <3>3. With(s, k, seq) \in Seq(SeqNums) /\ Len(With(s, k, seq)) = Len(s) + 1
      BY <2>1, <3>2, WithType
    <3> QED BY <2>1, <3>1, <3>3
  <2>4. ASSUME NEW i \in 1..(n + 1) PROVE With(s, n, seq)[i] = Append(s, seq)[i]
    <3>1. CASE i \in 1..n
      BY <1>1, <2>1, <2>2, <3>1 DEF With
    <3>2. CASE i = n + 1
      BY <1>1, <2>1, <2>2, <3>2 DEF With
    <3>3. i \in 1..n \/ i = n + 1
      BY <1>1
    <3> QED BY <3>1, <3>2, <3>3
  <2>5. With(s, n, seq) = Append(s, seq)
    BY <2>2, <2>3, <2>4, SeqEqual
  <2> QED BY <2>5 DEF s
<1>5. Leaves(heap, q, result, r)
  BY <1>2, <1>3 DEF Leaves
<1> QED BY <1>3, <1>4, <1>5

\* destroy_entries leaves the empty list.
LEMMA DestroyEntries ==
  ASSUME NEW heap, HeapOK(heap), NEW p, NEW q, TwoPaths(heap, p, q),
         NEW result, result = destroy_entries(heap, ListOf(p))
  PROVE  \E r : Leaves(heap, q, result, r) /\ SeqsOn(result.cells, r) = << >>
<1>1. /\ Len(p) \in Nat /\ Len(p) \in 0..Len(p) /\ DOMAIN p = 1..Len(p)
      /\ ListOf(p).head = NULL <=> Len(p) = 0
      /\ Path(heap, ListOf(p)) = p
  BY HeadOf
<1>m. PICK m : m = Len(p)
  OBVIOUS
<1>r. PICK r : r = SubSeq(p, m + 1, Len(p))
  OBVIOUS
<1>l. PICK left : left = free(heap, {p[j] : j \in 1..m})
  OBVIOUS
<1>2. Dropped(heap, p, q, m, r, left)
  <2>1. m \in 0..Len(p)
    BY <1>1, <1>m
  <2> QED BY <2>1, <1>r, <1>l, Drop
<1>3. ListOf(r) = EmptyList
  BY <1>1, <1>2, <1>m DEF EmptyList, Dropped
<1>4. SubSeq(SeqsOn(heap, p), m + 1, Len(p)) = << >>
  BY <1>1, <1>m, SubSeqEmpty
<1>5. CASE Len(p) # 0
  <2>1. result = Result(left, EmptyList)
    BY <1>1, <1>5, <1>m, <1>l DEF destroy_entries, Range
  <2>2. result.cells = left /\ result.list = EmptyList
    BY <2>1, ResultFields
  <2>3. Leaves(heap, q, result, r) /\ SeqsOn(result.cells, r) = << >>
    BY <1>2, <1>3, <1>4, <2>2 DEF Leaves, Dropped
  <2> QED BY <2>3
<1>6. CASE Len(p) = 0
  <2>1. result = Result(heap, ListOf(p)) /\ ListOf(p) = EmptyList
    BY <1>1, <1>6 DEF destroy_entries, ListOf, EmptyList
  <2>2. SeqsOn(heap, p) = << >>
    <3>1. SeqsOn(heap, p) \in Seq(SeqNums) /\ Len(SeqsOn(heap, p)) = 0
      BY <1>6, SeqsOnType DEF TwoPaths, IsPath
    <3> QED BY <3>1, EmptySeq
  <2>3. result.cells = heap /\ result.list = ListOf(p)
    BY <2>1, ResultFields
  <2>4. Leaves(heap, q, result, p) /\ SeqsOn(result.cells, p) = << >>
    BY <2>2, <2>3 DEF Leaves
  <2> QED BY <2>4
<1> QED BY <1>5, <1>6

\* Some number of entries is in front of the first one past upto.
HasPrefix(s, n, upto) ==
  \E m \in 0..n : (\A j \in 1..m : s[j] <= upto) /\ (m # n => upto < s[m + 1])

LEMMA Acked ==
  ASSUME NEW n \in Nat, NEW s, \A j \in 1..n : s[j] \in Nat, NEW upto \in Nat
  PROVE  HasPrefix(s, n, upto)
<1> DEFINE past == {j \in 1..n : upto < s[j]}
<1>2. CASE past = {}
  <2>1. \A j \in 1..n : s[j] <= upto
    BY <1>2
  <2> QED BY <2>1 DEF HasPrefix
<1>3. CASE past # {}
  <2>1. past \subseteq Nat
    OBVIOUS
  <2>2. PICK f \in past : \A j \in past : f <= j
    <3> HIDE DEF past
    <3> QED BY <1>3, <2>1, LeastElement
  <2>3. f \in 1..n /\ upto < s[f]
    OBVIOUS
  <2>4. ASSUME NEW j \in 1..(f - 1) PROVE s[j] <= upto
    <3>1. j \in 1..n /\ j < f
      BY <2>3
    <3>2. j \notin past
      BY <2>2, <2>3, <3>1
    <3> QED BY <3>1, <3>2
  <2>5. f - 1 \in 0..n /\ (f - 1) + 1 = f
    BY <2>3
  <2> QED BY <2>3, <2>4, <2>5 DEF HasPrefix
<1> QED BY <1>2, <1>3

\* destroy_upto_ack frees the entries in front of the first one past the ack.
LEMMA DestroyUpto ==
  ASSUME NEW heap, HeapOK(heap), NEW p, NEW q, TwoPaths(heap, p, q), Len(p) # 0,
         NEW upto \in SeqNums \cup {0},
         NEW result, result = destroy_upto_ack(heap, ListOf(p), upto)
  PROVE  \E r : /\ Leaves(heap, q, result, r)
                /\ SeqsOn(result.cells, r)
                    = Windows!destroy_upto_ack(SeqsOn(heap, p), upto)
<1>1. /\ Len(p) \in Nat /\ \A k \in 1..Len(p) : p[k] \in DOMAIN heap
      /\ Path(heap, ListOf(p)) = p
  BY HeadOf
<1>d. DOMAIN p = 1..Len(p)
  BY HeadOf
<1>s. PICK s : s = SeqsOn(heap, p)
  OBVIOUS
<1>2. /\ s \in Seq(Nat) /\ Len(s) = Len(p) /\ upto \in Nat
      /\ \A k \in 1..Len(p) : s[k] = heap[p[k]].seq /\ s[k] \in Nat
  <2>1. p \in Seq(DOMAIN heap)
    BY DEF TwoPaths, IsPath
  <2>2. /\ s \in Seq(SeqNums) /\ Len(s) = Len(p)
        /\ \A k \in 1..Len(p) : s[k] = heap[p[k]].seq /\ s[k] \in SeqNums
    BY <1>s, <2>1, SeqsOnType
  <2>3. SeqNums \subseteq Nat
    BY ListAssumption
  <2>4. s \in Seq(Nat)
    BY <2>2, <2>3, SeqMonotonic
  <2>5. upto \in Nat
    BY <2>3
  <2>6. \A k \in 1..Len(p) : s[k] \in Nat
    BY <2>2, <2>3
  <2> QED BY <2>2, <2>4, <2>5, <2>6
<1>e. DOMAIN s = 1..Len(p)
  BY <1>s DEF SeqsOn
<1>3. PICK m \in 0..Len(p) : /\ \A j \in 1..m : s[j] <= upto
                             /\ m # Len(p) => upto < s[m + 1]
  <2>1. Len(p) \in Nat /\ (\A j \in 1..Len(p) : s[j] \in Nat) /\ upto \in Nat
    BY <1>1, <1>2
  <2>2. HasPrefix(s, Len(p), upto)
    BY ONLY <2>1, Acked
  <2> QED BY <2>2 DEF HasPrefix
<1>m. m \in Nat /\ m <= Len(p) /\ (m # Len(p) => m + 1 \in 1..Len(p))
  BY <1>1
<1> DEFINE gone == {k \in DOMAIN p : \A j \in 1..k : ~(upto < heap[p[j]].seq)}
<1>4. gone = 1..m
  <2>1. ASSUME NEW k \in 1..m PROVE k \in gone
    <3>1. k \in 1..Len(p) /\ \A j \in 1..k : j \in 1..m /\ j \in 1..Len(p)
      BY <1>1, <1>m
    <3>2. \A j \in 1..k : ~(upto < heap[p[j]].seq)
      BY <1>2, <1>3, <3>1
    <3> QED BY <1>d, <3>1, <3>2
  <2>2. ASSUME NEW k \in gone PROVE k \in 1..m
    <3>1. k \in 1..Len(p) /\ \A j \in 1..k : ~(upto < heap[p[j]].seq)
      BY <1>d
    <3> HIDE DEF gone
    <3>2. k > m => m + 1 \in 1..k /\ m # Len(p)
      BY <1>m, <3>1
    <3>3. ~(k > m)
      BY <1>2, <1>3, <1>m, <3>1, <3>2
    <3> QED BY <1>m, <3>1, <3>3
  <2> QED BY <2>1, <2>2
<1>5. Cardinality(gone) = m
  <2>1. m \in Int /\ 1 \in Int /\ (1 > m => m = 0)
    BY <1>m
  <2>2. Cardinality(1..m) = IF 1 > m THEN 0 ELSE m - 1 + 1
    BY ONLY <2>1, FS_Interval, Zenon
  <2>3. Cardinality(1..m) = m
    BY <2>1, <2>2
  <2> HIDE DEF gone
  <2> QED BY <1>4, <2>3
<1>r. PICK r : r = SubSeq(p, m + 1, Len(p))
  OBVIOUS
<1>l. PICK left : left = free(heap, {p[j] : j \in 1..m})
  OBVIOUS
<1>6. Dropped(heap, p, q, m, r, left)
  BY <1>r, <1>l, Drop
<1>7. result.cells = left /\ result.list = ListOf(r)
  <2>1. result = Result(free(heap, {p[k] : k \in gone}),
                 [num_entry |-> ListOf(p).num_entry - Cardinality(gone),
                  head |-> IF Cardinality(gone) = Len(p) THEN NULL ELSE p[Cardinality(gone) + 1],
                  tail |-> IF Cardinality(gone) = Len(p) THEN NULL ELSE ListOf(p).tail])
    BY <1>1, <1>d DEF destroy_upto_ack
  <2>2. result = Result(left, [num_entry |-> ListOf(p).num_entry - m,
                  head |-> IF m = Len(p) THEN NULL ELSE p[m + 1],
                  tail |-> IF m = Len(p) THEN NULL ELSE ListOf(p).tail])
    <3> HIDE DEF gone
    <3> QED BY <1>4, <1>5, <1>l, <2>1
  <2>3. ListOf(p).num_entry = Len(p)
    BY DEF ListOf
  <2> QED BY <1>6, <2>2, <2>3, ResultFields DEF Dropped
<1>8. Windows!destroy_upto_ack(s, upto) = SubSeq(s, m + 1, Len(s))
  <2>1. CASE m = Len(p)
    <3>1. Windows!destroy_upto_ack(s, upto) = << >>
      <4>1. \A k \in DOMAIN s : s[k] <= upto
        BY <1>3, <1>e, <2>1
      <4> QED BY <4>1 DEF Windows!destroy_upto_ack
    <3>2. SubSeq(s, m + 1, Len(s)) = << >>
      BY <1>2, <1>m, <2>1, SubSeqEmpty
    <3> QED BY <3>1, <3>2
  <2>2. CASE m # Len(p)
    <3> DEFINE First(k) == upto < s[k] /\ \A j \in 1..(k - 1) : s[j] <= upto
    <3>1. m + 1 \in 1..Len(p) /\ First(m + 1) /\ ~(s[m + 1] <= upto)
      BY <1>2, <1>3, <1>m, <2>2
    <3>2. ASSUME NEW k \in 1..Len(p), First(k) PROVE k = m + 1
      <4>1. ~(k < m + 1)
        BY <1>2, <1>3, <1>m, <3>2
      <4>2. ~(m + 1 < k)
        BY <1>2, <1>m, <3>1, <3>2
      <4> QED BY <1>2, <1>m, <4>1, <4>2
    <3>3. (CHOOSE k \in DOMAIN s : First(k)) = m + 1
      <4> HIDE DEF First
      <4> QED BY <1>e, <3>1, <3>2
    <3>4. ~\A k \in DOMAIN s : s[k] <= upto
      BY <1>e, <3>1
    <3> QED BY <3>3, <3>4 DEF Windows!destroy_upto_ack
  <2> QED BY <2>1, <2>2
<1>9. /\ Leaves(heap, q, result, r)
      /\ SeqsOn(result.cells, r) = Windows!destroy_upto_ack(SeqsOn(heap, p), upto)
  BY <1>2, <1>6, <1>7, <1>8, <1>s DEF Leaves, Dropped
<1> QED BY <1>9

Entries(s, n) == {s[k] : k \in 1..n}

\* s ascends, and its first f entries are the run that find_ack looks for.
Run(s, n, f) ==
  /\ n \in Nat /\ f \in 1..n /\ \A k \in 1..n : s[k] \in Nat
  /\ \A j, k \in 1..n : j < k => s[j] < s[k]
  /\ \A j \in 1..(f - 1) : s[j + 1] = s[j] + 1
  /\ f = n \/ s[f + 1] # s[f] + 1

LEMMA RunCounts ==
  ASSUME NEW s, NEW n, NEW f, Run(s, n, f)
  PROVE  \A k \in 1..f : s[k] = s[1] + k - 1
<1> DEFINE odd == {k \in 1..f : s[k] # s[1] + k - 1}
<1>1. n \in Nat /\ f \in 1..n /\ \A k \in 1..n : s[k] \in Nat
  BY DEF Run
<1> SUFFICES ASSUME odd # {} PROVE FALSE
  OBVIOUS
<1>2. odd \subseteq Nat
  BY <1>1
<1>3. PICK k \in odd : \A j \in odd : k <= j
  <2> HIDE DEF odd
  <2> QED BY <1>2, LeastElement
<1>4. k \in 1..f /\ s[k] # s[1] + k - 1
  OBVIOUS
<1>5. k # 1
  BY <1>1, <1>4
<1>6. k - 1 \in 1..(f - 1) /\ k - 1 \in 1..f /\ (k - 1) + 1 = k /\ k - 1 < k
  BY <1>1, <1>4, <1>5
<1>7. s[k] = s[k - 1] + 1
  BY <1>6 DEF Run
<1>8. k - 1 \notin odd
  BY <1>1, <1>3, <1>4, <1>6
<1>9. s[k - 1] = s[1] + (k - 1) - 1
  BY <1>6, <1>8
<1> QED BY <1>1, <1>4, <1>6, <1>7, <1>9

\* find_ack of the set of the entries is the end of the run, and leaves what is
\* behind it.
LEMMA RunEnds ==
  ASSUME NEW s, NEW n, NEW f, Run(s, n, f)
  PROVE  /\ Windows!find_ack(Entries(s, n)) = s[f]
         /\ Windows!after_find_ack(Entries(s, n)) = {s[k] : k \in f..n}
<1> DEFINE rb == Entries(s, n)
<1>1. n \in Nat /\ f \in 1..n /\ \A k \in 1..n : s[k] \in Nat
  BY DEF Run
<1>2. \A j, k \in 1..n : (j < k => s[j] < s[k]) /\ (s[j] <= s[k] => j <= k)
  <2>1. \A j, k \in 1..n : j < k => s[j] < s[k]
    BY DEF Run
  <2>2. ASSUME NEW j \in 1..n, NEW k \in 1..n, s[j] <= s[k] PROVE j <= k
    <3>1. k < j => s[k] < s[j]
      BY <2>1
    <3> QED BY <1>1, <2>2, <3>1
  <2> QED BY <2>1, <2>2
<1>3. \A k \in 1..f : s[k] = s[1] + k - 1
  BY RunCounts
<1>4. 1 \in 1..n /\ \A k \in 1..n : s[1] <= s[k]
  BY <1>1, <1>2
<1>5. \A x \in rb : \E k \in 1..n : x = s[k]
  BY DEF Entries
<1>6. \A k \in 1..n : s[k] \in rb
  BY DEF Entries
<1> HIDE DEF rb
<1>7. \A x \in rb : x \in Nat /\ s[1] <= x
  BY <1>1, <1>4, <1>5
<1>8. s[1]..s[f] \subseteq rb
  <2>1. ASSUME NEW x \in s[1]..s[f] PROVE x \in rb
    <3>1. s[1] \in Nat /\ s[f] \in Nat /\ s[f] = s[1] + f - 1
      BY <1>1, <1>3, <1>4
    <3>2. x - s[1] + 1 \in 1..f /\ x - s[1] + 1 \in 1..n
      BY <1>1, <3>1
    <3>3. s[x - s[1] + 1] = s[1] + (x - s[1] + 1) - 1
      BY <1>3, <3>2
    <3>4. s[x - s[1] + 1] = x
      BY <3>1, <3>3
    <3> QED BY <1>6, <3>2, <3>4
  <2> QED BY <2>1
<1>9. s[f] + 1 \notin rb
  <2> SUFFICES ASSUME NEW k \in 1..n, s[k] = s[f] + 1 PROVE FALSE
    BY <1>5
  <2>1. s[f] \in Nat /\ f < k
    <3>1. s[f] \in Nat /\ s[k] \in Nat /\ ~(s[k] <= s[f])
      BY <1>1
    <3>2. k # f
      BY <3>1
    <3>3. k < f => s[k] < s[f]
      BY <1>1, <1>2
    <3> QED BY <1>1, <3>1, <3>2, <3>3
  <2>2. f + 1 \in 1..n /\ f # n
    BY <1>1, <2>1
  <2>3. s[f] < s[f + 1] /\ s[f + 1] \in Nat /\ s[f + 1] # s[f] + 1
    BY <1>1, <1>2, <2>2 DEF Run
  <2>4. f + 1 = k \/ f + 1 < k
    BY <1>1, <2>1
  <2>5. s[f + 1] <= s[k]
    BY <1>1, <1>2, <2>2, <2>4
  <2> QED BY <2>1, <2>3, <2>5
<1> DEFINE Found(a) == /\ \E h \in rb : Windows!IsHead(rb, h) /\ h..a \subseteq rb
                       /\ a + 1 \notin rb
<1>10. Windows!IsHead(rb, s[1]) /\ \A h : Windows!IsHead(rb, h) => h = s[1]
  BY <1>1, <1>4, <1>6, <1>7 DEF Windows!IsHead
<1>11. s[f] \in rb /\ Found(s[f])
  BY <1>1, <1>4, <1>6, <1>8, <1>9, <1>10
<1>12. ASSUME NEW a \in rb, Found(a) PROVE a = s[f]
  <2>1. s[1]..a \subseteq rb /\ a + 1 \notin rb /\ a \in Nat /\ s[1] <= a
    BY <1>7, <1>10, <1>12
  <2>2. s[1] \in Nat /\ s[f] \in Nat /\ s[1] <= s[f]
    BY <1>1, <1>4
  <2>3. ~(a < s[f])
    <3>1. a < s[f] => a + 1 \in s[1]..s[f]
      BY <2>1, <2>2
    <3> QED BY <1>8, <2>1, <3>1
  <2>4. ~(s[f] < a)
    <3>1. s[f] < a => s[f] + 1 \in s[1]..a
      BY <2>1, <2>2
    <3> QED BY <1>9, <2>1, <3>1
  <2> QED BY <2>1, <2>2, <2>3, <2>4
<1>13. Windows!find_ack(rb) = s[f]
  <2>1. (CHOOSE a \in rb : Found(a)) = s[f]
    <3> HIDE DEF Found
    <3> QED BY <1>11, <1>12
  <2>2. rb # {}
    BY <1>11
  <2> QED BY <2>1, <2>2 DEF Windows!find_ack
<1>14. Windows!after_find_ack(rb) = {s[k] : k \in f..n}
  <2>1. Windows!after_find_ack(rb) = {x \in rb : x >= s[f]}
    BY <1>13 DEF Windows!after_find_ack
  <2>2. ASSUME NEW x \in rb, x >= s[f] PROVE x \in {s[k] : k \in f..n}
    <3>1. PICK k \in 1..n : x = s[k]
      BY <1>5
    <3>2. f <= k
      BY <1>1, <1>2, <2>2, <3>1
    <3>3. k \in f..n
      BY <1>1, <3>2
    <3> QED BY <3>1, <3>3
  <2>3. ASSUME NEW k \in f..n PROVE s[k] \in rb /\ s[k] >= s[f]
    <3>1. k \in 1..n /\ f <= k
      BY <1>1
    <3>2. f = k \/ s[f] < s[k]
      BY <1>1, <1>2, <3>1
    <3> QED BY <1>1, <1>6, <3>1, <3>2
  <2> QED BY <2>1, <2>2, <2>3
<1> QED BY <1>13, <1>14 DEF rb

\* The sequence numbers of a list.
LEMMA SeqsAre ==
  ASSUME NEW heap, HeapOK(heap), NEW p, NEW q, TwoPaths(heap, p, q),
         NEW s, s = SeqsOn(heap, p)
  PROVE  /\ Len(s) = Len(p) /\ Len(p) \in Nat
         /\ \A k \in 1..Len(p) : s[k] = heap[p[k]].seq /\ s[k] \in SeqNums /\ s[k] \in Nat
<1>1. p \in Seq(DOMAIN heap)
  BY DEF TwoPaths, IsPath
<1>2. SeqNums \subseteq Nat
  BY ListAssumption
<1> QED BY <1>1, <1>2, SeqsOnType, LenProperties

\* find_ack frees the run in front of its end.
LEMMA FindAckKeeps ==
  ASSUME NEW heap, HeapOK(heap), NEW p, NEW q, TwoPaths(heap, p, q), Len(p) # 0,
         NEW s, s = SeqsOn(heap, p), Ascends(s),
         NEW result, result = find_ack(heap, ListOf(p))
  PROVE  \E r : /\ Leaves(heap, q, result, r)
                /\ Ascends(SeqsOn(result.cells, r))
                /\ Entries(SeqsOn(result.cells, r), Len(r))
                    = Windows!after_find_ack(Entries(s, Len(p)))
                /\ result.cells[result.list.head].seq
                    = Windows!find_ack(Entries(s, Len(p)))
<1>n. PICK n : n = Len(p)
  OBVIOUS
<1>1. /\ n \in Nat /\ n # 0 /\ n \in 1..n /\ \A k \in 1..n : p[k] \in DOMAIN heap
      /\ Path(heap, ListOf(p)) = p
  BY <1>n, HeadOf
<1>d. DOMAIN p = 1..n
  BY <1>n, HeadOf
<1>2. /\ Len(s) = n
      /\ \A k \in 1..n : s[k] = heap[p[k]].seq /\ s[k] \in Nat
  BY <1>n, SeqsAre
<1>3. \A j, k \in 1..n : j < k => s[j] < s[k]
  BY <1>2 DEF Ascends
<1> DEFINE gaps == {k \in 1..n : Gap(heap, p, k)}
<1>4. \A k \in 1..n : Gap(heap, p, k) <=> k = n \/ s[k + 1] # s[k] + 1
  <2>1. ASSUME NEW k \in 1..n, k # n PROVE k + 1 \in 1..n
    BY <1>1, <2>1
  <2> QED BY <1>n, <1>2, <2>1 DEF Gap
<1>5. gaps \subseteq Nat /\ n \in gaps
  BY <1>1, <1>4
<1>6. PICK f \in gaps : \A k \in gaps : f <= k
  <2> HIDE DEF gaps
  <2> QED BY <1>5, LeastElement
<1>7. f \in 1..n /\ f \in Nat /\ f <= n /\ Gap(heap, p, f)
  BY <1>1
<1>8. \A j \in 1..(f - 1) : j \in 1..n /\ j < f /\ ~Gap(heap, p, j)
  <2>1. ASSUME NEW j \in 1..(f - 1) PROVE j \in 1..n /\ j < f
    BY <1>1, <1>7
  <2>2. ASSUME NEW j \in 1..(f - 1) PROVE j \notin gaps
    <3>1. j \in Nat /\ j < f
      BY <2>1
    <3> HIDE DEF gaps
    <3> QED BY <1>6, <1>7, <3>1
  <2> QED BY <2>1, <2>2
<1>9. Run(s, n, f)
  <2>1. \A j \in 1..(f - 1) : s[j + 1] = s[j] + 1
    BY <1>4, <1>8
  <2>2. f = n \/ s[f + 1] # s[f] + 1
    BY <1>4, <1>7
  <2> QED BY <1>1, <1>2, <1>3, <1>7, <2>1, <2>2 DEF Run
<1>10. (CHOOSE k \in DOMAIN p : /\ Gap(heap, p, k)
                               /\ \A j \in 1..(k - 1) : ~Gap(heap, p, j)) = f
  <2> DEFINE Last(k) == Gap(heap, p, k) /\ \A j \in 1..(k - 1) : ~Gap(heap, p, j)
  <2>1. Last(f)
    BY <1>7, <1>8
  <2>2. ASSUME NEW k \in 1..n, Last(k) PROVE k = f
    <3>1. ~(k < f)
      <4>1. k < f => k \in 1..(f - 1)
        BY <1>1, <1>7
      <4> QED BY <1>8, <2>2, <4>1
    <3>2. ~(f < k)
      <4>1. f < k => f \in 1..(k - 1)
        BY <1>1, <1>7
      <4> QED BY <1>7, <2>2, <4>1
    <3> QED BY <1>1, <1>7, <3>1, <3>2
  <2>3. (CHOOSE k \in DOMAIN p : Last(k)) = f
    <3> HIDE DEF Last
    <3> QED BY <1>d, <1>7, <2>1, <2>2
  <2> QED BY <2>3
<1>m. PICK m : m = f - 1
  OBVIOUS
<1>r. PICK r : r = SubSeq(p, m + 1, Len(p))
  OBVIOUS
<1>l. PICK left : left = free(heap, {p[j] : j \in 1..m})
  OBVIOUS
<1>11. m \in 0..Len(p) /\ m \in Nat /\ m < n /\ f = m + 1
  BY <1>n, <1>1, <1>7, <1>m
<1>12. Dropped(heap, p, q, m, r, left)
  BY <1>r, <1>l, <1>11, Drop
<1>13. result.cells = left /\ result.list = ListOf(r)
  <2> DEFINE list == [ListOf(p) EXCEPT !.num_entry = @ - (f - 1), !.head = p[f]]
  <2>1. result = Result(free(heap, {p[j] : j \in 1..(f - 1)}), list)
    <3> DEFINE last(path) == CHOOSE k \in DOMAIN path :
                               /\ Gap(heap, path, k)
                               /\ \A j \in 1..(k - 1) : ~Gap(heap, path, j)
               answer(path, k) ==
                 Result(free(heap, {path[j] : j \in 1..(k - 1)}),
                        [ListOf(p) EXCEPT !.num_entry = @ - (k - 1), !.head = path[k]])
    <3>1. result = answer(Path(heap, ListOf(p)), last(Path(heap, ListOf(p))))
      BY DEF find_ack
    <3>2. Path(heap, ListOf(p)) = p /\ last(p) = f
      BY <1>1, <1>10
    <3>3. result = answer(p, f)
      <4> HIDE DEF answer, last
      <4> QED BY <3>1, <3>2
    <3> QED BY <3>3
  <2>2. list = [num_entry |-> n - m, head |-> p[f], tail |-> ListOf(p).tail]
    <3> DEFINE l == ListOf(p)
               k == [l EXCEPT !.num_entry = @ - (f - 1), !.head = p[f]]
    <3>1. DOMAIN l = {"num_entry", "head", "tail"} /\ l.num_entry = n
      BY <1>n DEF ListOf
    <3> HIDE DEF l
    <3>2. /\ DOMAIN k = {"num_entry", "head", "tail"}
          /\ k.num_entry = n - m /\ k.head = p[f] /\ k.tail = l.tail
          /\ k = [i \in DOMAIN k |-> k[i]]
      BY <1>m, <3>1
    <3> HIDE DEF k
    <3>3. k = [num_entry |-> n - m, head |-> p[f], tail |-> l.tail]
      BY <3>2
    <3> QED BY <3>3 DEF k, l
  <2> HIDE DEF list
  <2>3. result = Result(left, list)
    BY <1>m, <1>l, <2>1
  <2>4. ListOf(r) = [num_entry |-> n - m, head |-> p[m + 1], tail |-> ListOf(p).tail]
    BY <1>n, <1>11, <1>12 DEF Dropped
  <2> QED BY <1>11, <2>2, <2>3, <2>4, ResultFields
<1>t. PICK t : t = SeqsOn(left, r)
  OBVIOUS
<1>14. Len(r) = n - m /\ Len(t) = n - m /\ \A k \in 1..(n - m) : t[k] = s[m + k]
  <2>1. t = SubSeq(s, m + 1, n) /\ HeapOK(left) /\ TwoPaths(left, r, q)
    BY <1>n, <1>t, <1>12 DEF Dropped
  <2>2. Len(t) = Len(r)
    BY <1>t, <2>1, SeqsAre
  <2>3. \A i \in (m + 1)..n : s[i] \in Nat
    BY <1>2, <1>11
  <2>4. m + 1 \in Int /\ n \in Int /\ m + 1 <= n
    BY <1>1, <1>11
  <2>5. /\ Len(SubSeq(s, m + 1, n)) = n - (m + 1) + 1
        /\ \A k \in 1..(n - (m + 1) + 1) : SubSeq(s, m + 1, n)[k] = s[(m + 1) + k - 1]
    BY ONLY <2>3, <2>4, SubSeqProperties
  <2>6. n - (m + 1) + 1 = n - m /\ \A k \in 1..(n - m) : (m + 1) + k - 1 = m + k
    BY <1>1, <1>11
  <2> QED BY <2>1, <2>2, <2>5, <2>6
<1>15. Ascends(t)
  <2>1. \A k \in 1..(n - m) : m + k \in 1..n
    BY <1>1, <1>11
  <2>2. \A j, k \in 1..(n - m) : j < k => m + j < m + k
    BY <1>1, <1>11
  <2> QED BY <1>3, <1>14, <2>1, <2>2 DEF Ascends
<1>16. Entries(t, Len(r)) = {s[k] : k \in f..n}
  <2>1. \A k \in 1..(n - m) : m + k \in f..n
    BY <1>1, <1>11
  <2>2. \A k \in f..n : k - m \in 1..(n - m) /\ m + (k - m) = k
    BY <1>1, <1>11
  <2>3. \A k \in 1..(n - m) : \E j \in f..n : t[k] = s[j]
    BY <1>14, <2>1
  <2>4. \A j \in f..n : \E k \in 1..(n - m) : t[k] = s[j]
    BY <1>14, <2>2
  <2> QED BY <1>14, <2>3, <2>4 DEF Entries
<1>17. result.cells[result.list.head].seq = s[f]
  <2>1. ListOf(r).head = p[f]
    BY <1>n, <1>11, <1>12 DEF Dropped
  <2>2. p[f] \in DOMAIN left /\ left[p[f]] = heap[p[f]]
    <3>1. p[f] \notin {p[j] : j \in 1..m}
      <4>1. \A j \in 1..m : j \in 1..n /\ j # f
        BY <1>1, <1>11
      <4> QED BY <1>n, <1>7, <4>1 DEF TwoPaths, IsPath
    <3> QED BY <1>1, <1>7, <1>l, <3>1 DEF free, Restrict
  <2> QED BY <1>2, <1>7, <1>13, <2>1, <2>2
<1>18. /\ Leaves(heap, q, result, r) /\ Ascends(SeqsOn(result.cells, r))
       /\ Entries(SeqsOn(result.cells, r), Len(r)) = Windows!after_find_ack(Entries(s, n))
       /\ result.cells[result.list.head].seq = Windows!find_ack(Entries(s, n))
  <2>1. Leaves(heap, q, result, r)
    BY <1>12, <1>13 DEF Dropped, Leaves
  <2> QED BY <1>9, <1>13, <1>t, <1>15, <1>16, <1>17, <2>1, RunEnds
<1> QED BY <1>n, <1>18

\* seq belongs behind the first k entries of s.
Fits(s, n, k, seq) ==
  /\ n \in Nat /\ k \in 0..n /\ Len(s) = n
  /\ \A i \in 1..n : s[i] \in Nat
  /\ \A i, j \in 1..n : i < j => s[i] < s[j]
  /\ k # 0 => s[k] < seq
  /\ k # n => seq < s[k + 1]

\* Where it is put in its place, the sequence ascends, and has one entry more.
LEMMA FitsIn ==
  ASSUME NEW s, NEW n, NEW k, NEW seq \in Nat, Fits(s, n, k, seq), k = 0 => n = 0,
         NEW t, t = With(s, k, seq)
  PROVE  /\ Ascends(t) /\ Len(t) = n + 1
         /\ Entries(t, n + 1) = Windows!insert_entry(Entries(s, n), seq)
<1>1. n \in Nat /\ k \in Nat /\ k <= n /\ \A i \in 1..n : s[i] \in Nat
  BY DEF Fits
<1>2. /\ t = [i \in 1..(n + 1) |-> t[i]]
      /\ \A i \in 1..(n + 1) :
           t[i] = IF i <= k THEN s[i] ELSE IF i = k + 1 THEN seq ELSE s[i - 1]
  <2>1. t = [i \in 1..(n + 1) |-> IF i <= k THEN s[i] ELSE IF i = k + 1 THEN seq ELSE s[i - 1]]
    BY DEF With, Fits
  <2> QED BY ONLY <2>1
<1>3. Len(t) = n + 1
  BY <1>1, <1>2
<1>4. \A i \in 1..(n + 1) : \/ i \in 1..n /\ i <= k /\ t[i] = s[i]
                            \/ i = k + 1 /\ t[i] = seq
                            \/ i - 1 \in 1..n /\ i > k + 1 /\ t[i] = s[i - 1]
  <2>1. ASSUME NEW i \in 1..(n + 1)
        PROVE  \/ i \in 1..n /\ i <= k
               \/ i = k + 1 /\ ~(i <= k)
               \/ i - 1 \in 1..n /\ i > k + 1 /\ ~(i <= k) /\ i # k + 1
    BY <1>1
  <2> QED BY <1>2, <2>1
<1>5. /\ \A i \in 1..n : i <= k => s[i] < seq
      /\ \A i \in 1..n : k < i => seq < s[i]
  <2>1. ASSUME NEW i \in 1..n, i <= k PROVE s[i] < seq
    <3>1. k \in 1..n /\ s[k] < seq
      BY <1>1, <2>1 DEF Fits
    <3>2. i = k \/ s[i] < s[k]
      BY <1>1, <2>1, <3>1 DEF Fits
    <3> QED BY <1>1, <3>1, <3>2
  <2>2. ASSUME NEW i \in 1..n, k < i PROVE seq < s[i]
    <3>1. k + 1 \in 1..n /\ seq < s[k + 1]
      BY <1>1, <2>2 DEF Fits
    <3>2. i = k + 1 \/ s[k + 1] < s[i]
      BY <1>1, <2>2, <3>1 DEF Fits
    <3> QED BY <1>1, <3>1, <3>2
  <2> QED BY <2>1, <2>2
<1>6. \A i \in 1..n, j \in 1..n : i < j => s[i] < s[j]
  BY DEF Fits
<1>7. Ascends(t)
  <2>1. ASSUME NEW i \in 1..(n + 1), NEW j \in 1..(n + 1), i < j PROVE t[i] < t[j]
    <3>1. CASE i \in 1..n /\ i <= k /\ t[i] = s[i]
      <4>1. CASE j \in 1..n /\ j <= k /\ t[j] = s[j]
        BY <1>6, <2>1, <3>1, <4>1
      <4>2. CASE j = k + 1 /\ t[j] = seq
        BY <1>5, <3>1, <4>2
      <4>3. CASE j - 1 \in 1..n /\ j > k + 1 /\ t[j] = s[j - 1]
        <5>1. i < j - 1
          BY <1>1, <3>1, <4>3
        <5> QED BY <1>6, <3>1, <4>3, <5>1
      <4> QED BY <1>4, <4>1, <4>2, <4>3
    <3>2. CASE i = k + 1 /\ t[i] = seq
      <4>1. j - 1 \in 1..n /\ t[j] = s[j - 1] /\ k < j - 1
        BY <1>1, <1>4, <2>1, <3>2
      <4> QED BY <1>5, <3>2, <4>1
    <3>3. CASE i - 1 \in 1..n /\ i > k + 1 /\ t[i] = s[i - 1]
      <4>1. j - 1 \in 1..n /\ t[j] = s[j - 1] /\ i - 1 < j - 1
        BY <1>1, <1>4, <2>1, <3>3
      <4> QED BY <1>6, <3>3, <4>1
    <3> QED BY <1>4, <3>1, <3>2, <3>3
  <2> QED BY <1>3, <2>1 DEF Ascends
<1>8. Entries(t, n + 1) = Entries(s, n) \cup {seq}
  <2>1. \A i \in 1..(n + 1) : t[i] \in Entries(s, n) \cup {seq}
    BY <1>4 DEF Entries
  <2>2. ASSUME NEW i \in 1..n PROVE s[i] \in Entries(t, n + 1)
    <3>1. CASE i <= k
      <4>1. i \in 1..(n + 1) /\ t[i] = s[i]
        BY <1>1, <1>2, <3>1
      <4> QED BY <4>1 DEF Entries
    <3>2. CASE i > k
      <4>1. i + 1 \in 1..(n + 1) /\ ~(i + 1 <= k) /\ i + 1 # k + 1 /\ (i + 1) - 1 = i
        BY <1>1, <3>2
      <4>2. t[i + 1] = s[(i + 1) - 1]
        BY <1>2, <4>1
      <4> QED BY <4>1, <4>2 DEF Entries
    <3> QED BY <1>1, <3>1, <3>2
  <2>3. k + 1 \in 1..(n + 1) /\ t[k + 1] = seq
    BY <1>1, <1>2
  <2> QED BY <2>1, <2>2, <2>3 DEF Entries
<1>9. ~(Entries(s, n) # {} /\ \A m \in Entries(s, n) : seq < m)
  <2>1. CASE k = 0
    BY <2>1 DEF Entries
  <2>2. CASE k # 0
    <3>1. k \in 1..n /\ s[k] < seq /\ s[k] \in Nat
      BY <1>1, <2>2 DEF Fits
    <3>2. s[k] \in Entries(s, n) /\ ~(seq < s[k])
      BY <3>1 DEF Entries
    <3> QED BY <3>2
  <2> QED BY <2>1, <2>2
<1>10. Windows!insert_entry(Entries(s, n), seq) = Entries(s, n) \cup {seq}
  BY <1>9 DEF Windows!insert_entry
<1> QED BY <1>3, <1>7, <1>8, <1>10

\* insert_entry puts the packet in its place, if it has one.
LEMMA InsertEntry ==
  ASSUME NEW heap, HeapOK(heap), NEW p, NEW q, TwoPaths(heap, p, q),
         NEW s, s = SeqsOn(heap, p), Ascends(s),
         NEW new \in Address \ DOMAIN heap, NEW seq \in SeqNums,
         NEW result, result = insert_entry(heap, ListOf(p), new, seq)
  PROVE  \E r : /\ Leaves(heap, q, result, r)
                /\ Ascends(SeqsOn(result.cells, r))
                /\ Entries(SeqsOn(result.cells, r), Len(r))
                    = Windows!insert_entry(Entries(s, Len(p)), seq)
<1>n. PICK n : n = Len(p)
  OBVIOUS
<1>1. /\ n \in Nat /\ \A k \in 1..n : p[k] \in DOMAIN heap
      /\ ListOf(p).head = NULL <=> n = 0
      /\ Path(heap, ListOf(p)) = p
  BY <1>n, HeadOf
<1>d. DOMAIN p = 1..n
  BY <1>n, HeadOf
<1>2. /\ Len(s) = n
      /\ \A k \in 1..n : s[k] = heap[p[k]].seq /\ s[k] \in Nat
  BY <1>n, SeqsAre
<1>3. \A j, k \in 1..n : j < k => s[j] < s[k]
  BY <1>2 DEF Ascends
<1>4. seq \in Nat
  BY ListAssumption
<1>w. PICK with : with = malloc(heap, new, seq)
  OBVIOUS
<1>5. /\ with[new] = [seq |-> seq, next |-> NULL]
      /\ \A a \in DOMAIN heap : with[a] = heap[a]
  BY <1>w DEF malloc
<1>6. DOMAIN with = DOMAIN heap \cup {new}
  BY <1>w DEF malloc
<1> DEFINE Place(path, k) == /\ heap[path[k]].seq < seq
                             /\ k = Len(path) \/ seq < heap[path[k + 1]].seq
           linked(prev) == [malloc(heap, new, seq) EXCEPT ![prev].next = new,
                                                          ![new].next = heap[prev].next]
           none(path) == \A k \in DOMAIN path : ~Place(path, k)
           found(path) == CHOOSE k \in DOMAIN path : Place(path, k)
           list(path, k) == [ListOf(p) EXCEPT !.num_entry = @ + 1,
                                              !.tail = IF k = Len(path) THEN new ELSE @]
           answer(path) ==
             IF ListOf(p).head = NULL
               THEN Result(malloc(heap, new, seq),
                      [num_entry |-> ListOf(p).num_entry + 1, head |-> new, tail |-> new])
             ELSE IF none(path) THEN Result(heap, ListOf(p))
             ELSE Result(linked(path[found(path)]), list(path, found(path)))
<1>7. result = answer(p)
  <2>1. result = answer(Path(heap, ListOf(p)))
    BY DEF insert_entry
  <2> HIDE DEF answer
  <2> QED BY <1>1, <2>1
<1>8. \A k \in 1..n : Place(p, k) <=> s[k] < seq /\ (k = n \/ seq < s[k + 1])
  <2>1. ASSUME NEW k \in 1..n, k # n PROVE k + 1 \in 1..n
    BY <1>1, <2>1
  <2> QED BY <1>n, <1>2, <2>1
\* The cell is linked in.
<1>9. ASSUME NEW k \in 0..n, k = 0 => n = 0, Linked(heap, p, k, new, seq, result.cells),
             result.list = [num_entry |-> n + 1,
                            head |-> IF n = 0 THEN new ELSE ListOf(p).head,
                            tail |-> IF k = n THEN new ELSE ListOf(p).tail],
             Fits(s, n, k, seq)
      PROVE  \E r : /\ Leaves(heap, q, result, r)
                    /\ Ascends(SeqsOn(result.cells, r))
                    /\ Entries(SeqsOn(result.cells, r), Len(r))
                        = Windows!insert_entry(Entries(s, n), seq)
  <2>r. PICK r : r = With(p, k, new)
    OBVIOUS
  <2>t. PICK t : t = SeqsOn(result.cells, r)
    OBVIOUS
  <2>1. /\ HeapOK(result.cells) /\ TwoPaths(result.cells, r, q)
        /\ SeqsOn(result.cells, q) = SeqsOn(heap, q)
        /\ SeqsOn(result.cells, r) = With(SeqsOn(heap, p), k, seq)
        /\ ListOf(r) = [num_entry |-> Len(p) + 1,
                        head |-> IF Len(p) = 0 THEN new ELSE ListOf(p).head,
                        tail |-> IF k = Len(p) THEN new ELSE ListOf(p).tail]
    <3>1. k \in 0..Len(p) /\ (k = 0 => Len(p) = 0)
      BY <1>n, <1>9
    <3> QED BY <1>9, <2>r, <3>1, LinkIn
  <2>2. Leaves(heap, q, result, r)
    BY <1>n, <1>9, <2>1 DEF Leaves
  <2>3. t = With(s, k, seq)
    BY <2>1, <2>t
  <2>4. /\ Ascends(t) /\ Len(t) = n + 1
        /\ Entries(t, n + 1) = Windows!insert_entry(Entries(s, n), seq)
    BY <1>4, <1>9, <2>3, FitsIn
  <2>5. Len(r) = Len(t)
    BY <2>1, <2>t, SeqsAre
  <2> QED BY <2>2, <2>4, <2>5, <2>t
<1>10. CASE n = 0
  <2>1. result.cells = with
        /\ result.list = [num_entry |-> n + 1, head |-> new, tail |-> new]
    <3>1. result = Result(with, [num_entry |-> ListOf(p).num_entry + 1,
                                 head |-> new, tail |-> new])
      BY <1>1, <1>7, <1>10, <1>w
    <3>2. ListOf(p).num_entry = n
      BY <1>n DEF ListOf
    <3> QED BY <3>1, <3>2, ResultFields
  <2>2. Linked(heap, p, 0, new, seq, result.cells)
    BY <1>n, <1>5, <1>6, <1>10, <2>1 DEF Linked
  <2>3. Fits(s, n, 0, seq)
    BY <1>2, <1>10 DEF Fits
  <2>4. 0 \in 0..n
    BY <1>1
  <2> HIDE DEF answer
  <2> QED BY <1>n, <1>9, <1>10, <2>1, <2>2, <2>3, <2>4
<1>11. CASE n # 0 /\ \E k \in 1..n : Place(p, k)
  <2>k. PICK k : k = found(p)
    OBVIOUS
  <2>1. k \in 1..n /\ Place(p, k)
    <3> HIDE DEF Place
    <3> QED BY <1>d, <1>11, <2>k
  <2>2. result = Result(linked(p[k]), list(p, k))
    <3>1. ~none(p)
      <4> HIDE DEF Place
      <4> QED BY <1>d, <2>1
    <3> HIDE DEF none, linked, list, found
    <3> QED BY <1>1, <1>7, <1>11, <2>k, <3>1
  <2>3. list(p, k) = [num_entry |-> n + 1, head |-> ListOf(p).head,
                      tail |-> IF k = n THEN new ELSE ListOf(p).tail]
    <3> DEFINE l == ListOf(p)
               longer == [l EXCEPT !.num_entry = @ + 1, !.tail = IF k = Len(p) THEN new ELSE @]
    <3>1. DOMAIN l = {"num_entry", "head", "tail"} /\ l.num_entry = n
      BY <1>n DEF ListOf
    <3> HIDE DEF l
    <3>2. /\ DOMAIN longer = {"num_entry", "head", "tail"}
          /\ longer.num_entry = n + 1 /\ longer.head = l.head
          /\ longer.tail = IF k = n THEN new ELSE l.tail
          /\ longer = [i \in DOMAIN longer |-> longer[i]]
      BY <1>n, <3>1
    <3> HIDE DEF longer
    <3>3. longer = [num_entry |-> n + 1, head |-> l.head,
                    tail |-> IF k = n THEN new ELSE l.tail]
      BY <3>2
    <3> QED BY <3>3 DEF longer, l
  <2>4. /\ p[k] \in DOMAIN heap /\ p[k] # new
        /\ heap[p[k]].next = IF k = n THEN NULL ELSE p[k + 1]
    BY <1>n, <1>1, <2>1 DEF TwoPaths, IsPath
  <2>5. Linked(heap, p, k, new, seq, linked(p[k]))
    <3> DEFINE after == [with EXCEPT ![p[k]].next = new]
               grown == [after EXCEPT ![new].next = heap[p[k]].next]
    <3>1. linked(p[k]) = grown
      BY <1>w
    <3>2. [with[p[k]] EXCEPT !.next = new] = [seq |-> heap[p[k]].seq, next |-> new]
      BY <1>5, <2>4, Relink
    <3>3. /\ after[p[k]] = [seq |-> heap[p[k]].seq, next |-> new]
          /\ after[new] = [seq |-> seq, next |-> NULL]
          /\ \A a \in DOMAIN heap : a # p[k] => after[a] = heap[a]
      BY <1>5, <1>6, <2>4, <3>2
    <3>4. DOMAIN after = DOMAIN heap \cup {new}
      BY <1>6
    <3> HIDE DEF after
    <3>5. [after[new] EXCEPT !.next = heap[p[k]].next] = [seq |-> seq, next |-> heap[p[k]].next]
      BY <3>3
    <3>6. /\ grown[new] = [seq |-> seq, next |-> heap[p[k]].next]
          /\ \A a \in DOMAIN heap : grown[a] = after[a]
      BY <3>4, <3>5
    <3>7. DOMAIN grown = DOMAIN heap \cup {new}
      BY <3>4
    <3> HIDE DEF grown
    <3>8. Linked(heap, p, k, new, seq, grown)
      <4>1. grown[new] = [seq |-> seq, next |-> IF k = Len(p) THEN NULL ELSE p[k + 1]]
        BY <1>n, <2>4, <3>6
      <4>2. grown[p[k]] = [seq |-> heap[p[k]].seq, next |-> new]
        BY <2>4, <3>3, <3>6
      <4>3. \A a \in DOMAIN heap : a # p[k] => grown[a] = heap[a]
        BY <3>3, <3>6
      <4>4. k # 0
        BY <1>1, <2>1
      <4> QED BY ONLY <3>7, <4>1, <4>2, <4>3, <4>4 DEF Linked
    <3> HIDE DEF linked
    <3> QED BY <3>1, <3>8
  <2>6. Fits(s, n, k, seq)
    BY <1>1, <1>2, <1>3, <1>8, <2>1 DEF Fits
  <2>7. k \in 0..n /\ k # 0
    BY <1>1, <2>1
  <2>8. result.cells = linked(p[k]) /\ result.list = list(p, k)
    <3> HIDE DEF linked, list
    <3> QED BY <2>2, ResultFields
  <2> HIDE DEF linked, list, answer, Place
  <2> QED BY <1>n, <1>9, <1>11, <2>3, <2>5, <2>6, <2>7, <2>8
<1>12. CASE n # 0 /\ ~\E k \in 1..n : Place(p, k)
  <2>1. result.cells = heap /\ result.list = ListOf(p)
    <3>1. none(p)
      <4> HIDE DEF Place
      <4> QED BY <1>d, <1>12
    <3>2. result = Result(heap, ListOf(p))
      <4> HIDE DEF none, linked, list, found
      <4> QED BY <1>1, <1>7, <1>12, <3>1
    <3> QED BY <3>2, ResultFields
  <2>2. ASSUME seq \notin Entries(s, n) PROVE \A k \in 1..n : seq < s[k]
    <3> DEFINE less == {k \in 1..n : s[k] < seq}
    <3>1. less = {}
      <4> SUFFICES ASSUME less # {} PROVE FALSE
        OBVIOUS
      <4>1. less \subseteq 0..n
        BY <1>1
      <4>2. PICK k \in less : \A j \in less : j <= k
        <5> HIDE DEF less
        <5> QED BY <1>1, <4>1, GreatestElement
      <4>3. k \in 1..n /\ s[k] < seq
        OBVIOUS
      <4>4. k # n /\ ~(seq < s[k + 1])
        BY <1>8, <1>12, <4>3
      <4>5. k + 1 \in 1..n /\ s[k + 1] \in Nat
        BY <1>1, <1>2, <4>3, <4>4
      <4>6. s[k + 1] # seq
        BY <2>2, <4>5 DEF Entries
      <4>7. k + 1 \in less
        BY <1>4, <4>4, <4>5, <4>6
      <4> QED BY <4>2, <4>3, <4>7
    <3>2. \A k \in 1..n : s[k] # seq
      BY <2>2 DEF Entries
    <3>3. \A k \in 1..n : ~(s[k] < seq)
      BY <3>1
    <3> QED BY <1>2, <1>4, <3>2, <3>3
  <2>3. Windows!insert_entry(Entries(s, n), seq) = Entries(s, n)
    <3>1. CASE seq \in Entries(s, n)
      BY <3>1 DEF Windows!insert_entry
    <3>2. CASE seq \notin Entries(s, n)
      <4>1. Entries(s, n) # {} /\ \A m \in Entries(s, n) : seq < m
        <5>1. 1 \in 1..n
          BY <1>1, <1>12
        <5> QED BY <2>2, <3>2, <5>1 DEF Entries
      <4> QED BY <4>1 DEF Windows!insert_entry
    <3> QED BY <3>1, <3>2
  <2> HIDE DEF answer, Place
  <2>4. Leaves(heap, q, result, p)
    BY <2>1 DEF Leaves
  <2>5. SeqsOn(result.cells, p) = s
    BY <2>1
  <2> QED BY <1>n, <2>3, <2>4, <2>5
<1> QED BY <1>n, <1>10, <1>11, <1>12

-----------------------------------------------------------------------------
(* The lists, and the windows they implement.                              *)

\* The send list is p and the receive list is q, which ascends.
Shape(heap, sl, rl, p, q) ==
  /\ HeapOK(heap) /\ TwoPaths(heap, p, q)
  /\ sl = ListOf(p) /\ rl = ListOf(q)
  /\ Ascends(SeqsOn(heap, q))

Lists == \E p, q : Shape(cells, send, recv, p, q)

\* The windows that two lists stand for.
SendWindowOf(heap, list) ==
  LET path == Path(heap, list) IN [k \in DOMAIN path |-> heap[path[k]].seq]

LEMMA PathsSwap ==
  ASSUME NEW heap, NEW p, NEW q, TwoPaths(heap, p, q)
  PROVE  TwoPaths(heap, q, p)
BY DEF TwoPaths

LEMMA WindowsOf ==
  ASSUME NEW heap, NEW sl, NEW rl, NEW p, NEW q, Shape(heap, sl, rl, p, q)
  PROVE  /\ SendWindowOf(heap, sl) = SeqsOn(heap, p)
         /\ Range(SendWindowOf(heap, rl)) = Entries(SeqsOn(heap, q), Len(q))
         /\ sl.head = NULL <=> Len(p) = 0
         /\ rl.head = NULL <=> Len(q) = 0
<1>1. /\ HeapOK(heap) /\ TwoPaths(heap, p, q) /\ TwoPaths(heap, q, p)
      /\ sl = ListOf(p) /\ rl = ListOf(q)
  BY PathsSwap DEF Shape
<1>2. /\ Path(heap, sl) = p /\ Path(heap, rl) = q
      /\ sl.head = NULL <=> Len(p) = 0
      /\ rl.head = NULL <=> Len(q) = 0
  BY <1>1, HeadOf
<1>3. DOMAIN p = 1..Len(p) /\ DOMAIN q = 1..Len(q)
  BY <1>1, HeadOf
<1>4. SendWindowOf(heap, sl) = SeqsOn(heap, p)
  BY <1>2, <1>3 DEF SendWindowOf, SeqsOn
<1>5. SendWindowOf(heap, rl) = SeqsOn(heap, q)
  BY <1>2, <1>3 DEF SendWindowOf, SeqsOn
<1>6. Range(SeqsOn(heap, q)) = Entries(SeqsOn(heap, q), Len(q))
  BY DEF Range, Entries, SeqsOn
<1> QED BY <1>2, <1>4, <1>5, <1>6

LEMMA InitLists ==
  ASSUME Init
  PROVE  Lists /\ Windows!Init
<1> DEFINE e == << >>
<1>1. HeapOK(cells)
  BY DEF Init, HeapOK
<1>2. TwoPaths(cells, e, e) /\ send = ListOf(e) /\ recv = ListOf(e)
  BY DEF Init, TwoPaths, IsPath, In, ListOf, EmptyList
<1>3. SeqsOn(cells, e) = << >> /\ Ascends(SeqsOn(cells, e))
  BY DEF SeqsOn, Ascends
<1>4. Shape(cells, send, recv, e, e)
  BY <1>1, <1>2, <1>3 DEF Shape
<1>5. SeqNumsOf(send) = << >> /\ Range(SeqNumsOf(recv)) = {}
  <2>1. SeqNumsOf(send) = SendWindowOf(cells, send) /\ SeqNumsOf(recv) = SendWindowOf(cells, recv)
    BY DEF SeqNumsOf, SendWindowOf
  <2>2. Entries(SeqsOn(cells, e), Len(e)) = {}
    BY DEF Entries
  <2> HIDE DEF e
  <2> QED BY <1>3, <1>4, <2>1, <2>2, WindowsOf
<1> QED BY <1>4, <1>5 DEF Lists, Windows!Init, Init

\* A call on the send list.
LEMMA SendCall ==
  ASSUME NEW heap, NEW sl, NEW rl, NEW p, NEW q, Shape(heap, sl, rl, p, q),
         NEW result, NEW r, Leaves(heap, q, result, r)
  PROVE  /\ Shape(result.cells, result.list, rl, r, q)
         /\ SendWindowOf(result.cells, result.list) = SeqsOn(result.cells, r)
         /\ Range(SendWindowOf(result.cells, rl)) = Range(SendWindowOf(heap, rl))
<1>1. Shape(result.cells, result.list, rl, r, q)
  BY DEF Shape, Leaves
<1>2. SeqsOn(result.cells, q) = SeqsOn(heap, q)
  BY DEF Leaves
<1> QED BY <1>1, <1>2, WindowsOf

\* A call on the receive list.
LEMMA ReceiveCall ==
  ASSUME NEW heap, NEW sl, NEW rl, NEW p, NEW q, Shape(heap, sl, rl, p, q),
         NEW result, NEW r, Leaves(heap, p, result, r), Ascends(SeqsOn(result.cells, r))
  PROVE  /\ Shape(result.cells, sl, result.list, p, r)
         /\ Range(SendWindowOf(result.cells, result.list))
              = Entries(SeqsOn(result.cells, r), Len(r))
         /\ SendWindowOf(result.cells, sl) = SendWindowOf(heap, sl)
<1>1. Shape(result.cells, sl, result.list, p, r)
  BY PathsSwap DEF Shape, Leaves
<1>2. SeqsOn(result.cells, p) = SeqsOn(heap, p)
  BY DEF Leaves
<1> QED BY <1>1, <1>2, WindowsOf

\* What the lists stand for, before a step and after it.
LEMMA Standing ==
  /\ SeqNumsOf(send) = SendWindowOf(cells, send)
  /\ SeqNumsOf(recv) = SendWindowOf(cells, recv)
  /\ SeqNumsOf(send)' = SendWindowOf(cells', send')
  /\ SeqNumsOf(recv)' = SendWindowOf(cells', recv')
BY DEF SeqNumsOf, SendWindowOf

LEMMA SendAppendStep ==
  ASSUME NEW p, NEW q, Shape(cells, send, recv, p, q), SendAppend
  PROVE  Lists' /\ Windows!SendAppend
<1>1. PICK seq, new, result :
        /\ seq \in SeqNums /\ new \in Address \ DOMAIN cells
        /\ result = append_entry(cells, send, new, seq)
        /\ cells' = result.cells /\ send' = result.list
  BY DEF SendAppend
<1>2. recv' = recv /\ ack' = ack
  BY DEF SendAppend
<1>3. HeapOK(cells) /\ TwoPaths(cells, p, q) /\ send = ListOf(p)
  BY DEF Shape
<1>4. PICK r : /\ Leaves(cells, q, result, r)
               /\ SeqsOn(result.cells, r) = Append(SeqsOn(cells, p), seq)
  BY <1>1, <1>3, AppendEntry
<1>5. /\ Shape(cells', send', recv', r, q)
      /\ SendWindowOf(cells', send') = SeqsOn(result.cells, r)
      /\ Range(SendWindowOf(cells', recv')) = Range(SendWindowOf(cells, recv))
  BY <1>1, <1>2, <1>4, SendCall
<1>6. SendWindowOf(cells, send) = SeqsOn(cells, p)
  BY WindowsOf
<1>7. /\ SeqNumsOf(send)' = Windows!append_entry(SeqNumsOf(send), seq)
      /\ Range(SeqNumsOf(recv))' = Range(SeqNumsOf(recv))
  BY <1>4, <1>5, <1>6, Standing DEF Windows!append_entry, Range
<1>8. Lists'
  BY <1>5 DEF Lists
<1> QED BY <1>1, <1>2, <1>7, <1>8 DEF Windows!SendAppend

LEMMA SendDestroyUptoStep ==
  ASSUME NEW p, NEW q, Shape(cells, send, recv, p, q), SendDestroyUpto
  PROVE  Lists' /\ Windows!SendDestroyUpto
<1>1. PICK upto, result :
        /\ upto \in SeqNums \cup {0}
        /\ result = destroy_upto_ack(cells, send, upto)
        /\ cells' = result.cells /\ send' = result.list
  BY DEF SendDestroyUpto
<1>2. recv' = recv /\ ack' = ack
  BY DEF SendDestroyUpto
<1>3. HeapOK(cells) /\ TwoPaths(cells, p, q) /\ send = ListOf(p)
  BY DEF Shape
<1>4. Len(p) # 0
  BY WindowsOf DEF SendDestroyUpto
<1>5. PICK r : /\ Leaves(cells, q, result, r)
               /\ SeqsOn(result.cells, r)
                   = Windows!destroy_upto_ack(SeqsOn(cells, p), upto)
  BY <1>1, <1>3, <1>4, DestroyUpto
<1>6. /\ Shape(cells', send', recv', r, q)
      /\ SendWindowOf(cells', send') = SeqsOn(result.cells, r)
      /\ Range(SendWindowOf(cells', recv')) = Range(SendWindowOf(cells, recv))
  BY <1>1, <1>2, <1>5, SendCall
<1>7. SendWindowOf(cells, send) = SeqsOn(cells, p)
  BY WindowsOf
<1>8. /\ SeqNumsOf(send)' = Windows!destroy_upto_ack(SeqNumsOf(send), upto)
      /\ Range(SeqNumsOf(recv))' = Range(SeqNumsOf(recv))
  BY <1>5, <1>6, <1>7, Standing DEF Range
<1>9. Lists'
  BY <1>6 DEF Lists
<1> QED BY <1>1, <1>2, <1>8, <1>9 DEF Windows!SendDestroyUpto

LEMMA SendDestroyStep ==
  ASSUME NEW p, NEW q, Shape(cells, send, recv, p, q), SendDestroy
  PROVE  Lists' /\ Windows!SendDestroy
<1>1. PICK result : /\ result = destroy_entries(cells, send)
                    /\ cells' = result.cells /\ send' = result.list
  BY DEF SendDestroy
<1>2. recv' = recv /\ ack' = ack
  BY DEF SendDestroy
<1>3. HeapOK(cells) /\ TwoPaths(cells, p, q) /\ send = ListOf(p)
  BY DEF Shape
<1>4. PICK r : Leaves(cells, q, result, r) /\ SeqsOn(result.cells, r) = << >>
  BY <1>1, <1>3, DestroyEntries
<1>5. /\ Shape(cells', send', recv', r, q)
      /\ SendWindowOf(cells', send') = SeqsOn(result.cells, r)
      /\ Range(SendWindowOf(cells', recv')) = Range(SendWindowOf(cells, recv))
  BY <1>1, <1>2, <1>4, SendCall
<1>6. /\ SeqNumsOf(send)' = << >>
      /\ Range(SeqNumsOf(recv))' = Range(SeqNumsOf(recv))
  BY <1>4, <1>5, Standing DEF Range
<1>7. Lists'
  BY <1>5 DEF Lists
<1> QED BY <1>2, <1>6, <1>7 DEF Windows!SendDestroy, Windows!destroy_entries

LEMMA ReceiveInsertStep ==
  ASSUME NEW p, NEW q, Shape(cells, send, recv, p, q), ReceiveInsert
  PROVE  Lists' /\ Windows!ReceiveInsert
<1>1. PICK seq, new, result :
        /\ seq \in SeqNums /\ new \in Address \ DOMAIN cells
        /\ result = insert_entry(cells, recv, new, seq)
        /\ cells' = result.cells /\ recv' = result.list
  BY DEF ReceiveInsert
<1>2. send' = send /\ ack' = ack
  BY DEF ReceiveInsert
<1>3. /\ HeapOK(cells) /\ TwoPaths(cells, q, p) /\ recv = ListOf(q)
      /\ Ascends(SeqsOn(cells, q))
  BY PathsSwap DEF Shape
<1>4. PICK r : /\ Leaves(cells, p, result, r)
               /\ Ascends(SeqsOn(result.cells, r))
               /\ Entries(SeqsOn(result.cells, r), Len(r))
                   = Windows!insert_entry(Entries(SeqsOn(cells, q), Len(q)), seq)
  BY <1>1, <1>3, InsertEntry
<1>5. /\ Shape(cells', send', recv', p, r)
      /\ Range(SendWindowOf(cells', recv')) = Entries(SeqsOn(result.cells, r), Len(r))
      /\ SendWindowOf(cells', send') = SendWindowOf(cells, send)
  BY <1>1, <1>2, <1>4, ReceiveCall
<1>6. Range(SendWindowOf(cells, recv)) = Entries(SeqsOn(cells, q), Len(q))
  BY WindowsOf
<1>7. /\ SeqNumsOf(send)' = SeqNumsOf(send)
      /\ Range(SeqNumsOf(recv))' = Windows!insert_entry(Range(SeqNumsOf(recv)), seq)
  BY <1>4, <1>5, <1>6, Standing DEF Range
<1>8. Lists'
  BY <1>5 DEF Lists
<1> QED BY <1>1, <1>2, <1>7, <1>8 DEF Windows!ReceiveInsert

LEMMA ReceiveDestroyStep ==
  ASSUME NEW p, NEW q, Shape(cells, send, recv, p, q), ReceiveDestroy
  PROVE  Lists' /\ Windows!ReceiveDestroy
<1>1. PICK result : /\ result = destroy_entries(cells, recv)
                    /\ cells' = result.cells /\ recv' = result.list
  BY DEF ReceiveDestroy
<1>2. send' = send /\ ack' = ack
  BY DEF ReceiveDestroy
<1>3. HeapOK(cells) /\ TwoPaths(cells, q, p) /\ recv = ListOf(q)
  BY PathsSwap DEF Shape
<1>4. PICK r : Leaves(cells, p, result, r) /\ SeqsOn(result.cells, r) = << >>
  BY <1>1, <1>3, DestroyEntries
<1>5. Ascends(SeqsOn(result.cells, r))
  BY <1>4 DEF Ascends
<1>6. /\ Shape(cells', send', recv', p, r)
      /\ Range(SendWindowOf(cells', recv')) = Entries(SeqsOn(result.cells, r), Len(r))
      /\ SendWindowOf(cells', send') = SendWindowOf(cells, send)
  BY <1>1, <1>2, <1>4, <1>5, ReceiveCall
<1>7. Len(r) = 0
  BY <1>4, SeqsAre DEF Leaves
<1>8. /\ SeqNumsOf(send)' = SeqNumsOf(send)
      /\ Range(SeqNumsOf(recv))' = {}
  <2>1. Entries(SeqsOn(result.cells, r), Len(r)) = {}
    BY <1>7 DEF Entries
  <2> QED BY <1>6, <2>1, Standing DEF Range
<1>9. Lists'
  BY <1>6 DEF Lists
<1> QED BY <1>2, <1>8, <1>9 DEF Windows!ReceiveDestroy

LEMMA ReceiveFindAckStep ==
  ASSUME NEW p, NEW q, Shape(cells, send, recv, p, q), ReceiveFindAck
  PROVE  Lists' /\ Windows!ReceiveFindAck
<1>1. send' = send
  BY DEF ReceiveFindAck
<1>2. /\ HeapOK(cells) /\ TwoPaths(cells, q, p) /\ recv = ListOf(q)
      /\ Ascends(SeqsOn(cells, q))
  BY PathsSwap DEF Shape
<1>3. /\ Range(SendWindowOf(cells, recv)) = Entries(SeqsOn(cells, q), Len(q))
      /\ recv.head = NULL <=> Len(q) = 0
  BY WindowsOf
<1>4. CASE recv.head = NULL
  <2>1. cells' = cells /\ recv' = recv /\ ack' = -1
    BY <1>4 DEF ReceiveFindAck
  <2>2. Lists'
    BY <1>1, <2>1 DEF Lists
  <2>3. Entries(SeqsOn(cells, q), Len(q)) = {}
    BY <1>3, <1>4 DEF Entries
  <2>4. /\ SeqNumsOf(send)' = SeqNumsOf(send)
        /\ Range(SeqNumsOf(recv))' = {} /\ Range(SeqNumsOf(recv)) = {}
    BY <1>1, <1>3, <2>1, <2>3, Standing DEF Range
  <2>5. Windows!after_find_ack({}) = {} /\ Windows!find_ack({}) = -1
    BY DEF Windows!after_find_ack, Windows!find_ack
  <2> QED BY <2>1, <2>2, <2>4, <2>5 DEF Windows!ReceiveFindAck
<1>5. CASE recv.head # NULL
  <2>1. PICK result : /\ result = find_ack(cells, recv)
                      /\ cells' = result.cells /\ recv' = result.list
                      /\ ack' = result.cells[result.list.head].seq
    BY <1>5 DEF ReceiveFindAck
  <2>2. PICK r : /\ Leaves(cells, p, result, r)
                 /\ Ascends(SeqsOn(result.cells, r))
                 /\ Entries(SeqsOn(result.cells, r), Len(r))
                     = Windows!after_find_ack(Entries(SeqsOn(cells, q), Len(q)))
                 /\ result.cells[result.list.head].seq
                     = Windows!find_ack(Entries(SeqsOn(cells, q), Len(q)))
    BY <1>2, <1>3, <1>5, <2>1, FindAckKeeps
  <2>3. /\ Shape(cells', send', recv', p, r)
        /\ Range(SendWindowOf(cells', recv')) = Entries(SeqsOn(result.cells, r), Len(r))
        /\ SendWindowOf(cells', send') = SendWindowOf(cells, send)
    BY <1>1, <2>1, <2>2, ReceiveCall
  <2>4. /\ SeqNumsOf(send)' = SeqNumsOf(send)
        /\ Range(SeqNumsOf(recv))' = Windows!after_find_ack(Range(SeqNumsOf(recv)))
        /\ ack' = Windows!find_ack(Range(SeqNumsOf(recv)))
    <3>1. Range(SeqNumsOf(recv)) = Entries(SeqsOn(cells, q), Len(q))
      BY <1>3, Standing
    <3>2. Range(SeqNumsOf(recv))' = Entries(SeqsOn(result.cells, r), Len(r))
      BY <2>3, Standing DEF Range
    <3>3. SeqNumsOf(send)' = SeqNumsOf(send)
      BY <2>3, Standing
    <3> QED BY ONLY <2>1, <2>2, <3>1, <3>2, <3>3, Zenon
  <2>5. Lists'
    BY <2>3 DEF Lists
  <2> QED BY <2>4, <2>5 DEF Windows!ReceiveFindAck
<1> QED BY <1>4, <1>5

\* Every step keeps the lists in shape and is a step of the windows.
LEMMA ListStep ==
  ASSUME Lists, [Next]_vars
  PROVE  Lists' /\ [Windows!Next]_Windows!vars
<1>1. PICK p, q : Shape(cells, send, recv, p, q)
  BY DEF Lists
<1>2. CASE SendAppend
  BY <1>1, <1>2, SendAppendStep DEF Windows!Next
<1>3. CASE SendDestroyUpto
  BY <1>1, <1>3, SendDestroyUptoStep DEF Windows!Next
<1>4. CASE SendDestroy
  BY <1>1, <1>4, SendDestroyStep DEF Windows!Next
<1>5. CASE ReceiveInsert
  BY <1>1, <1>5, ReceiveInsertStep DEF Windows!Next
<1>6. CASE ReceiveFindAck
  BY <1>1, <1>6, ReceiveFindAckStep DEF Windows!Next
<1>7. CASE ReceiveDestroy
  BY <1>1, <1>7, ReceiveDestroyStep DEF Windows!Next
<1>8. CASE UNCHANGED vars
  <2>1. cells' = cells /\ send' = send /\ recv' = recv /\ ack' = ack
    BY <1>8 DEF vars
  <2>2. Lists'
    BY <1>1, <2>1 DEF Lists
  <2>3. SeqNumsOf(send)' = SeqNumsOf(send) /\ Range(SeqNumsOf(recv))' = Range(SeqNumsOf(recv))
    BY <2>1, Standing DEF Range
  <2> QED BY <2>1, <2>2, <2>3 DEF Windows!vars
<1> QED BY <1>2, <1>3, <1>4, <1>5, <1>6, <1>7, <1>8 DEF Next

LEMMA ListsHold == Spec => []Lists
<1>1. Init => Lists
  BY InitLists
<1>2. Lists /\ [Next]_vars => Lists'
  BY ListStep
<1> QED BY <1>1, <1>2, PTL DEF Spec

\* The linked lists of sliding_buffer.c implement the windows that the models of
\* the peers use in their place.
THEOREM ListsImplementWindows == Spec => ImplementsWindows
<1>1. Init => Windows!Init
  BY InitLists
<1>2. Lists /\ [Next]_vars => [Windows!Next]_Windows!vars
  BY ListStep
<1> QED BY <1>1, <1>2, ListsHold, PTL DEF Spec, ImplementsWindows, Windows!Spec

\* After every sequence of calls head, tail and count of both lists agree with
\* the cells on them, no cell is on both, and none is lost.
THEOREM ListsStaySound == Spec => []ListsAreSound
<1>1. Lists => ListsAreSound
  <2> SUFFICES ASSUME NEW p, NEW q, Shape(cells, send, recv, p, q) PROVE ListsAreSound
    BY DEF Lists
  <2>1. /\ HeapOK(cells) /\ TwoPaths(cells, p, q) /\ TwoPaths(cells, q, p)
        /\ send = ListOf(p) /\ recv = ListOf(q)
    BY PathsSwap DEF Shape
  <2>2. Path(cells, send) = p /\ Path(cells, recv) = q
    BY <2>1, HeadOf
  <2>3. Range(p) = In(p) /\ Range(q) = In(q)
    <3>1. DOMAIN p = 1..Len(p) /\ DOMAIN q = 1..Len(q)
      BY <2>1, HeadOf
    <3> QED BY <3>1 DEF Range, In
  <2>4. (p = << >> <=> Len(p) = 0) /\ (q = << >> <=> Len(q) = 0)
    <3>1. p \in Seq(DOMAIN cells) /\ q \in Seq(DOMAIN cells)
      BY <2>1 DEF TwoPaths, IsPath
    <3> QED BY <3>1, EmptySeq
  <2>5. SoundList(send) /\ SoundList(recv)
    BY <2>1, <2>2, <2>4 DEF SoundList, ListOf
  <2> QED BY <2>1, <2>2, <2>3, <2>5 DEF ListsAreSound, TwoPaths
<1> QED BY <1>1, ListsHold, PTL

\* The receive window ascends: insert_entry puts every packet in its place.
THEOREM ReceiveStaysAscending == Spec => []ReceiveAscends
<1>1. Lists => ReceiveAscends
  <2> SUFFICES ASSUME NEW p, NEW q, Shape(cells, send, recv, p, q) PROVE ReceiveAscends
    BY DEF Lists
  <2>1. HeapOK(cells) /\ TwoPaths(cells, q, p) /\ recv = ListOf(q) /\ Ascends(SeqsOn(cells, q))
    BY PathsSwap DEF Shape
  <2>2. SeqNumsOf(recv) = SeqsOn(cells, q)
    <3>1. Path(cells, recv) = q
      BY <2>1, HeadOf
    <3>2. DOMAIN q = 1..Len(q)
      BY <2>1, HeadOf
    <3> QED BY <3>1, <3>2 DEF SeqNumsOf, SeqsOn
  <2>3. DOMAIN SeqsOn(cells, q) = 1..Len(q)
    BY DEF SeqsOn
  <2>4. Len(SeqsOn(cells, q)) = Len(q)
    BY <2>1, SeqsAre
  <2> QED BY <2>1, <2>2, <2>3, <2>4 DEF ReceiveAscends, Ascends
<1> QED BY <1>1, ListsHold, PTL
=============================================================================
