--------------------------- MODULE OperatorProofs ---------------------------
(***************************************************************************)
(* What the operators return and preserve that the models of the peers are *)
(* built from: the sliding windows, the congestion controller, the queue   *)
(* of a link and the count of packets in one call of send_next_data.       *)
(***************************************************************************)
EXTENDS SendWindow, Hub, NumberProofs, SequenceTheorems

-----------------------------------------------------------------------------
(* The receive window.                                                     *)

\* find_ack returns the last number of a run of consecutive entries that
\* starts at the head of the list; that number is an entry.
LEMMA FindAck ==
  ASSUME NEW n \in Nat, NEW rb \in SUBSET (1..n), NEW h, IsHead(rb, h)
  PROVE  /\ find_ack(rb) \in rb /\ h <= find_ack(rb)
         /\ h..find_ack(rb) \subseteq rb
         /\ find_ack(rb) + 1 \notin rb
<1> DEFINE T == {a \in rb : h..a \subseteq rb}
<1>1. h \in rb /\ h \in 1..n /\ \A m \in rb : h <= m
  BY DEF IsHead
<1>2. h \in T /\ T \subseteq 0..n
  <2>1. h..h = {h}
    BY <1>1
  <2>2. h..h \subseteq rb
    BY <1>1, <2>1
  <2>3. \A m \in rb : m \in 0..n
    OBVIOUS
  <2> QED BY <1>1, <2>2, <2>3
<1>3. PICK a \in T : \A x \in T : x <= a
  <2> HIDE DEF T
  <2> QED BY <1>2, GreatestElement
<1>4. a + 1 \notin rb
  <2> SUFFICES ASSUME a + 1 \in rb PROVE FALSE
    OBVIOUS
  <2>1. a + 1 \in T
    BY <1>1
  <2> QED BY <2>1, <1>2, <1>3
<1> DEFINE Found(b) == /\ \E k \in rb : IsHead(rb, k) /\ k..b \subseteq rb
                       /\ b + 1 \notin rb
<1>5. a \in rb /\ Found(a)
  BY <1>1, <1>4
<1>6. find_ack(rb) = CHOOSE b \in rb : Found(b)
  BY <1>1 DEF find_ack
<1>7. find_ack(rb) \in rb /\ Found(find_ack(rb))
  <2> HIDE DEF Found
  <2> QED BY <1>5, <1>6
<1>8. \A k \in rb : IsHead(rb, k) => k = h
  BY <1>1 DEF IsHead
<1> QED BY <1>1, <1>7, <1>8

\* What find_ack leaves starts with the number it returned.
LEMMA AfterFindAck ==
  ASSUME NEW n \in Nat, NEW rb \in SUBSET (1..n), NEW h, IsHead(rb, h)
  PROVE  /\ after_find_ack(rb) \subseteq rb
         /\ IsHead(after_find_ack(rb), find_ack(rb))
         /\ \A m \in rb : m >= find_ack(rb) => m \in after_find_ack(rb)
<1>1. find_ack(rb) \in rb /\ find_ack(rb) \in Int /\ rb \subseteq Int
  <2>1. find_ack(rb) \in rb
    BY FindAck
  <2>2. \A m \in rb : m \in Int
    OBVIOUS
  <2> QED BY <2>1, <2>2
<1>2. find_ack(rb) >= find_ack(rb)
  BY <1>1
<1>3. \A m \in rb : m >= find_ack(rb) => find_ack(rb) <= m
  BY <1>1
<1> QED BY <1>1, <1>2, <1>3 DEF after_find_ack, IsHead

-----------------------------------------------------------------------------
(* The send window.                                                        *)

\* destroy_upto_ack frees a prefix of entries that are acked, up to the first one
\* that is not.
LEMMA FreedPrefix ==
  ASSUME NEW S, S \subseteq Nat, NEW sb \in Seq(S), NEW ack \in Nat
  PROVE  \E g \in 1..(Len(sb) + 1) :
           /\ destroy_upto_ack(sb, ack) = SubSeq(sb, g, Len(sb))
           /\ \A j \in 1..(g - 1) : sb[j] <= ack
           /\ g <= Len(sb) => sb[g] > ack
<1>0. /\ DOMAIN sb = 1..Len(sb) /\ Len(sb) \in Nat
      /\ \A k \in DOMAIN sb : sb[k] \in Nat
  BY LenProperties, ElementOfSeq
<1>1. CASE \A k \in DOMAIN sb : sb[k] <= ack
  <2> DEFINE g == Len(sb) + 1
  <2>1. destroy_upto_ack(sb, ack) = << >>
    BY <1>1 DEF destroy_upto_ack
  <2>2. SubSeq(sb, g, Len(sb)) = << >>
    BY <1>0, SubSeqEmpty
  <2>3. g \in 1..(Len(sb) + 1) /\ (\A j \in 1..(g - 1) : sb[j] <= ack) /\ ~(g <= Len(sb))
    BY <1>0, <1>1
  <2> QED BY <2>1, <2>2, <2>3
<1>2. CASE ~ \A k \in DOMAIN sb : sb[k] <= ack
  <2> DEFINE First(k) == ack < sb[k] /\ \A j \in 1..(k - 1) : sb[j] <= ack
             T == {k \in DOMAIN sb : ack < sb[k]}
  <2>1. T \subseteq Nat /\ T # {}
    BY <1>0, <1>2
  <2>2. PICK f \in T : \A x \in T : f <= x
    <3> HIDE DEF T
    <3> QED BY <2>1, LeastElement
  <2>3. f \in DOMAIN sb /\ First(f)
    <3>1. \A j \in 1..(f - 1) : j \in DOMAIN sb /\ sb[j] \in Nat /\ ~(f <= j)
      BY <1>0
    <3>2. \A j \in 1..(f - 1) : j \notin T
      BY <2>2, <3>1
    <3> QED BY <3>1, <3>2
  <2> DEFINE g == CHOOSE k \in DOMAIN sb : First(k)
  <2>4. g \in DOMAIN sb /\ First(g)
    <3> HIDE DEF First
    <3> QED BY <2>3
  <2>5. destroy_upto_ack(sb, ack) = SubSeq(sb, g, Len(sb))
    BY <1>2 DEF destroy_upto_ack
  <2> HIDE DEF g
  <2>6. g \in 1..(Len(sb) + 1) /\ ack < sb[g] /\ \A j \in 1..(g - 1) : sb[j] <= ack
    BY <1>0, <2>4
  <2>7. g <= Len(sb) => sb[g] > ack
    BY <1>0, <2>4
  <2> QED BY <2>5, <2>6, <2>7
<1> QED BY <1>1, <1>2

\* destroy_upto_ack returns a suffix: nothing when every entry is acked, and
\* otherwise the list from its first entry past the ack.
LEMMA DestroyUptoAck ==
  ASSUME NEW S, S \subseteq Nat, NEW sb \in Seq(S), NEW ack \in Nat,
         NEW rest, rest = destroy_upto_ack(sb, ack)
  PROVE  /\ rest \in Seq(S) /\ Len(rest) <= Len(sb)
         /\ rest = << >> => \A k \in DOMAIN sb : sb[k] <= ack
         /\ rest # << >> => /\ rest[1] > ack
                            /\ rest[Len(rest)] = sb[Len(sb)]
<1>1. DOMAIN sb = 1..Len(sb) /\ Len(sb) \in Nat
  BY LenProperties
<1>2. PICK g \in 1..(Len(sb) + 1) :
             /\ rest = SubSeq(sb, g, Len(sb))
             /\ \A j \in 1..(g - 1) : sb[j] <= ack
             /\ g <= Len(sb) => sb[g] > ack
  BY FreedPrefix
<1>3. /\ rest \in Seq(S)
      /\ Len(rest) = Len(sb) - g + 1
      /\ \A i \in 1..Len(rest) : rest[i] = sb[g + i - 1]
  <2>1. \A i \in g..Len(sb) : sb[i] \in S
    BY <1>1, ElementOfSeq
  <2> QED BY <1>1, <1>2, <2>1, SubSeqProperties
<1>4. CASE g = Len(sb) + 1
  <2>1. rest = << >>
    BY <1>1, <1>3, <1>4, EmptySeq
  <2> QED BY <1>1, <1>2, <1>3, <1>4, <2>1
<1>5. CASE g <= Len(sb)
  <2>1. rest # << >> /\ rest[1] = sb[g] /\ rest[Len(rest)] = sb[Len(sb)]
    BY <1>1, <1>3, <1>5
  <2> QED BY <1>1, <1>2, <1>3, <1>5, <2>1
<1> QED BY <1>1, <1>4, <1>5

-----------------------------------------------------------------------------
(* The congestion controller.                                              *)

\* A new request starts with an open window below the threshold.
LEMMA InitCongestion ==
  /\ init_congestion_state \in CongestionStates
  /\ CongestionOK(init_congestion_state)
BY MAXWINAssumption DEF init_congestion_state, CongestionStates, CongestionOK

\* slow_start keeps the controller within its bounds.
LEMMA SlowStartOK ==
  ASSUME NEW s \in CongestionStates, CongestionOK(s)
  PROVE  slow_start(s) \in CongestionStates /\ CongestionOK(slow_start(s))
BY MAXWINAssumption DEF slow_start, CongestionStates, CongestionOK, Least

\* mult_decrease keeps the controller within its bounds.
LEMMA MultDecreaseOK ==
  ASSUME NEW s \in CongestionStates, CongestionOK(s)
  PROVE  mult_decrease(s) \in CongestionStates /\ CongestionOK(mult_decrease(s))
BY MAXWINAssumption
DEF mult_decrease, CongestionStates, CongestionOK, Least, Greatest

\* add_increase keeps the controller within its bounds, after any number of
\* packets counted into the round.
LEMMA AddIncreaseOK ==
  ASSUME NEW s \in CongestionStates, CongestionOK(s), NEW n \in Nat,
         NEW t, t = add_increase([s EXCEPT !.curr_round = @ + n])
  PROVE  t \in CongestionStates /\ CongestionOK(t)
<1> DEFINE u == [s EXCEPT !.curr_round = @ + n]
<1>1. u \in CongestionStates /\ CongestionOK(u)
  BY DEF CongestionStates, CongestionOK
<1>2. t = add_increase(u)
  OBVIOUS
<1> HIDE DEF u
<1>3. CASE u.ca_state # "IN_CA" \/ u.curr_round # u.cwnd
  BY <1>1, <1>2, <1>3 DEF add_increase
<1>4. CASE u.ca_state = "IN_CA" /\ u.curr_round = u.cwnd
  BY <1>1, <1>2, <1>4, MAXWINAssumption
  DEF add_increase, CongestionStates, CongestionOK
<1> QED BY <1>3, <1>4

-----------------------------------------------------------------------------
(* The queue of a link.                                                    *)

\* Nothing appears on a queue when a packet leaves it.
LEMMA WithoutType ==
  ASSUME NEW S, NEW q \in Seq(S), NEW i \in DOMAIN q
  PROVE  Without(q, i) \in Seq(S)
<1>1. i \in 1..Len(q)
  OBVIOUS
<1>2. SubSeq(q, 1, i - 1) \in Seq(S) /\ SubSeq(q, i + 1, Len(q)) \in Seq(S)
  BY <1>1, SubSeqProperties, ElementOfSeq
<1> QED BY <1>2, ConcatProperties DEF Without

\* Nothing appears on a queue when a packet is delivered, once or twice.
LEMMA DeliveryType ==
  ASSUME NEW S, NEW q \in Seq(S), NEW i \in Deliverable(q),
         NEW r \in AfterDelivery(q, i)
  PROVE  r \in Seq(S) /\ q[i] \in S
<1>1. i \in DOMAIN q
  BY DEF Deliverable
<1> QED BY <1>1, WithoutType, ElementOfSeq DEF AfterDelivery

\* A queue to which packets are sent holds what it held and some of them.
LEMMA EnqueueType ==
  ASSUME NEW S, NEW q \in Seq(S), NEW ps \in Seq(S)
  PROVE  enQ(q, ps) \in Seq(S)
<1>1. q \o ps \in Seq(S) /\ Len(q \o ps) = Len(q) + Len(ps)
  BY ConcatProperties
<1>2. CASE Len(q) + Len(ps) <= QueueMax
  BY <1>1, <1>2 DEF enQ
<1>3. CASE ~(Len(q) + Len(ps) <= QueueMax)
  <2>1. \A i \in 1..QueueMax : (q \o ps)[i] \in S
    BY <1>1, <1>3, HubAssumption, ElementOfSeq
  <2> QED BY <1>3, <2>1, HubAssumption, SubSeqProperties DEF enQ
<1> QED BY <1>2, <1>3

\* Adding one packet to a well-typed channel leaves it well typed.
LEMMA TransmitType ==
  ASSUME NEW S, NEW q \in Seq(S), NEW ps \in Seq(S), NEW status
  PROVE  Transmit(q, status, ps) \in Seq(S)
BY EnqueueType DEF Transmit

\* The channel holding a single packet is well typed.
LEMMA SingletonType ==
  ASSUME NEW S, NEW p \in S
  PROVE  <<p>> \in Seq(S)
OBVIOUS

-----------------------------------------------------------------------------
(* send_next_data.                                                         *)

\* How many packets one call sends: they stay within the chunk and within the
\* window past the last ack, and none is sent only for one of three reasons.
LEMMA SendCountFact ==
  ASSUME FINALACK \in Nat,
         NEW cwnd \in Nat, NEW seqnum \in 1..(FINALACK + 1), NEW ack \in Nat,
         NEW entries \in Nat,
         NEW n, n = SendCount(cwnd, seqnum, ack, entries)
  PROVE  /\ n \in 0..FINALACK
         /\ n > 0 => /\ seqnum + n - 1 <= FINALACK
                     /\ seqnum + n - 1 <= ack + cwnd
         /\ n = 0 => \/ seqnum > FINALACK \/ seqnum > ack + cwnd
                     \/ entries = cwnd
<1> DEFINE Stops(m) == \/ seqnum + m > FINALACK
                       \/ seqnum + m > ack + cwnd
                       \/ entries + m = cwnd
           T == {m \in 0..FINALACK : Stops(m)}
           Good(m) == Stops(m) /\ \A k \in 0..(m - 1) : ~Stops(k)
<1>1. T \subseteq Nat /\ FINALACK \in T
  OBVIOUS
<1>2. PICK m \in T : \A k \in T : m <= k
  <2> HIDE DEF T
  <2> QED BY <1>1, LeastElement
<1>3. \A k \in 0..(m - 1) : k \in 0..FINALACK /\ ~(m <= k)
  BY <1>2
<1>4. \A k \in 0..(m - 1) : k \notin T
  BY <1>2, <1>3
<1>5. m \in 0..FINALACK /\ Good(m)
  BY <1>2, <1>3, <1>4
<1>6. n = CHOOSE k \in 0..FINALACK : Good(k)
  BY DEF SendCount
<1>7. n \in 0..FINALACK /\ Good(n)
  <2> HIDE DEF Good
  <2> QED BY <1>5, <1>6
<1>8. n > 0 => ~Stops(n - 1)
  BY <1>7
<1> QED BY <1>7, <1>8

\* Adding a set of packets to a well-typed channel leaves it well typed.
LEMMA BurstType ==
  ASSUME NEW seqnum \in Nat \ {0}, NEW n \in Nat, NEW S,
         \A i \in 1..n : seqnum + i - 1 \in S
  PROVE  /\ Burst(seqnum, n) \in Seq(S)
         /\ Len(Burst(seqnum, n)) = n
         /\ \A i \in 1..n : Burst(seqnum, n)[i] = seqnum + i - 1
BY DEF Burst
=============================================================================
