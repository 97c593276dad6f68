----------------------------- MODULE SwarmProofs -----------------------------
(***************************************************************************)
(* For any number of peers, whoever has and asks for which chunks and      *)
(* whatever the network does: every record, list and packet of the swarm   *)
(* keeps its type, the retransmission counters keep their limits, and the  *)
(* queue of WHOHAS packets has a head whenever a handler or the timeout    *)
(* loop looks at it.                                                       *)
(*                                                                         *)
(* The types are those of packets and records together: what a handler     *)
(* stores came in a packet, and what it sends comes from a record.  Two    *)
(* things have to be known besides.  The id of a chunk is looked up in the *)
(* request of the last command, so whoever is sent an IHAVE has asked: it  *)
(* follows from the WHOHAS, the pending IHAVE and the queue, down to the   *)
(* command.  And data packets are made of the chunk of a service, so a     *)
(* peer that is served has one.                                            *)
(*                                                                         *)
(* Then the flag of a service, which agrees with the records as long as no *)
(* timeout ends the service of one peer on account of another, and the     *)
(* window of a service.                                                    *)
(*                                                                         *)
(* The last section is about what is asked for: a chunk on the list of     *)
(* those fetched and fetching is asked of one peer, while that list lasts. *)
(***************************************************************************)
EXTENDS Swarm, OperatorProofs, FiniteSetTheorems

\* What a node sends and is sent when its user has given a > 0 commands.
WhohasPackets(a) == [type : {"WHOHAS"}, chunks : {cs \in Seq(Chunks) : a > 0}]
IhavePackets(a) == [type : {"IHAVE"}, chunks : {cs \in Seq(Chunks) : a > 0}]
GetPackets(a) == [type : {"GET"}, hash : {c \in Chunks : a > 0}]
DataPackets == [type : {"DATA"}, data : Chunks, seq_num : Blocks]
DataOf(c) == [type : {"DATA"}, data : {c}, seq_num : Blocks]
AckPackets == [type : {"ACK"}, ack_num : Blocks]

\* What may be on its way from a node with a commands to one with b.
Packets(a, b) == WhohasPackets(a) \cup IhavePackets(b) \cup GetPackets(a)
                   \cup {DENIED} \cup DataPackets \cup AckPackets

Listings(a) == [chunkhash : {c \in Chunks : a > 0}, chunk_id : Ids \cup {NotFound}]

\* What it may expect: the id of a chunk, once there was a command, or nothing.
Expected(a) == {i \in Ids \cup {NotFound} : a > 0} \cup {PSUEDO_INF}

\* The records a node with a commands may have of one with b.
Records(a, b) ==
  {r \in [num_chunks : Nat, chunks_fetched : Nat, hehas : Seq(Listings(a)),
          get_hash_id : Expected(a),
          send_hash_id : Chunks \cup {PSUEDO_INF},
          his_request : BOOLEAN, wild : BOOLEAN,
          last_ack : Nat, num_dupacks : Nat,
          whohas_list : Seq(WhohasPackets(a)), pending_whohas : BOOLEAN,
          pending_ihave : IhavePackets(b) \cup {NULL},
          pending_get : GetPackets(a) \cup {NULL},
          num_retransmits : 0..MAX_RETRANSMITS,
          num_data_retransmits : 0..MAX_DATA_RETRANSMIT,
          ack_timeout_counter : 0..MAX_DATA_RETRANSMIT,
          recv_buffer : SUBSET Blocks] :
     /\ r.pending_whohas => r.whohas_list # << >>
     /\ r.his_request => r.send_hash_id \in Chunks}

Mes(n) == [num_chunks : Nat, chunks_fetched : Int,
           fetching_or_fetched : SUBSET (Ids \cup {NotFound}),
           curr_to : OtherNodes(n) \cup {NULL}, his_request : BOOLEAN,
           last_seq : 0..FINALACK]

\* One f[n][p] for each two nodes.
ByPair(f) == DOMAIN f = Nodes /\ \A n \in Nodes : DOMAIN f[n] = OtherNodes(n)

AskedOK == /\ setup \in Setups
           /\ asked \in [Nodes -> Nat]
           /\ \A n \in Nodes : asked[n] <= Len(setup.requests[n])
MeOK == DOMAIN me = Nodes /\ \A n \in Nodes : me[n] \in Mes(n)
PeerOK ==
  ByPair(peer) /\ \A n \in Nodes : \A p \in OtherNodes(n) : peer[n][p] \in Records(asked[n], asked[p])
LinkOK ==
  ByPair(link) /\ \A n \in Nodes : \A p \in OtherNodes(n) : link[n][p] \in Seq(Packets(asked[n], asked[p]))
WindowOK ==
  /\ send_buffer \in [Nodes -> Seq(DataPackets)]
  /\ state \in [Nodes -> CongestionStates]
  /\ \A n \in Nodes : CongestionOK(state[n])
FileOK == file \in [Nodes -> [Places -> Chunks \cup {PSUEDO_INF}]]
StatusOK == status \in [Nodes -> {"up", "crashed", "segv"}]

\* The inductive invariant.
SwarmInv == AskedOK /\ MeOK /\ PeerOK /\ LinkOK /\ WindowOK /\ FileOK /\ StatusOK

-----------------------------------------------------------------------------
(* Requests and lists of chunks.                                           *)

\* What the user asks for next is a non-empty list of chunks, and its lines
\* are ids.
LEMMA RequestType ==
  ASSUME setup \in Setups, NEW n \in Nodes, NEW k \in 1..Len(setup.requests[n])
  PROVE  /\ setup.requests[n][k] \in Seq(Chunks) \ {<< >>}
         /\ \A i \in DOMAIN setup.requests[n][k] : i - 1 \in Ids
<1> DEFINE rq == setup.requests[n][k]
<1>1. rq \in Seq(Nat) \ {<< >>} /\ k \in DOMAIN setup.requests[n]
  BY SwarmAssumption
<1>2. rq \in AllRequests
  <2> DEFINE of(s, m) == {s.requests[m][j] : j \in DOMAIN s.requests[m]}
  <2>1. rq \in of(setup, n)
    BY <1>1
  <2>2. of(setup, n) \in {of(s, m) : s \in Setups, m \in Nodes}
    OBVIOUS
  <2>3. AllRequests = UNION {of(s, m) : s \in Setups, m \in Nodes}
    BY DEF AllRequests
  <2> HIDE DEF rq, of
  <2> QED BY <2>1, <2>2, <2>3
<1>3. \A i \in DOMAIN rq : rq[i] \in Chunks /\ i - 1 \in Ids
  <2> HIDE DEF rq
  <2> QED BY <1>2 DEF Chunks, Ids
<1> HIDE DEF rq
<1>4. rq \in Seq(Chunks)
  BY <1>1, <1>3
<1> QED BY <1>1, <1>3, <1>4 DEF rq

\* The line of a chunk in the request is an id, or it is not found.
LEMMA RequestLine ==
  ASSUME AskedOK, NEW n \in Nodes, asked[n] > 0, NEW hash
  PROVE  get_hash_id_request(n, hash) \in Ids \cup {NotFound}
<1> DEFINE rq == setup.requests[n][asked[n]]
           lines == {i \in DOMAIN rq : rq[i] = hash}
<1>1. rq \in Seq(Chunks) /\ \A i \in DOMAIN rq : i - 1 \in Ids
  <2>1. asked[n] \in 1..Len(setup.requests[n])
    BY SwarmAssumption DEF AskedOK
  <2> QED BY <2>1, RequestType DEF AskedOK
<1> HIDE DEF rq
<1>2. CASE lines = {}
  BY <1>2 DEF get_hash_id_request, rq
<1>3. CASE lines # {}
  <2>1. lines \subseteq Nat
    BY <1>1
  <2>2. PICK i \in lines : \A j \in lines : i <= j
    <3> HIDE DEF lines
    <3> QED BY <1>3, <2>1, LeastElement
  <2>3. (CHOOSE m \in lines : \A j \in lines : m <= j) \in lines
    <3> HIDE DEF lines
    <3> QED BY <2>2
  <2> DEFINE first == CHOOSE m \in lines : \A j \in lines : m <= j
  <2>4. get_hash_id_request(n, hash) = first - 1
    BY <1>3 DEF get_hash_id_request, rq
  <2> HIDE DEF first
  <2>5. first \in DOMAIN rq
    BY <2>3 DEF first
  <2> QED BY <1>1, <2>4, <2>5
<1> QED BY <1>2, <1>3

\* The packets a request is split into hold its chunks.
LEMMA SplitType ==
  ASSUME NEW a, a > 0, NEW rq \in Seq(Chunks)
  PROVE  Split(rq) \in Seq(WhohasPackets(a))
<1> DEFINE count == (Len(rq) + MAX_CHUNKS_PER_PACK - 1) \div MAX_CHUNKS_PER_PACK
           first(i) == (i - 1) * MAX_CHUNKS_PER_PACK + 1
           last(i) == Least(i * MAX_CHUNKS_PER_PACK, Len(rq))
<1>1. MAX_CHUNKS_PER_PACK \in Nat \ {0} /\ Len(rq) \in Nat
  BY SwarmAssumption, LenProperties
<1>2. count \in Nat
  <2> DEFINE d == Len(rq) + MAX_CHUNKS_PER_PACK - 1
  <2>1. d \in Nat
    BY <1>1
  <2> HIDE DEF d
  <2>2. d \div MAX_CHUNKS_PER_PACK \in Nat
    BY <1>1, <2>1
  <2> QED BY <2>2 DEF d
<1>3. ASSUME NEW i \in 1..count
      PROVE  SubSeq(rq, first(i), last(i)) \in Seq(Chunks)
  <2>1. i \in Nat /\ i >= 1
    BY <1>2
  <2>2. first(i) \in Int /\ first(i) >= 1
    <3>1. i - 1 \in Nat
      BY <2>1
    <3>2. (i - 1) * MAX_CHUNKS_PER_PACK \in Nat
      BY <1>1, <3>1
    <3> QED BY <3>2
  <2>3. last(i) \in Int /\ last(i) <= Len(rq)
    <3>1. i * MAX_CHUNKS_PER_PACK \in Nat
      BY <1>1, <2>1
    <3> QED BY <1>1, <3>1 DEF Least
  <2> HIDE DEF first, last
  <2>4. \A j \in first(i)..last(i) : rq[j] \in Chunks
    BY <1>1, <2>2, <2>3, ElementOfSeq
  <2> QED BY <2>2, <2>3, <2>4, SubSeqProperties
<1>4. Split(rq) = [i \in 1..count |-> WHOHAS(SubSeq(rq, first(i), last(i)))]
  BY DEF Split
<1> HIDE DEF count, first, last
<1> QED BY <1>2, <1>3, <1>4 DEF WHOHAS, WhohasPackets

\* The chunks of a WHOHAS that a node has are chunks.  Had is a recursive
\* function: there is one on each prefix of the list, since a least prefix without
\* one would have a shorter prefix with one.
LEMMA HadType ==
  ASSUME NEW n, NEW cs \in Seq(Chunks)
  PROVE  Had(n, cs) \in Seq(Chunks)
<1> DEFINE step(f, k) == IF k = 0 THEN << >>
                         ELSE IF cs[k] \in setup.local[n] THEN Append(f[k - 1], cs[k])
                         ELSE f[k - 1]
           Exists(m) == \E f : f = [k \in 0..m |-> step(f, k)]
           had[k \in 0..Len(cs)] ==
             IF k = 0 THEN << >>
             ELSE IF cs[k] \in setup.local[n] THEN Append(had[k - 1], cs[k])
             ELSE had[k - 1]
<1>1. Len(cs) \in Nat /\ \A k \in 1..Len(cs) : cs[k] \in Chunks
  BY LenProperties, ElementOfSeq
<1>2. Exists(0)
  <2> DEFINE f == [k \in 0..0 |-> << >>]
  <2>1. f = [k \in 0..0 |-> step(f, k)]
    OBVIOUS
  <2> QED BY <2>1
<1>3. ASSUME NEW m \in 1..Len(cs), Exists(m - 1)
      PROVE  Exists(m)
  <2>1. PICK f : f = [k \in 0..(m - 1) |-> step(f, k)]
    BY <1>3
  <2> DEFINE g == [k \in 0..m |-> IF k = m THEN step(f, m) ELSE f[k]]
  <2>2. ASSUME NEW k \in 0..m PROVE g[k] = step(g, k)
    <3>1. k # 0 => k - 1 \in 0..(m - 1) /\ k - 1 \in 0..m /\ k - 1 # m
      OBVIOUS
    <3>2. k # 0 => g[k - 1] = f[k - 1]
      BY <3>1
    <3>3. step(g, k) = step(f, k)
      BY <3>2
    <3>4. CASE k = m
      <4> HIDE DEF step
      <4> QED BY <3>3, <3>4
    <3>5. CASE k # m
      <4>1. k \in 0..(m - 1)
        BY <3>5
      <4> HIDE DEF step
      <4> QED BY <2>1, <3>3, <3>5, <4>1
    <3> QED BY <3>4, <3>5
  <2>3. g = [k \in 0..m |-> step(g, k)]
    <3> HIDE DEF step
    <3>1. [k \in 0..m |-> g[k]] = [k \in 0..m |-> step(g, k)]
      BY <2>2
    <3> QED BY <3>1
  <2> QED BY <2>3
<1>4. Exists(Len(cs))
  <2> HIDE DEF Exists
  <2> DEFINE Missing == {m \in 0..Len(cs) : ~Exists(m)}
  <2> SUFFICES ASSUME Missing # {} PROVE FALSE
    BY <1>1
  <2>1. Missing \subseteq Nat
    BY <1>1
  <2>2. PICK m \in Missing : \A k \in Missing : m <= k
    <3> HIDE DEF Missing
    <3> QED BY <2>1, LeastElement
  <2>3. m \in 1..Len(cs) /\ m - 1 \in 0..Len(cs) /\ ~(m <= m - 1)
    BY <1>1, <1>2, <2>2
  <2>4. Exists(m - 1)
    BY <2>2, <2>3
  <2> QED BY <1>3, <2>2, <2>3, <2>4
<1>5. had = CHOOSE f : f = [k \in 0..Len(cs) |-> step(f, k)]
  OBVIOUS
<1>6. had = [k \in 0..Len(cs) |-> step(had, k)]
  <2> HIDE DEF step, had
  <2> QED BY <1>4, <1>5
<1> HIDE DEF had
<1>7. had[Len(cs)] \in Seq(Chunks)
  <2> DEFINE Bad == {k \in 0..Len(cs) : had[k] \notin Seq(Chunks)}
  <2> SUFFICES ASSUME Bad # {} PROVE FALSE
    BY <1>1
  <2>1. Bad \subseteq Nat
    BY <1>1
  <2>2. PICK k \in Bad : \A j \in Bad : k <= j
    <3> HIDE DEF Bad
    <3> QED BY <2>1, LeastElement
  <2>3. k \in 0..Len(cs) /\ had[k] = step(had, k) /\ had[k] \notin Seq(Chunks)
    BY <1>6, <2>2
  <2>4. k # 0
    BY <2>3
  <2>5. k \in 1..Len(cs) /\ k - 1 \in 0..Len(cs) /\ ~(k <= k - 1)
    BY <1>1, <2>3, <2>4
  <2>6. had[k - 1] \in Seq(Chunks)
    BY <2>2, <2>5
  <2> QED BY <1>1, <2>3, <2>5, <2>6
<1> QED BY <1>7 DEF Had, had

-----------------------------------------------------------------------------
(* What the handlers make of a record.                                     *)

\* A fresh record, whatever malloc left in the fields that nothing sets.
LEMMA NewRecord ==
  ASSUME NEW a, NEW b, NEW old \in Leftovers
  PROVE  NewPeer(old) \in Records(a, b)
<1>1. /\ 0 \in 0..MAX_RETRANSMITS /\ 0 \in 0..MAX_DATA_RETRANSMIT
      /\ << >> \in Seq(Listings(a)) /\ << >> \in Seq(WhohasPackets(a))
      /\ {} \in SUBSET Blocks /\ PSUEDO_INF \in Expected(a)
  BY SwarmAssumption DEF Expected
<1>2. /\ old.num_chunks \in Nat /\ old.chunks_fetched \in Nat /\ old.wild \in BOOLEAN
      /\ old.last_ack \in Nat /\ old.num_dupacks \in Nat
  BY DEF Leftovers
<1> QED BY <1>1, <1>2 DEF NewPeer, Records

\* peer_total_cleanup leaves a record of the right type.
LEMMA CleanedUp ==
  ASSUME NEW a, NEW b, NEW r \in Records(a, b)
  PROVE  peer_total_cleanup(r) \in Records(a, b) /\ NewPeer(Cleared) \in Records(a, b)
<1>1. NewPeer(Cleared) \in Records(a, b)
  <2>1. Cleared \in Leftovers
    BY DEF Cleared, Leftovers
  <2> QED BY <2>1, NewRecord
<1>2. r.recv_buffer \in SUBSET Blocks
  BY DEF Records
<1> QED BY <1>1, <1>2 DEF peer_total_cleanup, Records

\* send_next_whohas makes the head of the queue pending, when there is one.
LEMMA NextWhohasType ==
  ASSUME NEW a, NEW b, NEW r \in Records(a, b)
  PROVE  /\ send_next_whohas(r) \in Records(a, b)
         /\ NextWhohas(r) \in Seq(WhohasPackets(a))
<1>1. CASE r.whohas_list = << >>
  BY <1>1 DEF send_next_whohas, NextWhohas, Records
<1>2. CASE r.whohas_list # << >>
  <2>1. Head(r.whohas_list) \in WhohasPackets(a)
    BY <1>2, HeadTailProperties DEF Records
  <2> QED BY <1>2, <2>1, SingletonType DEF send_next_whohas, NextWhohas, Records
<1> QED BY <1>1, <1>2

\* The packet that was answered was there, so the rest of the queue is a list.
LEMMA AnsweredType ==
  ASSUME NEW a, NEW b, NEW r \in Records(a, b)
  PROVE  Answered(r) \in Records(a, b)
<1>1. CASE r.pending_whohas
  <2>1. Tail(r.whohas_list) \in Seq(WhohasPackets(a))
    BY <1>1, HeadTailProperties DEF Records
  <2> QED BY <1>1, <2>1 DEF Answered, Records
<1>2. CASE ~r.pending_whohas
  BY <1>2 DEF Answered, Records
<1> QED BY <1>1, <1>2

\* The chunks get_next_chunk skips are some of the list, up to one that is not
\* fetched and not being fetched.
LEMMA SkippedType ==
  ASSUME NEW a, NEW cs \in Seq(Listings(a)), NEW fof
  PROVE  LET k == Skipped(cs, fof)
         IN  /\ k \in 0..Len(cs)
             /\ k < Len(cs) => cs[k + 1].chunk_id \notin fof
<1> DEFINE T == {k \in 0..Len(cs) : k < Len(cs) => cs[k + 1].chunk_id \notin fof}
           Good(k) == /\ \A i \in 1..k : cs[i].chunk_id \in fof
                      /\ k < Len(cs) => cs[k + 1].chunk_id \notin fof
<1>1. T \subseteq Nat /\ Len(cs) \in T
  BY LenProperties
<1>2. PICK k \in T : \A j \in T : k <= j
  <2> HIDE DEF T
  <2> QED BY <1>1, LeastElement
<1>3. ASSUME NEW i \in 1..k PROVE cs[i].chunk_id \in fof
  <2>1. i - 1 \in 0..Len(cs) /\ ~(k <= i - 1) /\ i - 1 + 1 = i /\ i - 1 < Len(cs)
    BY LenProperties
  <2>2. i - 1 \notin T
    BY <1>2, <2>1
  <2> QED BY <2>1, <2>2
<1>4. k \in 0..Len(cs) /\ Good(k)
  BY <1>3
<1>5. Skipped(cs, fof) \in 0..Len(cs) /\ Good(Skipped(cs, fof))
  <2>1. Skipped(cs, fof) = CHOOSE j \in 0..Len(cs) : Good(j)
    BY DEF Skipped
  <2> HIDE DEF Good
  <2> QED BY <1>4, <2>1
<1> QED BY <1>5

\* get_next_chunk asks for a chunk of the list, or for none.
LEMMA NextChunkType ==
  ASSUME NEW a, NEW b, NEW r \in Records(a, b),
         NEW fof \in SUBSET (Ids \cup {NotFound}),
         NEW next, next = get_next_chunk(r, fof)
  PROVE  /\ next.r \in Records(a, b)
         /\ next.fof \in SUBSET (Ids \cup {NotFound})
         /\ next.get \in Seq(GetPackets(a))
<1> DEFINE k == Skipped(r.hehas, fof)
           rest == SubSeq(r.hehas, k + 1, Len(r.hehas))
           left == [r EXCEPT !.hehas = rest, !.chunks_fetched = @ + k]
           c == Head(rest)
           asks == [left EXCEPT !.get_hash_id = c.chunk_id,
                                !.pending_get = GET(c.chunkhash)]
<1>1. r.hehas \in Seq(Listings(a)) /\ Len(r.hehas) \in Nat
  BY LenProperties DEF Records
<1>2. k \in Nat /\ k <= Len(r.hehas)
  BY <1>1, SkippedType
<1> HIDE DEF k
<1>3. rest \in Seq(Listings(a))
  <2>1. \A j \in (k + 1)..Len(r.hehas) : r.hehas[j] \in Listings(a)
    BY <1>1, <1>2, ElementOfSeq
  <2> QED BY <1>1, <1>2, <2>1, SubSeqProperties
<1> HIDE DEF rest
<1>4. left \in Records(a, b)
  <2>1. r.chunks_fetched + k \in Nat
    BY <1>2 DEF Records
  <2> QED BY <2>1, <1>3 DEF Records
<1>5. rest # << >> => /\ c \in Listings(a) /\ a > 0
                      /\ c.chunk_id \in Ids \cup {NotFound} /\ c.chunkhash \in Chunks
                      /\ c.chunk_id \in Expected(a)
  <2>1. rest # << >> => c \in Listings(a)
    BY <1>3, HeadTailProperties
  <2> QED BY <2>1 DEF Listings, Expected
<1> HIDE DEF left, c
<1>6. rest # << >> => GET(c.chunkhash) \in GetPackets(a)
  BY <1>5 DEF GET, GetPackets
<1>7. rest # << >> => asks \in Records(a, b)
  BY <1>4, <1>5, <1>6 DEF Records
<1> HIDE DEF asks
<1>9. rest # << >> => <<GET(c.chunkhash)>> \in Seq(GetPackets(a))
  BY <1>6, SingletonType
<1>10. << >> \in Seq(GetPackets(a))
  OBVIOUS
<1>11. rest # << >> => fof \cup {c.chunk_id} \in SUBSET (Ids \cup {NotFound})
  BY <1>5
<1>12. CASE r.num_chunks = r.chunks_fetched \/ r.hehas = << >>
  <2>1. next = [r |-> r, fof |-> fof, get |-> << >>]
    BY <1>12 DEF get_next_chunk
  <2> QED BY <1>10, <2>1
<1>13. CASE ~(r.num_chunks = r.chunks_fetched \/ r.hehas = << >>) /\ rest = << >>
  <2>1. next = [r |-> left, fof |-> fof, get |-> << >>]
    BY <1>13 DEF get_next_chunk, left, rest, k
  <2> QED BY <1>4, <1>10, <2>1
<1>14. CASE ~(r.num_chunks = r.chunks_fetched \/ r.hehas = << >>) /\ rest # << >>
  <2>1. next = [r |-> asks, fof |-> fof \cup {c.chunk_id}, get |-> <<GET(c.chunkhash)>>]
    BY <1>14 DEF get_next_chunk, asks, c, left, rest, k
  <2> QED BY <1>7, <1>9, <1>11, <1>14, <2>1
<1> QED BY <1>12, <1>13, <1>14

\* The chunks of an IHAVE become a list whose head is expected.
LEMMA ListedType ==
  ASSUME NEW a, NEW b, NEW r \in Records(a, b), NEW cs \in Seq(Listings(a)), cs # << >>
  PROVE  Listed(r, cs) \in Records(a, b)
<1> DEFINE list == (IF r.hehas = << >> THEN << >> ELSE <<Head(r.hehas)>>) \o cs
<1>1. r.hehas \in Seq(Listings(a))
  BY DEF Records
<1>2. (IF r.hehas = << >> THEN << >> ELSE <<Head(r.hehas)>>) \in Seq(Listings(a))
  <2>1. r.hehas # << >> => <<Head(r.hehas)>> \in Seq(Listings(a))
    BY <1>1, HeadTailProperties, SingletonType
  <2> QED BY <2>1
<1>3. list \in Seq(Listings(a)) /\ list # << >>
  <2>1. Len(cs) > 0 /\ Len(cs) \in Nat
    BY EmptySeq, LenProperties
  <2> QED BY <1>2, <2>1, ConcatProperties, LenProperties
<1>4. Head(list) \in Listings(a)
  BY <1>3, HeadTailProperties
<1>5. Head(list).chunk_id \in Expected(a)
  BY <1>4 DEF Listings, Expected
<1>6. Len(cs) \in Nat
  BY LenProperties
<1>7. Listed(r, cs) = [r EXCEPT !.hehas = list, !.num_chunks = Len(cs),
                                !.get_hash_id = Head(list).chunk_id]
  BY DEF Listed
<1> HIDE DEF list
<1> QED BY <1>3, <1>5, <1>6, <1>7 DEF Records

\* The chunks of an IHAVE with their lines are a list of a record.
LEMMA IhaveListing ==
  ASSUME AskedOK, NEW n \in Nodes, NEW pk \in IhavePackets(asked[n])
  PROVE  [i \in DOMAIN pk.chunks |->
            [chunkhash |-> pk.chunks[i],
             chunk_id |-> get_hash_id_request(n, pk.chunks[i])]] \in Seq(Listings(asked[n]))
<1>1. pk.chunks \in Seq(Chunks) /\ asked[n] > 0
  BY DEF IhavePackets
<1>2. \A i \in DOMAIN pk.chunks :
        /\ pk.chunks[i] \in Chunks
        /\ get_hash_id_request(n, pk.chunks[i]) \in Ids \cup {NotFound}
  BY <1>1, ElementOfSeq, LenProperties, RequestLine
<1>3. DOMAIN pk.chunks = 1..Len(pk.chunks) /\ Len(pk.chunks) \in Nat
  BY <1>1, LenProperties
<1> QED BY <1>1, <1>2, <1>3 DEF Listings

\* The ack of a data packet is a block, and the receive window stays within the
\* chunk.
LEMMA InsertedType ==
  ASSUME NEW a, NEW b, NEW r \in Records(a, b), NEW pk \in DataPackets
  PROVE  /\ AckOf(r, pk) \in Blocks
         /\ Inserted(r, pk) \in Records(a, b)
<1> DEFINE rb == insert_entry(r.recv_buffer, pk.seq_num)
<1>1. r.recv_buffer \in SUBSET Blocks /\ pk.seq_num \in Blocks
  BY DEF Records, DataPackets
<1>2. rb \in SUBSET Blocks /\ rb # {}
  BY <1>1 DEF insert_entry
<1> HIDE DEF rb
<1>3. FINALACK \in Nat /\ rb \in SUBSET (1..FINALACK) /\ rb \subseteq Nat
  BY <1>2, SwarmAssumption DEF Blocks
<1>4. PICK h \in rb : \A m \in rb : h <= m
  BY <1>2, <1>3, LeastElement
<1>5. IsHead(rb, h)
  BY <1>4 DEF IsHead
<1>6. find_ack(rb) \in rb /\ after_find_ack(rb) \subseteq rb
  BY <1>3, <1>5, FindAck, AfterFindAck
<1>7. AckOf(r, pk) \in Blocks
  BY <1>2, <1>6 DEF AckOf, rb
<1>8. after_find_ack(rb) \in SUBSET Blocks
  BY <1>2, <1>6
<1>9. Inserted(r, pk) = [r EXCEPT !.ack_timeout_counter = 0, !.pending_get = NULL,
                                  !.recv_buffer = after_find_ack(rb)]
  BY DEF Inserted, rb
<1>10. 0 \in 0..MAX_DATA_RETRANSMIT
  BY SwarmAssumption
<1> HIDE DEF rb
<1>11. Inserted(r, pk) \in Records(a, b)
  <2> DEFINE w == after_find_ack(rb)
  <2>1. w \in SUBSET Blocks /\ Inserted(r, pk) =
          [r EXCEPT !.ack_timeout_counter = 0, !.pending_get = NULL, !.recv_buffer = w]
    BY <1>8, <1>9
  <2> HIDE DEF w
  <2>2. [r EXCEPT !.ack_timeout_counter = 0] \in Records(a, b)
    BY <1>10 DEF Records
  <2>3. ASSUME NEW q \in Records(a, b)
        PROVE  [q EXCEPT !.pending_get = NULL, !.recv_buffer = w] \in Records(a, b)
    BY <2>1 DEF Records
  <2> QED BY <2>1, <2>2, <2>3
<1> QED BY <1>7, <1>11

\* After a chunk a record goes on with its next chunk or its next WHOHAS.
LEMMA AfterChunkType ==
  ASSUME NEW a, NEW b, NEW r \in Records(a, b),
         NEW fof \in SUBSET (Ids \cup {NotFound}),
         NEW next, next = AfterChunk(post_receive_cleanup(r), fof)
  PROVE  /\ next.r \in Records(a, b)
         /\ next.fof \in SUBSET (Ids \cup {NotFound})
         /\ next.get \in Seq(GetPackets(a)) \cup Seq(WhohasPackets(a))
<1> DEFINE c == post_receive_cleanup(r)
           done == [c EXCEPT !.num_chunks = 0, !.chunks_fetched = 0, !.hehas = << >>]
           rest == IF r.hehas = << >> THEN r.hehas ELSE Tail(r.hehas)
<1>1. rest \in Seq(Listings(a))
  BY HeadTailProperties DEF Records
<1>2. c = [r EXCEPT !.hehas = rest, !.chunks_fetched = @ + 1,
                    !.get_hash_id = PSUEDO_INF, !.recv_buffer = {}]
  BY DEF post_receive_cleanup
<1> HIDE DEF rest
<1>3. r.chunks_fetched + 1 \in Nat /\ {} \in SUBSET Blocks /\ << >> \in Seq(Listings(a))
      /\ PSUEDO_INF \in Expected(a)
  BY DEF Records, Expected
<1> HIDE DEF c
<1>4. c \in Records(a, b)
  BY <1>1, <1>2, <1>3 DEF Records
<1>5. done \in Records(a, b)
  BY <1>3, <1>4 DEF Records
<1> HIDE DEF done
<1>6. CASE c.chunks_fetched < c.num_chunks
  <2>1. next = get_next_chunk(c, fof)
    BY <1>6 DEF AfterChunk, c
  <2> QED BY <1>4, <2>1, NextChunkType
<1>7. CASE ~(c.chunks_fetched < c.num_chunks)
  <2>1. next = [r |-> send_next_whohas(done), fof |-> fof, get |-> NextWhohas(done)]
    BY <1>7 DEF AfterChunk, c, done
  <2>2. send_next_whohas(done) \in Records(a, b) /\ NextWhohas(done) \in Seq(WhohasPackets(a))
    BY <1>5, NextWhohasType
  <2> QED BY <2>1, <2>2
<1> QED BY <1>6, <1>7

\* An ack is counted in the record of whoever is served.
LEMMA CountAckType ==
  ASSUME NEW a, NEW b, NEW r \in Records(a, b), NEW ack \in Blocks
  PROVE  CountAck(r, ack) \in Records(a, b)
<1>1. ack \in Nat /\ r.last_ack \in Nat /\ r.num_dupacks \in Nat
  BY DEF Records, Blocks
<1>2. Greatest(r.last_ack, ack) \in Nat
  BY <1>1 DEF Greatest
<1> DEFINE dupacks == IF ack = r.last_ack THEN r.num_dupacks + 1
                      ELSE IF ack < r.last_ack THEN r.num_dupacks ELSE 1
<1>3. dupacks \in Nat
  BY <1>1
<1>4. 0 \in 0..MAX_DATA_RETRANSMIT
  BY SwarmAssumption
<1>5. CountAck(r, ack) = [r EXCEPT !.num_data_retransmits = 0,
                           !.last_ack = Greatest(r.last_ack, ack), !.num_dupacks = dupacks]
  BY DEF CountAck
<1> DEFINE largest == Greatest(r.last_ack, ack)
<1>6. largest \in Nat
  BY <1>2
<1> HIDE DEF dupacks, largest
<1>7. [r EXCEPT !.num_data_retransmits = 0, !.last_ack = largest, !.num_dupacks = dupacks]
        \in Records(a, b)
  BY <1>3, <1>4, <1>6 DEF Records
<1> QED BY <1>5, <1>7 DEF largest

\* The packets that are not data are repeated as they were sent.
LEMMA PendingType ==
  ASSUME NEW a, NEW b, NEW r \in Records(a, b)
  PROVE  /\ Pending(r) \in Seq(WhohasPackets(a)) \cup Seq(IhavePackets(b)) \cup Seq(GetPackets(a))
         /\ Len(Pending(r)) \in 0..1
<1>1. CASE r.pending_whohas
  <2>1. Head(r.whohas_list) \in WhohasPackets(a)
    BY <1>1, HeadTailProperties DEF Records
  <2> QED BY <1>1, <2>1, SingletonType DEF Pending
<1>2. CASE ~r.pending_whohas
  BY <1>2, SingletonType DEF Pending, Records
<1> QED BY <1>1, <1>2

\* What the other handlers write into a record keeps its type.
LEMMA FieldsType ==
  ASSUME NEW a, NEW b, NEW r \in Records(a, b)
  PROVE  /\ \A x \in IhavePackets(b) : [r EXCEPT !.pending_ihave = x] \in Records(a, b)
         /\ \A c \in Chunks : [r EXCEPT !.pending_ihave = NULL, !.his_request = TRUE,
                                        !.send_hash_id = c] \in Records(a, b)
         /\ [r EXCEPT !.ack_timeout_counter = 0] \in Records(a, b)
         /\ \A k \in 0..MAX_DATA_RETRANSMIT :
              [r EXCEPT !.num_data_retransmits = k] \in Records(a, b)
         /\ [r EXCEPT !.num_dupacks = 1] \in Records(a, b)
         /\ post_send_cleanup(r) \in Records(a, b)
         /\ Refused(r) \in Records(a, b)
         /\ \A k \in 0..MAX_RETRANSMITS, l \in 0..MAX_DATA_RETRANSMIT :
              [r EXCEPT !.num_retransmits = k, !.ack_timeout_counter = l] \in Records(a, b)
<1>1. \A x \in IhavePackets(b) : [r EXCEPT !.pending_ihave = x] \in Records(a, b)
  BY DEF Records
<1>2. \A c \in Chunks : [r EXCEPT !.pending_ihave = NULL, !.his_request = TRUE,
                                  !.send_hash_id = c] \in Records(a, b)
  BY DEF Records
<1>3. [r EXCEPT !.ack_timeout_counter = 0] \in Records(a, b)
  <2>1. 0 \in 0..MAX_DATA_RETRANSMIT
    BY SwarmAssumption
  <2> QED BY <2>1 DEF Records
<1>4. \A k \in 0..MAX_DATA_RETRANSMIT : [r EXCEPT !.num_data_retransmits = k] \in Records(a, b)
  BY DEF Records
<1>5. [r EXCEPT !.num_dupacks = 1] \in Records(a, b)
  BY DEF Records
<1>6. post_send_cleanup(r) \in Records(a, b)
  BY DEF post_send_cleanup, Records
<1>7. Refused(r) \in Records(a, b)
  <2>1. << >> \in Seq(WhohasPackets(a))
    OBVIOUS
  <2> QED BY <2>1 DEF Refused, Records
<1>8. \A k \in 0..MAX_RETRANSMITS, l \in 0..MAX_DATA_RETRANSMIT :
        [r EXCEPT !.num_retransmits = k, !.ack_timeout_counter = l] \in Records(a, b)
  BY DEF Records
<1> QED BY <1>1, <1>2, <1>3, <1>4, <1>5, <1>6, <1>7, <1>8

-----------------------------------------------------------------------------
(* The send window and the packets of send_next_data.                      *)

\* What is left of the window after an ack are packets that were in it.
LEMMA UnackedType ==
  ASSUME NEW S \in SUBSET DataPackets, NEW sb \in Seq(S), NEW ack \in Nat
  PROVE  Unacked(sb, ack) \in Seq(S)
<1>1. DOMAIN sb = 1..Len(sb) /\ Len(sb) \in Nat
  BY LenProperties
<1>2. Numbers(sb) \in Seq(Blocks) /\ Len(Numbers(sb)) = Len(sb)
  <2>1. \A i \in 1..Len(sb) : sb[i].seq_num \in Blocks
    <3>1. \A i \in 1..Len(sb) : sb[i] \in S
      BY <1>1, ElementOfSeq
    <3> QED BY <3>1 DEF DataPackets
  <2> QED BY <1>1, <2>1 DEF Numbers
<1> DEFINE rest == destroy_upto_ack(Numbers(sb), ack)
<1>3. rest \in Seq(Blocks) /\ Len(rest) <= Len(sb)
  <2>1. Blocks \subseteq Nat
    BY DEF Blocks
  <2> QED BY <1>2, <2>1, DestroyUptoAck
<1> HIDE DEF rest
<1>4. Len(rest) \in Nat
  BY <1>3, LenProperties
<1>5. \A i \in (Len(sb) - Len(rest) + 1)..Len(sb) : sb[i] \in S
  BY <1>1, <1>3, <1>4, ElementOfSeq
<1> QED BY <1>1, <1>3, <1>4, <1>5, SubSeqProperties DEF Unacked, rest

\* send_next_data sends packets of the chunk that is served, numbered within it.
LEMMA NextDataOfChunk ==
  ASSUME NEW r, r.last_ack \in Nat,
         NEW cc \in CongestionStates, NEW seqnum \in 1..(FINALACK + 1),
         NEW sb \in Seq(DataPackets)
  PROVE  NextData(r, cc, seqnum, sb) \in Seq(DataOf(r.send_hash_id))
<1> DEFINE count == SendCount(cc.cwnd, seqnum, r.last_ack, Len(sb))
<1>0. FINALACK \in Nat /\ cc.cwnd \in Nat /\ Len(sb) \in Nat
  BY SwarmAssumption, LenProperties DEF CongestionStates
<1>1. /\ count \in 0..FINALACK
      /\ count > 0 => seqnum + count - 1 <= FINALACK
  BY <1>0, SendCountFact
<1> HIDE DEF count
<1>2. \A i \in 1..count : seqnum + i - 1 \in Blocks
  BY <1>0, <1>1 DEF Blocks
<1>3. /\ Burst(seqnum, count) \in Seq(Blocks)
  <2>1. seqnum \in Nat \ {0} /\ count \in Nat
    BY <1>0, <1>1
  <2> QED BY <1>2, <2>1, BurstType
<1> DEFINE burst == Burst(seqnum, count)
           data == [i \in DOMAIN burst |-> DATA(r.send_hash_id, burst[i])]
<1>4. data \in Seq(DataOf(r.send_hash_id))
  <2> HIDE DEF burst
  <2>1. DOMAIN burst = 1..Len(burst) /\ Len(burst) \in Nat
    BY <1>3, LenProperties DEF burst
  <2>2. \A i \in 1..Len(burst) : DATA(r.send_hash_id, burst[i]) \in DataOf(r.send_hash_id)
    BY <1>3, <2>1, ElementOfSeq DEF DATA, DataOf, burst
  <2> QED BY <2>1, <2>2
<1>5. NextData(r, cc, seqnum, sb) = << >> \/ NextData(r, cc, seqnum, sb) = data
  BY DEF NextData, count
<1> HIDE DEF data
<1>6. << >> \in Seq(DataOf(r.send_hash_id))
  OBVIOUS
<1> QED BY <1>4, <1>5, <1>6

LEMMA NextDataType ==
  ASSUME NEW r, r.send_hash_id \in Chunks, r.last_ack \in Nat,
         NEW cc \in CongestionStates, NEW seqnum \in 1..(FINALACK + 1),
         NEW sb \in Seq(DataPackets)
  PROVE  NextData(r, cc, seqnum, sb) \in Seq(DataPackets)
<1>1. DataOf(r.send_hash_id) \subseteq DataPackets
  BY DEF DataOf, DataPackets
<1> QED BY <1>1, NextDataOfChunk, ElementOfSeq

\* send_next_data leaves the windows and the congestion controllers well typed.
LEMMA SendNextType ==
  ASSUME WindowOK, MeOK, NEW n \in Nodes,
         NEW r, r.send_hash_id \in Chunks, r.last_ack \in Nat,
         NEW cc \in CongestionStates, CongestionOK(cc),
         NEW seqnum \in 1..(FINALACK + 1), NEW sb \in Seq(DataPackets),
         send_next_data(n, r, cc, seqnum, sb)
  PROVE  /\ WindowOK'
         /\ LastSeq(n, NextData(r, cc, seqnum, sb)) \in 0..FINALACK
<1> DEFINE data == NextData(r, cc, seqnum, sb)
           next == add_increase([cc EXCEPT !.curr_round = @ + Len(data)])
<1>1. data \in Seq(DataPackets)
  BY NextDataType
<1>2. Len(data) \in Nat
  BY <1>1, LenProperties
<1>3. /\ send_buffer' = [send_buffer EXCEPT ![n] = sb \o data]
      /\ state' = [state EXCEPT ![n] = IF seqnum > r.last_ack + cc.cwnd THEN cc ELSE next]
  BY DEF send_next_data
<1>4. sb \o data \in Seq(DataPackets)
  <2> HIDE DEF data
  <2> QED BY <1>1, ConcatProperties
<1>5. LastSeq(n, data) \in 0..FINALACK
  <2> HIDE DEF data
  <2>1. CASE data = << >>
    BY <2>1 DEF LastSeq, MeOK, Mes
  <2>2. CASE data # << >>
    <3>1. Len(data) \in 1..Len(data)
      BY <1>1, <1>2, <2>2, EmptySeq
    <3>2. data[Len(data)] \in DataPackets
      BY <1>1, <3>1, ElementOfSeq
    <3>3. data[Len(data)].seq_num \in 0..FINALACK
      BY <3>2 DEF DataPackets, Blocks
    <3> QED BY <2>2, <3>3 DEF LastSeq
  <2> QED BY <2>1, <2>2
<1> HIDE DEF data
<1>6. next \in CongestionStates /\ CongestionOK(next)
  BY <1>2, AddIncreaseOK
<1> HIDE DEF next
<1>7. WindowOK'
  BY <1>3, <1>4, <1>6 DEF WindowOK
<1> QED BY <1>5, <1>7 DEF data

-----------------------------------------------------------------------------
(* What is on the links.                                                   *)

\* A packet that was allowed on a link, or in a record, stays so when another
\* command is given.
LEMMA PacketsGrow ==
  ASSUME NEW a \in Nat, NEW b \in Nat, NEW c \in Nat, NEW d \in Nat, a <= c, b <= d
  PROVE  Packets(a, b) \subseteq Packets(c, d) /\ Records(a, b) \subseteq Records(c, d)
<1>1. /\ WhohasPackets(a) \subseteq WhohasPackets(c)
      /\ IhavePackets(b) \subseteq IhavePackets(d)
      /\ GetPackets(a) \subseteq GetPackets(c)
      /\ Listings(a) \subseteq Listings(c) /\ Expected(a) \subseteq Expected(c)
  BY DEF WhohasPackets, IhavePackets, GetPackets, Listings, Expected
<1>2. Packets(a, b) \subseteq Packets(c, d)
  BY <1>1 DEF Packets
<1>3. ASSUME NEW r \in Records(a, b) PROVE r \in Records(c, d)
  <2>1. /\ Seq(WhohasPackets(a)) \subseteq Seq(WhohasPackets(c))
        /\ Seq(Listings(a)) \subseteq Seq(Listings(c))
    BY <1>1, ElementOfSeq
  <2>2. /\ r.whohas_list \in Seq(WhohasPackets(c)) /\ r.pending_ihave \in IhavePackets(d) \cup {NULL}
        /\ r.hehas \in Seq(Listings(c)) /\ r.get_hash_id \in Expected(c)
        /\ r.pending_get \in GetPackets(c) \cup {NULL}
    BY <1>1, <2>1 DEF Records
  <2> QED BY <2>2 DEF Records
<1> QED BY <1>2, <1>3

\* The packet a node receives was allowed on the link, and the links stay well
\* typed if its answer is.
LEMMA ReceivesType ==
  ASSUME LinkOK, UNCHANGED asked, NEW n \in Nodes, NEW p \in OtherNodes(n),
         NEW pk, NEW ps \in Seq(Packets(asked[n], asked[p])), Receives(n, p, pk, ps)
  PROVE  LinkOK'
<1>1. p \in Nodes /\ n \in OtherNodes(p)
  BY DEF OtherNodes
<1>2. PICK i \in Deliverable(link[p][n]) :
        \E q \in AfterDelivery(link[p][n], i) :
           link' = [link EXCEPT ![p][n] = q, ![n][p] = Transmit(@, status[p], ps)]
  BY DEF Receives
<1>3. PICK q \in AfterDelivery(link[p][n], i) :
        link' = [link EXCEPT ![p][n] = q, ![n][p] = Transmit(@, status[p], ps)]
  BY <1>2
<1>4. q \in Seq(Packets(asked[p], asked[n]))
  BY <1>1, DeliveryType DEF LinkOK
<1> DEFINE t == Transmit(link[n][p], status[p], ps)
<1>5. t \in Seq(Packets(asked[n], asked[p]))
  BY TransmitType DEF LinkOK
<1>6. n # p
  BY DEF OtherNodes
<1>7. link' = [link EXCEPT ![p][n] = q, ![n][p] = t]
  BY <1>1, <1>3, <1>6 DEF LinkOK, ByPair
<1> HIDE DEF t
<1> QED BY <1>1, <1>4, <1>5, <1>6, <1>7 DEF LinkOK, ByPair

\* A packet on its way is allowed on its link.
LEMMA ArrivingType ==
  ASSUME LinkOK, NEW n \in Nodes, NEW p \in OtherNodes(n), NEW type,
         NEW pk \in Arriving(n, p, type)
  PROVE  pk \in Packets(asked[p], asked[n]) /\ pk.type = type
<1>1. p \in Nodes /\ n \in OtherNodes(p)
  BY DEF OtherNodes
<1>2. link[p][n] \in Seq(Packets(asked[p], asked[n]))
  BY <1>1 DEF LinkOK
<1>3. PICK i \in DOMAIN link[p][n] : pk = link[p][n][i]
  BY DEF Arriving
<1>4. pk \in Packets(asked[p], asked[n])
  BY <1>2, <1>3, ElementOfSeq, LenProperties
<1> QED BY <1>4 DEF Arriving

\* The type of a packet says which it is.
LEMMA PacketTypes ==
  ASSUME NEW a, NEW b, NEW pk \in Packets(a, b)
  PROVE  /\ pk.type = "WHOHAS" => pk \in WhohasPackets(a)
         /\ pk.type = "IHAVE" => pk \in IhavePackets(b)
         /\ pk.type = "GET" => pk \in GetPackets(a)
         /\ pk.type = "DATA" => pk \in DataPackets
         /\ pk.type = "ACK" => pk \in AckPackets
BY DEF Packets, WhohasPackets, IhavePackets, GetPackets, DENIED, DataPackets, AckPackets

\* Sending leaves the links well typed.
LEMMA SendType ==
  ASSUME LinkOK, UNCHANGED asked, NEW n \in Nodes, NEW p \in OtherNodes(n),
         NEW ps \in Seq(Packets(asked[n], asked[p])), Send(n, p, ps)
  PROVE  LinkOK'
<1> DEFINE t == Transmit(link[n][p], status[p], ps)
<1>1. t \in Seq(Packets(asked[n], asked[p]))
  BY TransmitType DEF LinkOK
<1>2. link' = [link EXCEPT ![n][p] = t]
  BY DEF Send
<1> HIDE DEF t
<1> QED BY <1>1, <1>2 DEF LinkOK, ByPair

\* Adding packets of one kind to a link is sending packets.
LEMMA KindsArePackets ==
  ASSUME NEW a, NEW b, NEW ps,
         \/ ps \in Seq(WhohasPackets(a)) \/ ps \in Seq(IhavePackets(b))
         \/ ps \in Seq(GetPackets(a)) \/ ps \in Seq(DataPackets) \/ ps \in Seq(AckPackets)
  PROVE  ps \in Seq(Packets(a, b))
<1>1. /\ WhohasPackets(a) \subseteq Packets(a, b) /\ IhavePackets(b) \subseteq Packets(a, b)
      /\ GetPackets(a) \subseteq Packets(a, b) /\ DataPackets \subseteq Packets(a, b)
      /\ AckPackets \subseteq Packets(a, b)
  BY DEF Packets
<1>2. ASSUME NEW S, S \subseteq Packets(a, b), ps \in Seq(S)
      PROVE  ps \in Seq(Packets(a, b))
  BY <1>2, ElementOfSeq
<1> QED BY <1>1, <1>2

-----------------------------------------------------------------------------
(* The invariant, handler by handler.                                      *)

\* While no command is given, a record of the right type may replace another.
LEMMA RecordReplaced ==
  ASSUME PeerOK, UNCHANGED asked, NEW n \in Nodes, NEW p \in OtherNodes(n),
         NEW r \in Records(asked[n], asked[p]), peer' = [peer EXCEPT ![n][p] = r]
  PROVE  PeerOK'
BY DEF PeerOK, ByPair

\* So may what a node knows of itself.
LEMMA MeReplaced ==
  ASSUME MeOK, NEW n \in Nodes, NEW m \in Mes(n), me' = [me EXCEPT ![n] = m]
  PROVE  MeOK'
BY DEF MeOK

\* It may count chunks and list them.
LEMMA CountsType ==
  ASSUME NEW n, NEW m \in Mes(n), NEW k \in Nat, NEW l \in Int
  PROVE  [m EXCEPT !.num_chunks = k, !.chunks_fetched = l] \in Mes(n)
BY DEF Mes

LEMMA ListType ==
  ASSUME NEW n, NEW m \in Mes(n), NEW fof \in SUBSET (Ids \cup {NotFound})
  PROVE  [m EXCEPT !.fetching_or_fetched = fof] \in Mes(n)
BY DEF Mes

LEMMA NotServingType ==
  ASSUME MeOK, NEW n \in Nodes,
         me' = [me EXCEPT ![n].curr_to = NULL, ![n].his_request = FALSE]
  PROVE  MeOK'
<1>1. ASSUME NEW m \in Mes(n)
      PROVE  [m EXCEPT !.curr_to = NULL, !.his_request = FALSE] \in Mes(n)
  BY DEF Mes
<1>2. [me[n] EXCEPT !.curr_to = NULL, !.his_request = FALSE] \in Mes(n)
  BY <1>1 DEF MeOK
<1> QED BY <1>2, MeReplaced

LEMMA ServiceType ==
  ASSUME NEW n, NEW m \in Mes(n), NEW p \in OtherNodes(n) \cup {NULL},
         NEW h \in BOOLEAN, NEW l \in 0..FINALACK
  PROVE  /\ [m EXCEPT !.curr_to = p] \in Mes(n)
         /\ [m EXCEPT !.curr_to = p, !.his_request = h] \in Mes(n)
         /\ [m EXCEPT !.curr_to = p, !.his_request = h, !.last_seq = l] \in Mes(n)
         /\ [m EXCEPT !.last_seq = l] \in Mes(n)
BY DEF Mes

LEMMA CountsAndListType ==
  ASSUME NEW n, NEW m \in Mes(n), NEW k \in Nat, NEW l \in Int,
         NEW fof \in SUBSET (Ids \cup {NotFound})
  PROVE  [m EXCEPT !.num_chunks = k, !.chunks_fetched = l,
                   !.fetching_or_fetched = fof] \in Mes(n)
BY DEF Mes

\* What a node does not write keeps its type while no command is given.
LEMMA Unwritten ==
  /\ AskedOK /\ UNCHANGED <<setup, asked>> => AskedOK'
  /\ MeOK /\ UNCHANGED me => MeOK'
  /\ PeerOK /\ UNCHANGED <<asked, peer>> => PeerOK'
  /\ LinkOK /\ UNCHANGED <<asked, link>> => LinkOK'
  /\ WindowOK /\ UNCHANGED <<send_buffer, state>> => WindowOK'
  /\ FileOK /\ UNCHANGED file => FileOK'
  /\ StatusOK /\ UNCHANGED status => StatusOK'
BY DEF AskedOK, MeOK, PeerOK, LinkOK, ByPair, WindowOK, FileOK, StatusOK

\* The first states.
LEMMA InitType == Init => SwarmInv
<1> SUFFICES ASSUME Init PROVE SwarmInv
  OBVIOUS
<1>1. AskedOK
  <2>1. setup \in Setups /\ asked = [n \in Nodes |-> 0]
    BY DEF Init
  <2>2. \A n \in Nodes : Len(setup.requests[n]) \in Nat
    BY <2>1, SwarmAssumption, LenProperties
  <2> QED BY <2>1, <2>2 DEF AskedOK
<1>2. MeOK
  BY SwarmAssumption DEF Init, MeOK, Mes, NewMe
<1>3. PeerOK
  <2> DEFINE first(n, p) == NewPeer(setup.leftover[n][p])
  <2>1. ASSUME NEW n \in Nodes, NEW p \in OtherNodes(n)
        PROVE  \A a, b : first(n, p) \in Records(a, b)
    <3>1. setup \in Setups
      BY DEF Init
    <3>2. setup.leftover[n][p] \in Leftovers
      BY <3>1, SwarmAssumption
    <3> QED BY <3>2, NewRecord
  <2>2. peer = [n \in Nodes |-> [p \in OtherNodes(n) |-> first(n, p)]]
    BY DEF Init
  <2> HIDE DEF first
  <2> QED BY <2>1, <2>2 DEF PeerOK, ByPair
<1>4. LinkOK
  BY DEF Init, LinkOK, ByPair
<1>5. WindowOK
  BY InitCongestion DEF Init, WindowOK
<1>6. FileOK /\ StatusOK
  BY DEF Init, FileOK, StatusOK
<1> QED BY <1>1, <1>2, <1>3, <1>4, <1>5, <1>6 DEF SwarmInv

LEMMA UserAsksType ==
  ASSUME SwarmInv, NEW n \in Nodes, UserAsks(n)
  PROVE  SwarmInv'
<1> DEFINE rq == setup.requests[n][asked[n] + 1]
           queued(p) == [peer[n][p] EXCEPT !.whohas_list = @ \o Split(rq)]
<1>1. /\ asked[n] < Len(setup.requests[n])
      /\ asked' = [asked EXCEPT ![n] = @ + 1]
      /\ me' = [me EXCEPT ![n].num_chunks = Len(rq), ![n].chunks_fetched = 0]
      /\ peer' = [peer EXCEPT ![n] =
                    [p \in OtherNodes(n) |-> send_next_whohas(queued(p))]]
      /\ link' = [link EXCEPT ![n] =
                    [p \in OtherNodes(n) |->
                       Transmit(@[p], status[p], NextWhohas(queued(p)))]]
      /\ UNCHANGED <<setup, status, reported, send_buffer, state, file, scan>>
  BY DEF UserAsks
<1>2. rq \in Seq(Chunks)
  <2>1. asked[n] + 1 \in 1..Len(setup.requests[n])
    <3>1. Len(setup.requests[n]) \in Nat /\ asked[n] \in Nat
      BY SwarmAssumption, LenProperties DEF SwarmInv, AskedOK
    <3> QED BY <1>1, <3>1
  <2> QED BY <2>1, RequestType DEF SwarmInv, AskedOK
<1> HIDE DEF rq
<1>3. AskedOK'
  <2>1. \A m \in Nodes : Len(setup.requests[m]) \in Nat /\ asked[m] \in Nat
    BY SwarmAssumption, LenProperties DEF SwarmInv, AskedOK
  <2> QED BY <1>1, <2>1 DEF SwarmInv, AskedOK
<1>4. \A m \in Nodes : \A p \in OtherNodes(m) :
        /\ Packets(asked[m], asked[p]) \subseteq Packets(asked'[m], asked'[p])
        /\ Records(asked[m], asked[p]) \subseteq Records(asked'[m], asked'[p])
  <2>1. \A m \in Nodes : asked[m] \in Nat /\ asked'[m] \in Nat /\ asked[m] <= asked'[m]
    BY <1>1 DEF SwarmInv, AskedOK
  <2> QED BY <2>1, PacketsGrow DEF OtherNodes
<1>5. MeOK'
  <2>1. Len(rq) \in Nat
    BY <1>2, LenProperties
  <2>2. me[n] \in Mes(n) /\ 0 \in Int
    BY DEF SwarmInv, MeOK
  <2> DEFINE m == [me[n] EXCEPT !.num_chunks = Len(rq), !.chunks_fetched = 0]
  <2>3. m \in Mes(n)
    BY <2>1, <2>2, CountsType
  <2>4. me' = [me EXCEPT ![n] = m]
    BY <1>1
  <2> HIDE DEF m
  <2> QED BY <2>3, <2>4, MeReplaced DEF SwarmInv
<1>6. Split(rq) \in Seq(WhohasPackets(asked'[n]))
  <2>1. asked'[n] > 0
    BY <1>1 DEF SwarmInv, AskedOK
  <2> QED BY <1>2, <2>1, SplitType
<1>7. ASSUME NEW p \in OtherNodes(n)
      PROVE  /\ send_next_whohas(queued(p)) \in Records(asked'[n], asked'[p])
             /\ NextWhohas(queued(p)) \in Seq(Packets(asked'[n], asked'[p]))
  <2>1. peer[n][p] \in Records(asked'[n], asked'[p])
    BY <1>4 DEF SwarmInv, PeerOK
  <2>2. peer[n][p].whohas_list \in Seq(WhohasPackets(asked'[n]))
    BY <2>1 DEF Records
  <2>3. /\ peer[n][p].whohas_list \o Split(rq) \in Seq(WhohasPackets(asked'[n]))
        /\ peer[n][p].whohas_list # << >> => peer[n][p].whohas_list \o Split(rq) # << >>
    <3>1. Len(peer[n][p].whohas_list \o Split(rq)) =
            Len(peer[n][p].whohas_list) + Len(Split(rq))
          /\ Len(Split(rq)) \in Nat /\ Len(peer[n][p].whohas_list) \in Nat
      BY <1>6, <2>2, ConcatProperties, LenProperties
    <3>2. peer[n][p].whohas_list # << >> => Len(peer[n][p].whohas_list) # 0
      BY <2>2, EmptySeq
    <3> QED BY <1>6, <2>2, <3>1, <3>2, ConcatProperties, EmptySeq
  <2>4. queued(p) \in Records(asked'[n], asked'[p])
    BY <2>1, <2>3 DEF Records
  <2> HIDE DEF queued
  <2>5. send_next_whohas(queued(p)) \in Records(asked'[n], asked'[p])
        /\ NextWhohas(queued(p)) \in Seq(WhohasPackets(asked'[n]))
    BY <2>4, NextWhohasType
  <2>6. NextWhohas(queued(p)) \in Seq(Packets(asked'[n], asked'[p]))
    BY <2>5, KindsArePackets
  <2> QED BY <2>5, <2>6
<1> HIDE DEF queued
<1>8. PeerOK'
  <2>1. ByPair(peer')
    BY <1>1 DEF SwarmInv, PeerOK, ByPair
  <2>2. \A m \in Nodes : \A p \in OtherNodes(m) : peer'[m][p] \in Records(asked'[m], asked'[p])
    BY <1>1, <1>4, <1>7 DEF SwarmInv, PeerOK, ByPair
  <2> QED BY <2>1, <2>2 DEF PeerOK
<1>9. LinkOK'
  <2>1. ByPair(link')
    BY <1>1 DEF SwarmInv, LinkOK, ByPair
  <2>2. \A m \in Nodes : \A p \in OtherNodes(m) : link[m][p] \in Seq(Packets(asked'[m], asked'[p]))
    BY <1>4, ElementOfSeq DEF SwarmInv, LinkOK
  <2>3. \A m \in Nodes : \A p \in OtherNodes(m) : link'[m][p] \in Seq(Packets(asked'[m], asked'[p]))
    <3>1. \A p \in OtherNodes(n) :
            Transmit(link[n][p], status[p], NextWhohas(queued(p))) \in Seq(Packets(asked'[n], asked'[p]))
      BY <1>7, <2>2, TransmitType
    <3> QED BY <1>1, <2>2, <3>1 DEF SwarmInv, LinkOK, ByPair
  <2> QED BY <2>1, <2>3 DEF LinkOK
<1> QED BY <1>1, <1>3, <1>5, <1>8, <1>9, Unwritten DEF SwarmInv

LEMMA WhohasHandlerType ==
  ASSUME SwarmInv, NEW n \in Nodes, NEW p \in OtherNodes(n), WhohasHandler(n, p)
  PROVE  SwarmInv'
<1>1. PICK pk \in Arriving(n, p, "WHOHAS") :
        LET ihave == IHAVE(Had(n, pk.chunks))
        IN  /\ Receives(n, p, pk, <<ihave>>)
            /\ peer' = [peer EXCEPT ![n][p].pending_ihave = ihave]
            /\ UNCHANGED <<setup, status, asked, reported, me, send_buffer, state, file,
                           scan>>
  BY DEF WhohasHandler
<1> DEFINE has == Had(n, pk.chunks)
<1>2. pk \in WhohasPackets(asked[p])
  BY ArrivingType, PacketTypes DEF SwarmInv
<1>3. has \in Seq(Chunks)
  BY <1>2, HadType DEF WhohasPackets
<1> HIDE DEF has
<1>4. IHAVE(has) \in IhavePackets(asked[p])
  BY <1>2, <1>3 DEF IHAVE, IhavePackets, WhohasPackets
<1>5. LinkOK'
  <2>1. <<IHAVE(has)>> \in Seq(Packets(asked[n], asked[p]))
    BY <1>4, SingletonType, KindsArePackets
  <2> QED BY <1>1, <2>1, ReceivesType DEF SwarmInv, has
<1>6. PeerOK'
  <2>1. [peer[n][p] EXCEPT !.pending_ihave = IHAVE(has)] \in Records(asked[n], asked[p])
    BY <1>4, FieldsType DEF SwarmInv, PeerOK
  <2>2. peer' = [peer EXCEPT ![n][p] = [peer[n][p] EXCEPT !.pending_ihave = IHAVE(has)]]
    BY <1>1 DEF has, SwarmInv, PeerOK, ByPair
  <2> QED BY <1>1, <2>1, <2>2, RecordReplaced DEF SwarmInv
<1> QED BY <1>1, <1>5, <1>6, Unwritten DEF SwarmInv

LEMMA IhaveNothingType ==
  ASSUME SwarmInv, NEW n \in Nodes, NEW p \in OtherNodes(n), IhaveNothing(n, p)
  PROVE  SwarmInv'
<1> DEFINE r == Answered(peer[n][p])
<1>1. /\ Receives(n, p, IHAVE(<< >>), NextWhohas(r))
      /\ peer' = [peer EXCEPT ![n][p] = send_next_whohas(r)]
      /\ UNCHANGED <<setup, status, asked, reported, me, send_buffer, state, file, scan>>
  BY DEF IhaveNothing
<1>2. peer[n][p] \in Records(asked[n], asked[p])
  BY DEF SwarmInv, PeerOK
<1>3. r \in Records(asked[n], asked[p])
  BY <1>2, AnsweredType
<1> HIDE DEF r
<1>4. /\ send_next_whohas(r) \in Records(asked[n], asked[p])
      /\ NextWhohas(r) \in Seq(Packets(asked[n], asked[p]))
  BY <1>3, NextWhohasType, KindsArePackets
<1>5. PeerOK' /\ LinkOK'
  BY <1>1, <1>4, RecordReplaced, ReceivesType DEF SwarmInv
<1> QED BY <1>1, <1>5, Unwritten DEF SwarmInv

LEMMA IhaveHandlerType ==
  ASSUME SwarmInv, NEW n \in Nodes, NEW p \in OtherNodes(n), IhaveHandler(n, p)
  PROVE  SwarmInv'
<1> DEFINE chunks(pk) == [i \in DOMAIN pk.chunks |->
                            [chunkhash |-> pk.chunks[i],
                             chunk_id |-> get_hash_id_request(n, pk.chunks[i])]]
           next(pk) == get_next_chunk(Listed(Answered(peer[n][p]), chunks(pk)),
                                      me[n].fetching_or_fetched)
<1>1. PICK pk \in Arriving(n, p, "IHAVE") :
        /\ pk.chunks # << >>
        /\ Receives(n, p, pk, next(pk).get)
        /\ peer' = [peer EXCEPT ![n][p] = next(pk).r]
        /\ me' = [me EXCEPT ![n].fetching_or_fetched = next(pk).fof]
        /\ UNCHANGED <<setup, status, asked, reported, send_buffer, state, file, scan>>
  BY DEF IhaveHandler
<1>2. pk \in IhavePackets(asked[n])
  BY ArrivingType, PacketTypes DEF SwarmInv
<1>3. chunks(pk) \in Seq(Listings(asked[n])) /\ chunks(pk) # << >>
  <2>1. chunks(pk) \in Seq(Listings(asked[n]))
    BY <1>2, IhaveListing DEF SwarmInv
  <2>2. pk.chunks \in Seq(Chunks) /\ DOMAIN chunks(pk) = DOMAIN pk.chunks
    BY <1>2 DEF IhavePackets
  <2>3. 1 \in DOMAIN pk.chunks
    BY <1>1, <2>2, EmptySeq, LenProperties
  <2> QED BY <2>1, <2>2, <2>3
<1> HIDE DEF chunks
<1>4. Listed(Answered(peer[n][p]), chunks(pk)) \in Records(asked[n], asked[p])
  <2>1. peer[n][p] \in Records(asked[n], asked[p])
    BY DEF SwarmInv, PeerOK
  <2> QED BY <1>3, <2>1, AnsweredType, ListedType
<1>5. me[n] \in Mes(n) /\ me[n].fetching_or_fetched \in SUBSET (Ids \cup {NotFound})
  BY DEF SwarmInv, MeOK, Mes
<1>6. /\ next(pk).r \in Records(asked[n], asked[p])
      /\ next(pk).fof \in SUBSET (Ids \cup {NotFound})
      /\ next(pk).get \in Seq(GetPackets(asked[n]))
  BY <1>4, <1>5, NextChunkType
<1> HIDE DEF next
<1>7. PeerOK'
  BY <1>1, <1>6, RecordReplaced DEF SwarmInv
<1>8. LinkOK'
  BY <1>1, <1>6, KindsArePackets, ReceivesType DEF SwarmInv
<1>9. MeOK'
  <2>1. [me[n] EXCEPT !.fetching_or_fetched = next(pk).fof] \in Mes(n)
    BY <1>5, <1>6, ListType
  <2> QED BY <1>1, <2>1, MeReplaced DEF SwarmInv
<1> QED BY <1>1, <1>7, <1>8, <1>9, Unwritten DEF SwarmInv

LEMMA DataIgnoredType ==
  ASSUME SwarmInv, NEW n \in Nodes, NEW p \in OtherNodes(n), DataIgnored(n, p)
  PROVE  SwarmInv'
<1> DEFINE r == [peer[n][p] EXCEPT !.ack_timeout_counter = 0]
           next == get_next_chunk(r, me[n].fetching_or_fetched)
<1>1. PICK pk \in Arriving(n, p, "DATA") :
        /\ Receives(n, p, pk, next.get)
        /\ peer' = [peer EXCEPT ![n][p] = next.r]
        /\ me' = [me EXCEPT ![n].fetching_or_fetched = next.fof]
        /\ UNCHANGED <<setup, status, asked, reported, send_buffer, state, file, scan>>
  BY DEF DataIgnored
<1>2. r \in Records(asked[n], asked[p])
  <2>1. peer[n][p] \in Records(asked[n], asked[p])
    BY DEF SwarmInv, PeerOK
  <2> QED BY <2>1, FieldsType
<1>3. me[n] \in Mes(n) /\ me[n].fetching_or_fetched \in SUBSET (Ids \cup {NotFound})
  BY DEF SwarmInv, MeOK, Mes
<1> HIDE DEF r
<1>4. /\ next.r \in Records(asked[n], asked[p])
      /\ next.fof \in SUBSET (Ids \cup {NotFound})
      /\ next.get \in Seq(GetPackets(asked[n]))
  BY <1>2, <1>3, NextChunkType
<1> HIDE DEF next
<1>5. PeerOK'
  BY <1>1, <1>4, RecordReplaced DEF SwarmInv
<1>6. LinkOK'
  BY <1>1, <1>4, KindsArePackets, ReceivesType DEF SwarmInv
<1>7. MeOK'
  <2>1. [me[n] EXCEPT !.fetching_or_fetched = next.fof] \in Mes(n)
    BY <1>3, <1>4, ListType
  <2> QED BY <1>1, <2>1, MeReplaced DEF SwarmInv
<1> QED BY <1>1, <1>5, <1>6, <1>7, Unwritten DEF SwarmInv

\* A block that is written holds data of a chunk.
LEMMA StoreType ==
  ASSUME FileOK, NEW n \in Nodes, NEW p, NEW pk \in DataPackets, Store(n, p, pk)
  PROVE  FileOK'
<1>1. pk.data \in Chunks
  BY DEF DataPackets
<1>2. PICK place : file' = [file EXCEPT ![n][place] = pk.data]
  BY DEF Store
<1> QED BY <1>1, <1>2 DEF FileOK

LEMMA DataHandlerType ==
  ASSUME SwarmInv, NEW n \in Nodes, NEW p \in OtherNodes(n), DataHandler(n, p)
  PROVE  SwarmInv'
<1> DEFINE r == peer[n][p]
<1>1. PICK pk \in Arriving(n, p, "DATA") :
        /\ Receives(n, p, pk, <<ACK(AckOf(r, pk))>>)
        /\ Store(n, p, pk)
        /\ peer' = [peer EXCEPT ![n][p] = Inserted(r, pk)]
        /\ UNCHANGED <<setup, status, asked, reported, me, send_buffer, state, scan>>
  BY DEF DataHandler
<1>2. pk \in DataPackets
  BY ArrivingType, PacketTypes DEF SwarmInv
<1>3. r \in Records(asked[n], asked[p])
  BY DEF SwarmInv, PeerOK
<1> HIDE DEF r
<1>4. AckOf(r, pk) \in Blocks /\ Inserted(r, pk) \in Records(asked[n], asked[p])
  BY <1>2, <1>3, InsertedType
<1>5. <<ACK(AckOf(r, pk))>> \in Seq(Packets(asked[n], asked[p]))
  <2>1. ACK(AckOf(r, pk)) \in AckPackets
    BY <1>4 DEF ACK, AckPackets
  <2> QED BY <2>1, SingletonType, KindsArePackets
<1>6. PeerOK' /\ LinkOK' /\ FileOK'
  BY <1>1, <1>2, <1>4, <1>5, RecordReplaced, ReceivesType, StoreType DEF SwarmInv
<1> QED BY <1>1, <1>6, Unwritten DEF SwarmInv

LEMMA ChunkFetchedType ==
  ASSUME SwarmInv, NEW n \in Nodes, NEW p \in OtherNodes(n), ChunkFetched(n, p)
  PROVE  SwarmInv'
<1> DEFINE r == peer[n][p]
           next(pk) == AfterChunk(post_receive_cleanup(Inserted(r, pk)),
                                  me[n].fetching_or_fetched)
<1>1. PICK pk \in Arriving(n, p, "DATA") :
        /\ Receives(n, p, pk, <<ACK(FINALACK)>> \o next(pk).get)
        /\ Store(n, p, pk)
        /\ peer' = [peer EXCEPT ![n][p] = next(pk).r]
        /\ CountChunk(n, next(pk).fof)
        /\ UNCHANGED <<setup, status, asked, send_buffer, state, scan>>
  BY DEF ChunkFetched
<1>2. pk \in DataPackets
  BY ArrivingType, PacketTypes DEF SwarmInv
<1>3. /\ r \in Records(asked[n], asked[p]) /\ me[n] \in Mes(n)
      /\ me[n].fetching_or_fetched \in SUBSET (Ids \cup {NotFound})
      /\ me[n].chunks_fetched \in Int
  BY DEF SwarmInv, PeerOK, MeOK, Mes
<1> HIDE DEF r
<1>4. Inserted(r, pk) \in Records(asked[n], asked[p])
  BY <1>2, <1>3, InsertedType
<1>5. /\ next(pk).r \in Records(asked[n], asked[p])
      /\ next(pk).fof \in SUBSET (Ids \cup {NotFound})
      /\ next(pk).get \in Seq(GetPackets(asked[n])) \cup Seq(WhohasPackets(asked[n]))
  BY <1>3, <1>4, AfterChunkType
<1> HIDE DEF next
<1>6. <<ACK(FINALACK)>> \o next(pk).get \in Seq(Packets(asked[n], asked[p]))
  <2>1. ACK(FINALACK) \in AckPackets
    BY SwarmAssumption DEF ACK, AckPackets, Blocks
  <2>2. <<ACK(FINALACK)>> \in Seq(Packets(asked[n], asked[p]))
    BY <2>1, SingletonType, KindsArePackets
  <2>3. next(pk).get \in Seq(Packets(asked[n], asked[p]))
    BY <1>5, KindsArePackets
  <2> QED BY <2>2, <2>3, ConcatProperties
<1>7. PeerOK' /\ LinkOK' /\ FileOK'
  BY <1>1, <1>2, <1>5, <1>6, RecordReplaced, ReceivesType, StoreType DEF SwarmInv
<1>8. MeOK'
  <2> DEFINE over == [me[n] EXCEPT !.num_chunks = 0, !.chunks_fetched = 0,
                                   !.fetching_or_fetched = {}]
             fetched == [me[n] EXCEPT !.chunks_fetched = me[n].chunks_fetched + 1]
             more == [fetched EXCEPT !.fetching_or_fetched = next(pk).fof]
  <2>1. over \in Mes(n)
    <3>1. 0 \in Nat /\ 0 \in Int /\ {} \in SUBSET (Ids \cup {NotFound})
      OBVIOUS
    <3> QED BY <1>3, <3>1, CountsAndListType
  <2>2. fetched \in Mes(n)
    <3>1. ASSUME NEW m \in Mes(n), NEW l \in Int PROVE [m EXCEPT !.chunks_fetched = l] \in Mes(n)
      BY DEF Mes
    <3>2. me[n].chunks_fetched + 1 \in Int
      BY <1>3
    <3> QED BY <1>3, <3>1, <3>2
  <2>3. me' = [me EXCEPT ![n] = over] \/ me' = [me EXCEPT ![n] = more]
    BY <1>1 DEF CountChunk
  <2> HIDE DEF over, fetched
  <2>4. more \in Mes(n)
    BY <1>5, <2>2, ListType
  <2> QED BY <2>1, <2>3, <2>4, MeReplaced DEF SwarmInv
<1> QED BY <1>1, <1>7, <1>8, Unwritten DEF SwarmInv

LEMMA DeniedHandlerType ==
  ASSUME SwarmInv, NEW n \in Nodes, NEW p \in OtherNodes(n), DeniedHandler(n, p)
  PROVE  SwarmInv'
<1> DEFINE r == Refused(peer[n][p])
<1>1. /\ Receives(n, p, DENIED, << >>)
      /\ peer' = [peer EXCEPT ![n][p] = r]
      /\ UNCHANGED <<setup, status, asked, reported, me, send_buffer, state, file, scan>>
  BY DEF DeniedHandler
<1>2. peer[n][p] \in Records(asked[n], asked[p])
  BY DEF SwarmInv, PeerOK
<1>3. r \in Records(asked[n], asked[p])
  BY <1>2, FieldsType
<1> HIDE DEF r
<1>4. << >> \in Seq(Packets(asked[n], asked[p]))
  OBVIOUS
<1>5. PeerOK' /\ LinkOK'
  BY <1>1, <1>3, <1>4, RecordReplaced, ReceivesType DEF SwarmInv
<1> QED BY <1>1, <1>5, Unwritten DEF SwarmInv

LEMMA GetDeniedType ==
  ASSUME SwarmInv, NEW n \in Nodes, NEW p \in OtherNodes(n), GetDenied(n, p)
  PROVE  SwarmInv'
<1>1. PICK pk \in Arriving(n, p, "GET") :
        /\ Receives(n, p, pk, <<DENIED>>)
        /\ me' = [me EXCEPT ![n].curr_to = p]
        /\ UNCHANGED <<setup, status, asked, reported, peer, send_buffer, state, file, scan>>
  BY DEF GetDenied
<1>2. LinkOK'
  <2>1. <<DENIED>> \in Seq(Packets(asked[n], asked[p]))
    BY SingletonType DEF Packets
  <2> QED BY <1>1, <2>1, ReceivesType DEF SwarmInv
<1>3. MeOK'
  <2>1. me[n] \in Mes(n)
    BY DEF SwarmInv, MeOK
  <2>2. [me[n] EXCEPT !.curr_to = p] \in Mes(n)
    <3>1. ASSUME NEW m \in Mes(n) PROVE [m EXCEPT !.curr_to = p] \in Mes(n)
      BY DEF Mes
    <3> QED BY <2>1, <3>1
  <2> QED BY <1>1, <2>2, MeReplaced DEF SwarmInv
<1> QED BY <1>1, <1>2, <1>3, Unwritten DEF SwarmInv

LEMMA GetAcceptedType ==
  ASSUME SwarmInv, NEW n \in Nodes, NEW p \in OtherNodes(n), GetAccepted(n, p)
  PROVE  SwarmInv'
<1> DEFINE r(pk) == [peer[n][p] EXCEPT !.pending_ihave = NULL, !.his_request = TRUE,
                                       !.send_hash_id = pk.hash]
           data(pk) == NextData(r(pk), init_congestion_state, 1, send_buffer[n])
<1>1. PICK pk \in Arriving(n, p, "GET") :
        /\ Receives(n, p, pk, data(pk))
        /\ send_next_data(n, r(pk), init_congestion_state, 1, send_buffer[n])
        /\ me' = [me EXCEPT ![n].curr_to = p, ![n].his_request = TRUE,
                            ![n].last_seq = LastSeq(n, data(pk))]
        /\ peer' = [peer EXCEPT ![n][p] = r(pk)]
        /\ UNCHANGED <<setup, status, asked, reported, file, scan>>
  BY DEF GetAccepted
<1>2. pk.hash \in Chunks
  BY ArrivingType, PacketTypes DEF SwarmInv, GetPackets
<1>3. r(pk) \in Records(asked[n], asked[p]) /\ r(pk).send_hash_id = pk.hash
  <2>1. peer[n][p] \in Records(asked[n], asked[p])
    BY DEF SwarmInv, PeerOK
  <2>2. r(pk) \in Records(asked[n], asked[p])
    BY <1>2, <2>1, FieldsType
  <2>3. ASSUME NEW q \in Records(asked[n], asked[p])
        PROVE  [q EXCEPT !.pending_ihave = NULL, !.his_request = TRUE,
                         !.send_hash_id = pk.hash].send_hash_id = pk.hash
    BY DEF Records
  <2> QED BY <2>1, <2>2, <2>3
<1> HIDE DEF r
<1>4. r(pk).last_ack \in Nat
  BY <1>3 DEF Records
<1>5. /\ 1 \in 1..(FINALACK + 1) /\ send_buffer[n] \in Seq(DataPackets)
      /\ init_congestion_state \in CongestionStates /\ CongestionOK(init_congestion_state)
  BY SwarmAssumption, InitCongestion DEF SwarmInv, WindowOK
<1>6. data(pk) \in Seq(DataPackets)
  BY <1>2, <1>3, <1>4, <1>5, NextDataType
<1>7. WindowOK' /\ LastSeq(n, data(pk)) \in 0..FINALACK
  BY <1>1, <1>2, <1>3, <1>4, <1>5, SendNextType DEF SwarmInv
<1> HIDE DEF data
<1>8. MeOK'
  <2>1. me[n] \in Mes(n) /\ p \in OtherNodes(n) \cup {NULL} /\ TRUE \in BOOLEAN
    BY DEF SwarmInv, MeOK
  <2>2. [me[n] EXCEPT !.curr_to = p, !.his_request = TRUE,
                      !.last_seq = LastSeq(n, data(pk))] \in Mes(n)
    BY <1>7, <2>1, ServiceType
  <2> QED BY <1>1, <2>2, MeReplaced DEF SwarmInv
<1>9. PeerOK' /\ LinkOK'
  BY <1>1, <1>3, <1>6, RecordReplaced, KindsArePackets, ReceivesType DEF SwarmInv
<1> QED BY <1>1, <1>7, <1>8, <1>9, Unwritten DEF SwarmInv

LEMMA AckHandlerType ==
  ASSUME SwarmInv, NEW n \in Nodes, NEW p \in OtherNodes(n), AckHandler(n, p)
  PROVE  SwarmInv'
<1>1. PICK pk \in Arriving(n, p, "ACK") :
        /\ \/ AckIgnored(n, p, pk.ack_num)
           \/ FinalAck(n, p, pk.ack_num)
           \/ TripleDupack(n, p, pk.ack_num)
           \/ AckAdvances(n, p, pk.ack_num)
        /\ UNCHANGED <<setup, status, asked, reported, file, scan>>
  BY DEF AckHandler
<1> DEFINE ack == pk.ack_num
           r == CountAck(peer[n][p], ack)
<1>2. ack \in Blocks
  BY ArrivingType, PacketTypes DEF SwarmInv, AckPackets
<1>3. /\ peer[n][p] \in Records(asked[n], asked[p]) /\ me[n] \in Mes(n)
      /\ send_buffer[n] \in Seq(DataPackets)
      /\ state[n] \in CongestionStates /\ CongestionOK(state[n])
  BY DEF SwarmInv, PeerOK, MeOK, WindowOK
<1> HIDE DEF ack
<1>4. /\ r \in Records(asked[n], asked[p]) /\ r.last_ack \in Nat
      /\ r.his_request = peer[n][p].his_request
  <2>1. r \in Records(asked[n], asked[p])
    BY <1>2, <1>3, CountAckType
  <2>2. ASSUME NEW q \in Records(asked[n], asked[p])
        PROVE  CountAck(q, ack).his_request = q.his_request
    BY DEF CountAck, Records
  <2>3. r.last_ack \in Nat
    <3> HIDE DEF r
    <3> QED BY <2>1 DEF Records
  <2> QED BY <1>3, <2>1, <2>2, <2>3
<1> HIDE DEF r
<1>5. << >> \in Seq(Packets(asked[n], asked[p]))
  OBVIOUS
<1>6. CASE AckIgnored(n, p, ack)
  <2>1. /\ Receives(n, p, ACK(ack), << >>)
        /\ peer' = [peer EXCEPT ![n][p].num_data_retransmits = 0]
        /\ UNCHANGED <<me, send_buffer, state>>
    BY <1>6 DEF AckIgnored
  <2>2. [peer[n][p] EXCEPT !.num_data_retransmits = 0] \in Records(asked[n], asked[p])
    <3>1. 0 \in 0..MAX_DATA_RETRANSMIT
      BY SwarmAssumption
    <3> QED BY <1>3, <3>1, FieldsType
  <2>3. PeerOK' /\ LinkOK'
    BY <1>1, <1>5, <2>1, <2>2, RecordReplaced, ReceivesType DEF SwarmInv
  <2> QED BY <1>1, <2>1, <2>3, Unwritten DEF SwarmInv
<1>7. CASE FinalAck(n, p, ack)
  <2>1. /\ Receives(n, p, ACK(ack), << >>)
        /\ peer' = [peer EXCEPT ![n][p] = post_send_cleanup(r)]
        /\ me' = [me EXCEPT ![n].curr_to = NULL, ![n].his_request = FALSE]
        /\ send_buffer' = [send_buffer EXCEPT ![n] = << >>]
        /\ UNCHANGED state
    BY <1>7 DEF FinalAck, destroy_entries, r
  <2>2. post_send_cleanup(r) \in Records(asked[n], asked[p])
    BY <1>4, FieldsType
  <2>3. PeerOK' /\ LinkOK'
    BY <1>1, <1>5, <2>1, <2>2, RecordReplaced, ReceivesType DEF SwarmInv
  <2>4. MeOK'
    BY <2>1, NotServingType DEF SwarmInv
  <2>5. WindowOK'
    BY <2>1 DEF SwarmInv, WindowOK
  <2> QED BY <1>1, <2>3, <2>4, <2>5, Unwritten DEF SwarmInv
<1>8. CASE TripleDupack(n, p, ack)
  <2> DEFINE rest == Unacked(send_buffer[n], r.last_ack)
  <2>1. /\ rest # << >>
        /\ Receives(n, p, ACK(ack), <<Head(rest)>>)
        /\ peer' = [peer EXCEPT ![n][p] = [r EXCEPT !.num_dupacks = 1]]
        /\ send_buffer' = [send_buffer EXCEPT ![n] = rest]
        /\ state' = [state EXCEPT ![n] = mult_decrease(@)]
        /\ UNCHANGED me
    BY <1>8 DEF TripleDupack, r
  <2>2. rest \in Seq(DataPackets)
    BY <1>3, <1>4, UnackedType
  <2> HIDE DEF rest
  <2>3. <<Head(rest)>> \in Seq(Packets(asked[n], asked[p]))
    BY <2>1, <2>2, HeadTailProperties, SingletonType, KindsArePackets
  <2>4. [r EXCEPT !.num_dupacks = 1] \in Records(asked[n], asked[p])
    BY <1>4, FieldsType
  <2>5. PeerOK' /\ LinkOK'
    BY <1>1, <2>1, <2>3, <2>4, RecordReplaced, ReceivesType DEF SwarmInv
  <2>6. WindowOK'
    <3>1. mult_decrease(state[n]) \in CongestionStates /\ CongestionOK(mult_decrease(state[n]))
      BY <1>3, MultDecreaseOK
    <3> QED BY <2>1, <2>2, <3>1 DEF SwarmInv, WindowOK
  <2> QED BY <1>1, <2>1, <2>5, <2>6, Unwritten DEF SwarmInv
<1>9. CASE AckAdvances(n, p, ack)
  <2> DEFINE rest == Unacked(send_buffer[n], r.last_ack)
             cc == slow_start(state[n])
             data == NextData(r, cc, me[n].last_seq + 1, rest)
  <2>1. /\ AckCounts(n, p, ack)
        /\ Receives(n, p, ACK(ack), data)
        /\ peer' = [peer EXCEPT ![n][p] = r]
        /\ send_next_data(n, r, cc, me[n].last_seq + 1, rest)
        /\ me' = [me EXCEPT ![n].last_seq = LastSeq(n, data)]
    BY <1>9 DEF AckAdvances, r
  <2>2. rest \in Seq(DataPackets)
    BY <1>3, <1>4, UnackedType
  <2>3. cc \in CongestionStates /\ CongestionOK(cc)
    BY <1>3, SlowStartOK
  <2>4. me[n].last_seq + 1 \in 1..(FINALACK + 1)
    BY <1>3, SwarmAssumption DEF Mes
  <2>5. r.send_hash_id \in Chunks
    <3>1. r.his_request
      BY <1>4, <2>1 DEF AckCounts
    <3> QED BY <1>4, <3>1 DEF Records
  <2> HIDE DEF rest, cc
  <2>6. data \in Seq(DataPackets)
    BY <1>4, <2>2, <2>3, <2>4, <2>5, NextDataType
  <2>7. WindowOK' /\ LastSeq(n, data) \in 0..FINALACK
    BY <1>4, <2>1, <2>2, <2>3, <2>4, <2>5, SendNextType DEF SwarmInv
  <2> HIDE DEF data
  <2>8. PeerOK' /\ LinkOK'
    BY <1>1, <1>4, <2>1, <2>6, RecordReplaced, KindsArePackets, ReceivesType DEF SwarmInv
  <2>9. MeOK'
    <3>1. ASSUME NEW m \in Mes(n) PROVE [m EXCEPT !.last_seq = LastSeq(n, data)] \in Mes(n)
      BY <2>7 DEF Mes
    <3>2. [me[n] EXCEPT !.last_seq = LastSeq(n, data)] \in Mes(n)
      BY <1>3, <3>1
    <3> QED BY <2>1, <3>2, MeReplaced DEF SwarmInv
  <2> QED BY <1>1, <2>7, <2>8, <2>9, Unwritten DEF SwarmInv
<1> QED BY <1>1, <1>6, <1>7, <1>8, <1>9 DEF ack

-----------------------------------------------------------------------------
(* The invariant through failures and timeouts.                            *)

\* A process that ends takes the packets on their way to it along.
LEMMA EndedType ==
  ASSUME SwarmInv, NEW n \in Nodes, NEW how \in {"crashed", "segv"},
         status' = [status EXCEPT ![n] = how],
         link' = [p \in Nodes |-> [q \in OtherNodes(p) |->
                    IF q = n THEN << >> ELSE link[p][q]]],
         UNCHANGED <<setup, asked, reported, me, peer, send_buffer, state, file, scan>>
  PROVE  SwarmInv'
<1>1. LinkOK'
  <2>1. ByPair(link)'
    BY DEF ByPair
  <2>2. ASSUME NEW p \in Nodes, NEW q \in OtherNodes(p)
        PROVE  link'[p][q] \in Seq(Packets(asked[p], asked[q]))
    <3>1. link'[p][q] = IF q = n THEN << >> ELSE link[p][q]
      OBVIOUS
    <3>2. link[p][q] \in Seq(Packets(asked[p], asked[q]))
      BY DEF SwarmInv, LinkOK
    <3>3. << >> \in Seq(Packets(asked[p], asked[q]))
      OBVIOUS
    <3>4. CASE q = n
      <4>1. link'[p][q] = << >>
        BY <3>1, <3>4
      <4> QED BY <3>3, <4>1
    <3>5. CASE q # n
      <4>1. link'[p][q] = link[p][q]
        BY <3>1, <3>5
      <4> QED BY <3>2, <4>1
    <3> QED BY <3>4, <3>5
  <2> QED BY <2>1, <2>2 DEF LinkOK
<1>2. StatusOK'
  BY DEF SwarmInv, StatusOK
<1> QED BY <1>1, <1>2, Unwritten DEF SwarmInv

LEMMA LoseType ==
  ASSUME SwarmInv, NEW n \in Nodes, NEW p \in OtherNodes(n), Lose(n, p)
  PROVE  SwarmInv'
<1>1. PICK i \in DOMAIN link[n][p] : link' = [link EXCEPT ![n][p] = Without(@, i)]
  BY DEF Lose
<1>2. Without(link[n][p], i) \in Seq(Packets(asked[n], asked[p]))
  BY WithoutType DEF SwarmInv, LinkOK
<1>3. UNCHANGED <<setup, status, asked, me, peer, send_buffer, state, file>>
  BY DEF Lose, nodeVars
<1>4. LinkOK'
  BY <1>1, <1>2, <1>3 DEF SwarmInv, LinkOK, ByPair
<1> QED BY <1>3, <1>4, Unwritten DEF SwarmInv

LEMMA TimeoutType ==
  ASSUME SwarmInv, NEW n \in Nodes, Timeout(n)
  PROVE  SwarmInv'
<1> DEFINE p == me[n].curr_to
<1>1. me[n] \in Mes(n) /\ p \in OtherNodes(n) \cup {NULL}
  BY DEF SwarmInv, MeOK, Mes
<1>2. CASE TimeoutIdle(n)
  BY <1>2, Unwritten DEF TimeoutIdle, SwarmInv, nodeVars
<1>3. CASE TimeoutResends(n)
  <2>1. p \in OtherNodes(n) /\ peer[n][p] \in Records(asked[n], asked[p])
    BY <1>1, <1>3 DEF TimeoutResends, SwarmInv, PeerOK
  <2>2. CASE send_buffer[n] = << >>
    <3>1. Segv(n)
      BY <1>3, <2>2 DEF TimeoutResends
    <3> QED BY <3>1, EndedType DEF Segv
  <2>3. CASE send_buffer[n] # << >>
    <3>1. /\ Send(n, p, <<Head(send_buffer[n])>>)
          /\ peer' = [peer EXCEPT ![n][p].num_data_retransmits = @ + 1]
          /\ UNCHANGED <<setup, status, asked, reported, me, send_buffer, state, file>>
          /\ peer[n][p].num_data_retransmits # MAX_DATA_RETRANSMIT
      BY <1>3, <2>3 DEF TimeoutResends
    <3>2. <<Head(send_buffer[n])>> \in Seq(Packets(asked[n], asked[p]))
      <4>1. send_buffer[n] \in Seq(DataPackets)
        BY DEF SwarmInv, WindowOK
      <4> QED BY <2>3, <4>1, HeadTailProperties, SingletonType, KindsArePackets
    <3>3. peer[n][p].num_data_retransmits + 1 \in 0..MAX_DATA_RETRANSMIT
      <4>1. peer[n][p].num_data_retransmits \in 0..MAX_DATA_RETRANSMIT
        BY <2>1 DEF Records
      <4> QED BY <3>1, <4>1, SwarmAssumption
    <3>4. [peer[n][p] EXCEPT !.num_data_retransmits = peer[n][p].num_data_retransmits + 1]
            \in Records(asked[n], asked[p])
      BY <2>1, <3>3, FieldsType
    <3>5. PeerOK'
      BY <2>1, <3>1, <3>4, RecordReplaced DEF SwarmInv
    <3>6. LinkOK'
      BY <2>1, <3>1, <3>2, SendType DEF SwarmInv
    <3> QED BY <3>1, <3>5, <3>6, Unwritten DEF SwarmInv
  <2> QED BY <2>2, <2>3
<1>4. CASE TimeoutGivesUp(n)
  <2>1. p \in OtherNodes(n) /\ peer[n][p] \in Records(asked[n], asked[p])
    BY <1>1, <1>4 DEF TimeoutGivesUp, SwarmInv, PeerOK
  <2>2. /\ peer' = [peer EXCEPT ![n][p] = peer_total_cleanup(@)]
        /\ me' = [me EXCEPT ![n].curr_to = NULL, ![n].his_request = FALSE]
        /\ send_buffer' = [send_buffer EXCEPT ![n] = << >>]
        /\ UNCHANGED <<setup, status, asked, reported, state, file, link>>
    BY <1>4 DEF TimeoutGivesUp, destroy_entries
  <2>3. peer_total_cleanup(peer[n][p]) \in Records(asked[n], asked[p])
    BY <2>1, CleanedUp
  <2>4. PeerOK' /\ MeOK'
    BY <2>1, <2>2, <2>3, RecordReplaced, NotServingType DEF SwarmInv
  <2>5. WindowOK'
    BY <2>2 DEF SwarmInv, WindowOK
  <2> QED BY <2>2, <2>4, <2>5, Unwritten DEF SwarmInv
<1>5. CASE TimeoutFollowsWild(n)
  <2>1. Segv(n)
    BY <1>5 DEF TimeoutFollowsWild
  <2> QED BY <2>1, EndedType DEF Segv
<1> QED BY <1>2, <1>3, <1>4, <1>5 DEF Timeout

LEMMA ScanType ==
  ASSUME SwarmInv, NEW n \in Nodes, NEW p \in OtherNodes(n),
         \/ PeerForgotten(n, p) \/ PeerWaits(n, p) \/ PeerGivenUp(n, p)
         \/ ScanFollowsWild(n, p)
  PROVE  SwarmInv'
<1> DEFINE r == peer[n][p]
<1>1. r \in Records(asked[n], asked[p]) /\ me[n] \in Mes(n)
  BY DEF SwarmInv, PeerOK, MeOK
<1>2. CASE PeerForgotten(n, p)
  <2>1. /\ peer' = [peer EXCEPT ![n][p] = peer_total_cleanup(r)]
        /\ me' = [me EXCEPT ![n].curr_to = NULL, ![n].his_request = FALSE]
        /\ UNCHANGED <<setup, status, asked, reported, send_buffer, state, file, link>>
    BY <1>2 DEF PeerForgotten
  <2>2. peer_total_cleanup(r) \in Records(asked[n], asked[p])
    BY <1>1, CleanedUp
  <2>3. PeerOK' /\ MeOK'
    BY <2>1, <2>2, RecordReplaced, NotServingType DEF SwarmInv
  <2> QED BY <2>1, <2>3, Unwritten DEF SwarmInv
<1>3. /\ Pending(r) \in Seq(Packets(asked[n], asked[p]))
      /\ Len(Pending(r)) \in 0..1
  BY <1>1, PendingType, KindsArePackets
<1>4. CASE PeerWaits(n, p)
  <2> DEFINE sent == r.num_retransmits + Len(Pending(r))
             waited == IF r.get_hash_id # PSUEDO_INF THEN r.ack_timeout_counter + 1
                       ELSE r.ack_timeout_counter
             updated == [r EXCEPT !.num_retransmits = sent, !.ack_timeout_counter = waited]
  <2>1. /\ r.num_retransmits # MAX_RETRANSMITS
        /\ r.get_hash_id # PSUEDO_INF => r.ack_timeout_counter # MAX_DATA_RETRANSMIT
        /\ Send(n, p, Pending(r))
        /\ peer' = [peer EXCEPT ![n][p] = updated]
        /\ UNCHANGED <<setup, status, asked, reported, me, send_buffer, state, file>>
    <3>1. peer' = [peer EXCEPT
            ![n][p].num_retransmits = @ + Len(Pending(r)),
            ![n][p].ack_timeout_counter = IF r.get_hash_id # PSUEDO_INF THEN @ + 1 ELSE @]
      BY <1>4 DEF PeerWaits
    <3>2. peer' = [peer EXCEPT ![n][p] = updated]
      BY <3>1
    <3> QED BY <1>4, <3>2 DEF PeerWaits
  <2>2. sent \in 0..MAX_RETRANSMITS /\ waited \in 0..MAX_DATA_RETRANSMIT
    <3>1. r.num_retransmits \in 0..MAX_RETRANSMITS
          /\ r.ack_timeout_counter \in 0..MAX_DATA_RETRANSMIT
      BY <1>1 DEF Records
    <3>2. /\ r.num_retransmits # MAX_RETRANSMITS
          /\ r.get_hash_id # PSUEDO_INF => r.ack_timeout_counter # MAX_DATA_RETRANSMIT
      BY <2>1
    <3>3. sent \in 0..MAX_RETRANSMITS
      <4>1. ASSUME NEW k \in 0..MAX_RETRANSMITS, k # MAX_RETRANSMITS, NEW l \in 0..1
            PROVE  k + l \in 0..MAX_RETRANSMITS
        BY <4>1, SwarmAssumption
      <4>2. r.num_retransmits \in 0..MAX_RETRANSMITS /\ r.num_retransmits # MAX_RETRANSMITS
        BY <3>1, <3>2
      <4>3. Len(Pending(r)) \in 0..1
        BY <1>3
      <4> HIDE DEF sent
      <4>4. r.num_retransmits + Len(Pending(r)) \in 0..MAX_RETRANSMITS
        BY <4>1, <4>2, <4>3
      <4> QED BY <4>4 DEF sent
    <3>4. waited \in 0..MAX_DATA_RETRANSMIT
      BY <3>1, <3>2, SwarmAssumption
    <3> QED BY <3>3, <3>4
  <2> HIDE DEF sent, waited
  <2>3. updated \in Records(asked[n], asked[p])
    BY <1>1, <2>2, FieldsType
  <2> HIDE DEF updated
  <2>4. PeerOK' /\ LinkOK'
    BY <1>3, <2>1, <2>3, RecordReplaced, SendType DEF SwarmInv
  <2> QED BY <2>1, <2>4, Unwritten DEF SwarmInv
<1>5. CASE PeerGivenUp(n, p)
  <2> DEFINE fetched == me[n].chunks_fetched + r.num_chunks - r.chunks_fetched
             all == fetched = me[n].num_chunks
             total == IF all THEN 0 ELSE me[n].num_chunks
             left == IF all THEN 0 ELSE fetched
             updated == [me[n] EXCEPT !.num_chunks = total, !.chunks_fetched = left,
                                      !.fetching_or_fetched = {}]
  <2>1. /\ Send(n, p, Pending(r))
        /\ peer' = [peer EXCEPT ![n][p] = NewPeer(Cleared)]
        /\ me' = [me EXCEPT ![n] = updated]
        /\ UNCHANGED <<setup, status, asked, reported, send_buffer, state, file>>
    BY <1>5 DEF PeerGivenUp
  <2>2. total \in Nat /\ left \in Int
    <3>1. /\ me[n].num_chunks \in Nat /\ me[n].chunks_fetched \in Int
          /\ r.num_chunks \in Nat /\ r.chunks_fetched \in Nat
      BY <1>1 DEF Mes, Records
    <3> QED BY <3>1
  <2> HIDE DEF total, left
  <2>3. updated \in Mes(n)
    BY <1>1, <2>2, CountsAndListType
  <2> HIDE DEF updated
  <2>4. NewPeer(Cleared) \in Records(asked[n], asked[p])
    BY <1>1, CleanedUp
  <2>5. PeerOK' /\ LinkOK' /\ MeOK'
    BY <1>3, <2>1, <2>3, <2>4, RecordReplaced, SendType, MeReplaced DEF SwarmInv
  <2> QED BY <2>1, <2>5, Unwritten DEF SwarmInv
<1>6. CASE ScanFollowsWild(n, p)
  <2>1. Segv(n)
    BY <1>6 DEF ScanFollowsWild
  <2> QED BY <2>1, EndedType DEF Segv
<1> QED BY <1>2, <1>4, <1>5, <1>6

-----------------------------------------------------------------------------
(* The theorems.                                                           *)

\* Every step of every node, of the timers and of the network preserves the
\* invariant.
LEMMA SwarmInductive == SwarmInv /\ [Next]_vars => SwarmInv'
<1> SUFFICES ASSUME SwarmInv, [Next]_vars PROVE SwarmInv'
  OBVIOUS
<1>1. CASE UNCHANGED vars
  BY <1>1, Unwritten DEF vars, nodeVars, SwarmInv
<1>2. CASE Next
  <2>1. PICK n \in Nodes : Turn(n) \/ Timeout(n) \/ Environment(n)
    BY <1>2 DEF Next
  <2>2. CASE UserAsks(n)
    BY <2>2, UserAsksType
  <2>3. CASE Scan(n)
    BY <2>3, ScanType DEF Scan
  <2>4. ASSUME NEW p \in OtherNodes(n), Handle(n, p) PROVE SwarmInv'
    <3>1. CASE AckWithoutWindow(n, p) \/ IhaveFollowsWild(n, p)
      <4>1. Segv(n)
        BY <3>1 DEF AckWithoutWindow, IhaveFollowsWild
      <4> QED BY <4>1, EndedType DEF Segv
    <3> QED BY <2>4, <3>1, WhohasHandlerType, IhaveNothingType, IhaveHandlerType,
               GetDeniedType, GetAcceptedType, AckHandlerType, DataIgnoredType,
               DataHandlerType, ChunkFetchedType, DeniedHandlerType DEF Handle
  <2>5. CASE Timeout(n)
    BY <2>5, TimeoutType
  <2>6. CASE Environment(n)
    <3>1. CASE Crash(n)
      BY <3>1, EndedType DEF Crash
    <3> QED BY <2>6, <3>1, LoseType DEF Environment
  <2> QED BY <2>1, <2>2, <2>3, <2>4, <2>5, <2>6 DEF Turn
<1> QED BY <1>1, <1>2

LEMMA SwarmInvariance == Spec => []SwarmInv
BY InitType, SwarmInductive, PTL DEF Spec

\* The records of all peers, their windows, controllers and files keep to their
\* types, and the three retransmission counters to their limits.
THEOREM SwarmTypeCorrect == Spec => []SwarmTypeOK
<1>1. SwarmInv => SwarmTypeOK
  <2> SUFFICES ASSUME SwarmInv, NEW n \in Nodes
               PROVE  SwarmTypeOK!(n)
    BY DEF SwarmTypeOK
  <2>1. /\ me[n].num_chunks \in Nat /\ me[n].chunks_fetched \in Int
        /\ me[n].fetching_or_fetched \subseteq Ids \cup {NotFound}
        /\ me[n].curr_to \in OtherNodes(n) \cup {NULL}
        /\ me[n].last_seq \in 0..FINALACK
    BY DEF SwarmInv, MeOK, Mes
  <2>2. ASSUME NEW i \in DOMAIN send_buffer[n]
        PROVE  send_buffer[n][i].data \in Chunks /\ send_buffer[n][i].seq_num \in Blocks
    <3>1. send_buffer[n] \in Seq(DataPackets)
      BY DEF SwarmInv, WindowOK
    <3>2. send_buffer[n][i] \in DataPackets
      BY <3>1, ElementOfSeq, LenProperties
    <3> QED BY <3>2 DEF DataPackets
  <2>3. ASSUME NEW p \in OtherNodes(n) PROVE PeerTypeOK(peer[n][p])
    <3>1. peer[n][p] \in Records(asked[n], asked[p])
      BY DEF SwarmInv, PeerOK
    <3>2. ASSUME NEW r \in Records(asked[n], asked[p]) PROVE PeerTypeOK(r)
      <4>1. ASSUME NEW i \in DOMAIN r.whohas_list
            PROVE  r.whohas_list[i].chunks \in Seq(Chunks)
        <5>1. r.whohas_list \in Seq(WhohasPackets(asked[n]))
          BY DEF Records
        <5>2. r.whohas_list[i] \in WhohasPackets(asked[n])
          BY <5>1, ElementOfSeq, LenProperties
        <5> QED BY <5>2 DEF WhohasPackets
      <4>2. r.pending_ihave = NULL \/ r.pending_ihave.chunks \in Seq(Chunks)
        BY DEF Records, IhavePackets
      <4>3. r.pending_get = NULL \/ r.pending_get.hash \in Chunks
        BY DEF Records, GetPackets
      <4>4. /\ r.hehas \in Seq([chunkhash : Chunks, chunk_id : Ids \cup {NotFound}])
            /\ r.get_hash_id \in Ids \cup {NotFound, PSUEDO_INF}
        <5>1. Listings(asked[n]) \subseteq [chunkhash : Chunks, chunk_id : Ids \cup {NotFound}]
          BY DEF Listings
        <5>2. r.hehas \in Seq(Listings(asked[n])) /\ r.get_hash_id \in Expected(asked[n])
          BY DEF Records
        <5>3. Seq(Listings(asked[n])) \subseteq
                Seq([chunkhash : Chunks, chunk_id : Ids \cup {NotFound}])
          <6> DEFINE Line == [chunkhash : Chunks, chunk_id : Ids \cup {NotFound}]
          <6>1. Listings(asked[n]) \subseteq Line
            BY <5>1
          <6> HIDE DEF Line
          <6>2. Seq(Listings(asked[n])) \subseteq Seq(Line)
            BY <6>1, ElementOfSeq
          <6> QED BY <6>2 DEF Line
        <5>4. r.get_hash_id \in Ids \cup {NotFound, PSUEDO_INF}
          BY <5>2 DEF Expected
        <5> QED BY <5>2, <5>3, <5>4
      <4> QED BY <4>1, <4>2, <4>3, <4>4 DEF PeerTypeOK, Records
    <3> QED BY <3>1, <3>2
  <2>4. /\ status[n] \in {"up", "crashed", "segv"}
        /\ CongestionOK(state[n])
        /\ \A b \in Places : file[n][b] \in Chunks \cup {PSUEDO_INF}
    BY DEF SwarmInv, StatusOK, WindowOK, FileOK
  <2> QED BY <2>1, <2>2, <2>3, <2>4
<1> QED BY <1>1, SwarmInvariance, PTL

\* Whoever waits for the answer to a WHOHAS has it at the head of its queue:
\* ihave_handler and retransmit_whohas never look at an empty one.
THEOREM WhohasAlwaysQueued == Spec => []WhohasQueued
<1>1. SwarmInv => WhohasQueued
  <2> SUFFICES ASSUME SwarmInv, NEW n \in Nodes, NEW p \in OtherNodes(n),
                      peer[n][p].pending_whohas
               PROVE  peer[n][p].whohas_list # << >>
    BY DEF WhohasQueued
  <2>1. peer[n][p] \in Records(asked[n], asked[p])
    BY DEF SwarmInv, PeerOK
  <2> QED BY <2>1 DEF Records
<1> QED BY <1>1, SwarmInvariance, PTL

-----------------------------------------------------------------------------
(* One service at a time.                                                  *)

\* The timeouts that end one service on account of another peer: the peer that
\* is given up is not the one that is served (get_handler points curr_to at
\* whoever it denies), a peer is forgotten while another one is served, or a
\* peer that sends nothing is given up while it is served.
StraysFromService ==
  \E n \in Nodes :
    \/ /\ TimeoutGivesUp(n) /\ me[n].his_request
       /\ ~peer[n][me[n].curr_to].his_request
    \/ \E p \in OtherNodes(n) :
         \/ PeerForgotten(n, p) /\ me[n].his_request /\ ~peer[n][p].his_request
         \/ PeerGivenUp(n, p) /\ peer[n][p].his_request

\* The flag says that there is a peer that is served, and there is one at most.
FlagAgrees ==
  \A n \in Nodes :
    /\ me[n].his_request <=> \E p \in OtherNodes(n) : peer[n][p].his_request
    /\ \A p, q \in OtherNodes(n) :
         peer[n][p].his_request /\ peer[n][q].his_request => p = q

\* q is a record like r, of a peer that is served as that of r is.
SameService(r, q) ==
  /\ DOMAIN q = DOMAIN r
  /\ q.his_request = r.his_request
  /\ r.his_request => q.send_hash_id = r.send_hash_id

\* A step that leaves every service as it was.
ServicesStay ==
  /\ \A m \in Nodes : me'[m].his_request = me[m].his_request
  /\ \A m \in Nodes : \A q \in OtherNodes(m) : SameService(peer[m][q], peer'[m][q])

\* Such a step leaves the flag in order.
LEMMA StayKeepsFlag ==
  ASSUME FlagAgrees, ServicesStay
  PROVE  FlagAgrees'
BY DEF FlagAgrees, ServicesStay, SameService

\* A step of n that changes its flag and its record of p alone.
OwnStep(n, p) ==
  /\ \A m \in Nodes : m # n => me'[m] = me[m] /\ peer'[m] = peer[m]
  /\ \A q \in OtherNodes(n) : q # p => peer'[n][q] = peer[n][q]

\* It leaves the flag in order when nobody else is served and the flag says
\* whether p is.
LEMMA OwnStepKeepsFlag ==
  ASSUME FlagAgrees, NEW n \in Nodes, NEW p \in OtherNodes(n), OwnStep(n, p),
         \A q \in OtherNodes(n) : q # p => ~peer[n][q].his_request,
         me'[n].his_request <=> peer'[n][p].his_request
  PROVE  FlagAgrees'
<1>1. ASSUME NEW m \in Nodes, m # n PROVE FlagAgrees!(m)'
  <2>1. me'[m] = me[m] /\ peer'[m] = peer[m]
    BY <1>1 DEF OwnStep
  <2> QED BY <2>1 DEF FlagAgrees
<1>2. \A q \in OtherNodes(n) : peer'[n][q].his_request => q = p
  BY DEF OwnStep
<1>3. FlagAgrees!(n)'
  BY <1>2
<1> QED BY <1>1, <1>3 DEF FlagAgrees

\* What the handlers of the fetching side make of a record does not touch the
\* service of the peer.
LEMMA FetchingKeepsService ==
  ASSUME NEW r, {"his_request", "send_hash_id"} \subseteq DOMAIN r
  PROVE  /\ SameService(r, send_next_whohas(r))
         /\ SameService(r, Answered(r)) /\ SameService(r, Refused(r))
         /\ SameService(r, post_receive_cleanup(r))
         /\ \A cs : SameService(r, Listed(r, cs))
         /\ \A pk : SameService(r, Inserted(r, pk))
         /\ \A fof : SameService(r, get_next_chunk(r, fof).r)
         /\ \A fof : SameService(r, AfterChunk(r, fof).r)
<1>1. SameService(r, send_next_whohas(r))
  BY DEF SameService, send_next_whohas
<1>2. SameService(r, Answered(r)) /\ SameService(r, Refused(r))
  BY DEF SameService, Answered, Refused
<1>3. SameService(r, post_receive_cleanup(r))
  BY DEF SameService, post_receive_cleanup
<1>4. \A cs : SameService(r, Listed(r, cs))
  BY DEF SameService, Listed
<1>5. \A pk : SameService(r, Inserted(r, pk))
  BY DEF SameService, Inserted
<1>6. ASSUME NEW fof PROVE SameService(r, get_next_chunk(r, fof).r)
  BY DEF SameService, get_next_chunk
<1>7. ASSUME NEW fof PROVE SameService(r, AfterChunk(r, fof).r)
  <2> DEFINE done == [r EXCEPT !.num_chunks = 0, !.chunks_fetched = 0, !.hehas = << >>]
  <2>1. SameService(r, done)
    BY DEF SameService
  <2> HIDE DEF done
  <2>2. SameService(done, send_next_whohas(done))
    BY <2>1 DEF SameService, send_next_whohas
  <2>3. AfterChunk(r, fof) =
          IF r.chunks_fetched < r.num_chunks THEN get_next_chunk(r, fof)
          ELSE [r |-> send_next_whohas(done), fof |-> fof, get |-> NextWhohas(done)]
    BY DEF AfterChunk, done
  <2>4. AfterChunk(r, fof).r = get_next_chunk(r, fof).r
        \/ AfterChunk(r, fof).r = send_next_whohas(done)
    BY <2>3
  <2> QED BY <1>6, <2>1, <2>2, <2>4 DEF SameService
<1> QED BY <1>1, <1>2, <1>3, <1>4, <1>5, <1>6, <1>7

\* A step of n that replaces its record of p and what it knows of itself.
LEMMA StepKeepsServices ==
  ASSUME SwarmInv, NEW n \in Nodes, NEW p \in OtherNodes(n),
         NEW r, SameService(peer[n][p], r),
         peer' = [peer EXCEPT ![n][p] = r],
         \A m \in Nodes \ {n} : me'[m] = me[m],
         me'[n].his_request = me[n].his_request
  PROVE  ServicesStay
<1>1. ASSUME NEW m \in Nodes, NEW q \in OtherNodes(m)
      PROVE  SameService(peer[m][q], peer'[m][q])
  <2>1. CASE m = n /\ q = p
    BY <2>1 DEF SwarmInv, PeerOK, ByPair
  <2>2. CASE ~(m = n /\ q = p)
    <3>1. peer'[m][q] = peer[m][q]
      BY <1>1, <2>2 DEF SwarmInv, PeerOK, ByPair
    <3> QED BY <3>1 DEF SameService
  <2> QED BY <2>1, <2>2
<1> QED BY <1>1 DEF ServicesStay

\* Handlers of the fetching side.
LEMMA FetchingKeepsServices ==
  ASSUME SwarmInv, NEW n \in Nodes, NEW p \in OtherNodes(n),
         \/ WhohasHandler(n, p) \/ IhaveNothing(n, p) \/ IhaveHandler(n, p)
         \/ DataIgnored(n, p) \/ DataHandler(n, p) \/ ChunkFetched(n, p)
         \/ DeniedHandler(n, p)
  PROVE  ServicesStay /\ UNCHANGED <<asked, send_buffer>>
<1> DEFINE r == peer[n][p]
<1>1. {"his_request", "send_hash_id"} \subseteq DOMAIN r
  BY DEF SwarmInv, PeerOK, Records
<1>2. \A m \in Nodes : "his_request" \in DOMAIN me[m]
  BY DEF SwarmInv, MeOK, Mes
<1>3. DOMAIN me = Nodes
  BY DEF SwarmInv, MeOK
<1> HIDE DEF r
<1>4. CASE WhohasHandler(n, p)
  <2>1. PICK x : /\ peer' = [peer EXCEPT ![n][p].pending_ihave = x]
                 /\ UNCHANGED <<asked, send_buffer, me>>
    BY <1>4 DEF WhohasHandler
  <2> DEFINE q == [r EXCEPT !.pending_ihave = x]
  <2>2. SameService(r, q)
    BY <1>1 DEF SameService
  <2>3. peer' = [peer EXCEPT ![n][p] = q]
    BY <2>1 DEF r
  <2> HIDE DEF q
  <2> QED BY <2>1, <2>2, <2>3, StepKeepsServices DEF r
<1>5. CASE IhaveNothing(n, p)
  <2> DEFINE a == Answered(r)
             q == send_next_whohas(a)
  <2>1. peer' = [peer EXCEPT ![n][p] = q] /\ UNCHANGED <<asked, send_buffer, me>>
    BY <1>5 DEF IhaveNothing, r
  <2>2. SameService(r, a)
    BY <1>1, FetchingKeepsService
  <2>3. {"his_request", "send_hash_id"} \subseteq DOMAIN a
    BY <1>1, <2>2 DEF SameService
  <2> HIDE DEF a
  <2>4. SameService(a, q)
    BY <2>3, FetchingKeepsService
  <2>5. SameService(r, q)
    BY <2>2, <2>4 DEF SameService
  <2> HIDE DEF q
  <2> QED BY <2>1, <2>5, StepKeepsServices DEF r
<1>6. CASE DeniedHandler(n, p)
  <2>1. peer' = [peer EXCEPT ![n][p] = Refused(r)] /\ UNCHANGED <<asked, send_buffer, me>>
    BY <1>6 DEF DeniedHandler, r
  <2>2. SameService(r, Refused(r))
    BY <1>1, FetchingKeepsService
  <2> QED BY <2>1, <2>2, StepKeepsServices DEF r
<1>7. CASE IhaveHandler(n, p)
  <2> DEFINE a == Answered(r)
             l(cs) == Listed(a, cs)
             next(cs) == get_next_chunk(l(cs), me[n].fetching_or_fetched)
  <2>1. PICK cs : /\ peer' = [peer EXCEPT ![n][p] = next(cs).r]
                  /\ me' = [me EXCEPT ![n].fetching_or_fetched = next(cs).fof]
                  /\ UNCHANGED <<asked, send_buffer>>
    BY <1>7 DEF IhaveHandler, r
  <2>2. SameService(r, a)
    BY <1>1, FetchingKeepsService
  <2>3. {"his_request", "send_hash_id"} \subseteq DOMAIN a
    BY <1>1, <2>2 DEF SameService
  <2> HIDE DEF a
  <2>4. SameService(a, l(cs))
    BY <2>3, FetchingKeepsService
  <2>5. {"his_request", "send_hash_id"} \subseteq DOMAIN l(cs)
    BY <2>3, <2>4 DEF SameService
  <2> HIDE DEF l
  <2>6. SameService(l(cs), next(cs).r)
    BY <2>5, FetchingKeepsService
  <2>7. SameService(r, next(cs).r)
    BY <2>2, <2>4, <2>6 DEF SameService
  <2> HIDE DEF next
  <2>8. /\ \A m \in Nodes \ {n} : me'[m] = me[m]
        /\ me'[n].his_request = me[n].his_request
    BY <1>2, <1>3, <2>1
  <2> QED BY <2>1, <2>7, <2>8, StepKeepsServices DEF r
<1>8. CASE DataIgnored(n, p)
  <2> DEFINE q == [r EXCEPT !.ack_timeout_counter = 0]
             next == get_next_chunk(q, me[n].fetching_or_fetched)
  <2>1. /\ peer' = [peer EXCEPT ![n][p] = next.r]
        /\ me' = [me EXCEPT ![n].fetching_or_fetched = next.fof]
        /\ UNCHANGED <<asked, send_buffer>>
    BY <1>8 DEF DataIgnored, r
  <2>2. SameService(r, q) /\ {"his_request", "send_hash_id"} \subseteq DOMAIN q
    BY <1>1 DEF SameService
  <2> HIDE DEF q
  <2>3. SameService(q, next.r)
    BY <2>2, FetchingKeepsService
  <2>4. SameService(r, next.r)
    BY <2>2, <2>3 DEF SameService
  <2> HIDE DEF next
  <2>5. /\ \A m \in Nodes \ {n} : me'[m] = me[m]
        /\ me'[n].his_request = me[n].his_request
    BY <1>2, <1>3, <2>1
  <2> QED BY <2>1, <2>4, <2>5, StepKeepsServices DEF r
<1>9. CASE DataHandler(n, p)
  <2>1. PICK pk : /\ peer' = [peer EXCEPT ![n][p] = Inserted(r, pk)]
                  /\ UNCHANGED <<asked, send_buffer, me>>
    BY <1>9 DEF DataHandler, r
  <2>2. SameService(r, Inserted(r, pk))
    BY <1>1, FetchingKeepsService
  <2> QED BY <2>1, <2>2, StepKeepsServices DEF r
<1>10. CASE ChunkFetched(n, p)
  <2> DEFINE a(pk) == Inserted(r, pk)
             c(pk) == post_receive_cleanup(a(pk))
             next(pk) == AfterChunk(c(pk), me[n].fetching_or_fetched)
  <2>1. PICK pk : /\ peer' = [peer EXCEPT ![n][p] = next(pk).r]
                  /\ CountChunk(n, next(pk).fof) /\ UNCHANGED <<asked, send_buffer>>
    BY <1>10 DEF ChunkFetched, r
  <2>2. SameService(r, a(pk))
    BY <1>1, FetchingKeepsService
  <2>3. {"his_request", "send_hash_id"} \subseteq DOMAIN a(pk)
    BY <1>1, <2>2 DEF SameService
  <2> HIDE DEF a
  <2>4. SameService(a(pk), c(pk))
    BY <2>3, FetchingKeepsService
  <2>5. {"his_request", "send_hash_id"} \subseteq DOMAIN c(pk)
    BY <2>3, <2>4 DEF SameService
  <2> HIDE DEF c
  <2>6. SameService(c(pk), next(pk).r)
    BY <2>5, FetchingKeepsService
  <2>7. SameService(r, next(pk).r)
    BY <2>2, <2>4, <2>6 DEF SameService
  <2> HIDE DEF next
  <2>8. \A m \in Nodes \ {n} : me'[m] = me[m]
    BY <1>3, <2>1 DEF CountChunk
  <2>9. me'[n].his_request = me[n].his_request
    BY <1>2, <1>3, <2>1 DEF CountChunk
  <2> QED BY <2>1, <2>7, <2>8, <2>9, StepKeepsServices DEF r
<1> QED BY <1>4, <1>5, <1>6, <1>7, <1>8, <1>9, <1>10

\* The handlers of the serving side that open no service and end none.
LEMMA ServingKeepsServices ==
  ASSUME SwarmInv, NEW n \in Nodes, NEW p \in OtherNodes(n), NEW ack,
         \/ GetDenied(n, p) \/ AckIgnored(n, p, ack)
         \/ TripleDupack(n, p, ack) \/ AckAdvances(n, p, ack)
  PROVE  ServicesStay
<1> DEFINE r == peer[n][p]
           c == CountAck(r, ack)
<1>1. {"his_request", "send_hash_id"} \subseteq DOMAIN r
  BY DEF SwarmInv, PeerOK, Records
<1>2. \A m \in Nodes : {"his_request", "curr_to", "last_seq"} \subseteq DOMAIN me[m]
  BY DEF SwarmInv, MeOK, Mes
<1>3. DOMAIN me = Nodes
  BY DEF SwarmInv, MeOK
<1> HIDE DEF r
<1>4. SameService(r, c) /\ {"his_request", "send_hash_id"} \subseteq DOMAIN c
  BY <1>1 DEF CountAck, SameService
<1> HIDE DEF c
<1>5. CASE GetDenied(n, p)
  <2>1. me' = [me EXCEPT ![n].curr_to = p] /\ UNCHANGED peer
    BY <1>5 DEF GetDenied
  <2>2. \A m \in Nodes : me'[m].his_request = me[m].his_request
    BY <1>2, <1>3, <2>1
  <2> QED BY <2>1, <2>2 DEF ServicesStay, SameService
<1>6. CASE AckIgnored(n, p, ack)
  <2> DEFINE q == [r EXCEPT !.num_data_retransmits = 0]
  <2>1. peer' = [peer EXCEPT ![n][p] = q] /\ UNCHANGED me
    BY <1>6 DEF AckIgnored, r
  <2>2. SameService(r, q)
    BY <1>1 DEF SameService
  <2> HIDE DEF q
  <2> QED BY <2>1, <2>2, StepKeepsServices DEF r
<1>7. CASE TripleDupack(n, p, ack)
  <2> DEFINE q == [c EXCEPT !.num_dupacks = 1]
  <2>1. peer' = [peer EXCEPT ![n][p] = q] /\ UNCHANGED me
    BY <1>7 DEF TripleDupack, r, c
  <2>2. SameService(r, q)
    BY <1>4 DEF SameService
  <2> HIDE DEF q
  <2> QED BY <2>1, <2>2, StepKeepsServices DEF r
<1>8. CASE AckAdvances(n, p, ack)
  <2>1. PICK l : /\ peer' = [peer EXCEPT ![n][p] = c]
                 /\ me' = [me EXCEPT ![n].last_seq = l]
    BY <1>8 DEF AckAdvances, r, c
  <2>2. /\ \A m \in Nodes \ {n} : me'[m] = me[m]
        /\ me'[n].his_request = me[n].his_request
    BY <1>2, <1>3, <2>1
  <2> QED BY <1>4, <2>1, <2>2, StepKeepsServices DEF r
<1> QED BY <1>5, <1>6, <1>7, <1>8

\* A GET opens a service of the chunk it names.
LEMMA GetOpensService ==
  ASSUME SwarmInv, NEW n \in Nodes, NEW p \in OtherNodes(n), GetAccepted(n, p)
  PROVE  /\ OwnStep(n, p)
         /\ ~me[n].his_request
         /\ me'[n].his_request = TRUE /\ peer'[n][p].his_request = TRUE
         /\ \A m \in Nodes : m # n => send_buffer'[m] = send_buffer[m]
         /\ send_buffer[n] = << >>
              => send_buffer'[n] \in Seq(DataOf(peer'[n][p].send_hash_id))
<1> DEFINE r == peer[n][p]
           q(h) == [r EXCEPT !.pending_ihave = NULL, !.his_request = TRUE,
                             !.send_hash_id = h]
           data(h) == NextData(q(h), init_congestion_state, 1, send_buffer[n])
<1>1. {"his_request", "send_hash_id", "last_ack"} \subseteq DOMAIN r /\ r.last_ack \in Nat
  BY DEF SwarmInv, PeerOK, Records
<1>2. /\ \A m \in Nodes : {"his_request", "curr_to", "last_seq"} \subseteq DOMAIN me[m]
      /\ DOMAIN me = Nodes /\ ByPair(peer)
      /\ send_buffer \in [Nodes -> Seq(DataPackets)]
  BY DEF SwarmInv, MeOK, Mes, PeerOK, WindowOK
<1>3. PICK pk, l :
        /\ pk \in Arriving(n, p, "GET")
        /\ ~me[n].his_request
        /\ me' = [me EXCEPT ![n].curr_to = p, ![n].his_request = TRUE, ![n].last_seq = l]
        /\ peer' = [peer EXCEPT ![n][p] = q(pk.hash)]
        /\ send_buffer' = [send_buffer EXCEPT ![n] = send_buffer[n] \o data(pk.hash)]
  BY DEF GetAccepted, send_next_data
<1> HIDE DEF r
<1>5. /\ q(pk.hash).his_request = TRUE /\ q(pk.hash).send_hash_id = pk.hash
      /\ q(pk.hash).last_ack \in Nat
  BY <1>1
<1> HIDE DEF q
<1>6. /\ peer'[n][p] = q(pk.hash) /\ \A m \in Nodes : m # n => peer'[m] = peer[m]
      /\ \A o \in OtherNodes(n) : o # p => peer'[n][o] = peer[n][o]
  BY <1>2, <1>3 DEF ByPair
<1>7. me'[n].his_request = TRUE /\ \A m \in Nodes : m # n => me'[m] = me[m]
  BY <1>2, <1>3
<1>8. data(pk.hash) \in Seq(DataOf(pk.hash))
  <2>1. 1 \in 1..(FINALACK + 1) /\ init_congestion_state \in CongestionStates
    BY SwarmAssumption, InitCongestion
  <2> QED BY <1>2, <1>5, <2>1, NextDataOfChunk
<1> HIDE DEF data
<1>9. send_buffer'[n] = send_buffer[n] \o data(pk.hash)
      /\ \A m \in Nodes : m # n => send_buffer'[m] = send_buffer[m]
  BY <1>2, <1>3
<1>10. send_buffer[n] = << >> => send_buffer'[n] \in Seq(DataOf(peer'[n][p].send_hash_id))
  <2>1. send_buffer[n] = << >> => send_buffer'[n] = data(pk.hash)
    BY <1>8, <1>9, ConcatEmptySeq
  <2> QED BY <1>5, <1>6, <1>8, <2>1
<1> QED BY <1>3, <1>5, <1>6, <1>7, <1>9, <1>10 DEF OwnStep

\* Whatever ends a service through an ack or a timeout of the data empties the
\* window with it.
LEMMA FinalAckEndsService ==
  ASSUME SwarmInv, NEW n \in Nodes, NEW p \in OtherNodes(n), NEW ack, FinalAck(n, p, ack)
  PROVE  /\ OwnStep(n, p) /\ peer[n][p].his_request
         /\ me'[n].his_request = FALSE /\ peer'[n][p].his_request = FALSE
         /\ send_buffer' = [send_buffer EXCEPT ![n] = << >>]
<1> DEFINE r == peer[n][p]
           c == CountAck(r, ack)
           q == post_send_cleanup(c)
<1>1. "his_request" \in DOMAIN r
  BY DEF SwarmInv, PeerOK, Records
<1>2. /\ \A m \in Nodes : {"his_request", "curr_to", "last_seq"} \subseteq DOMAIN me[m]
      /\ DOMAIN me = Nodes /\ ByPair(peer)
  BY DEF SwarmInv, MeOK, Mes, PeerOK
<1>3. /\ peer' = [peer EXCEPT ![n][p] = q]
      /\ me' = [me EXCEPT ![n].curr_to = NULL, ![n].his_request = FALSE]
      /\ send_buffer' = [send_buffer EXCEPT ![n] = << >>]
      /\ r.his_request
  BY DEF FinalAck, destroy_entries, AckCounts
<1> HIDE DEF r
<1>4. "his_request" \in DOMAIN c
  BY <1>1 DEF CountAck
<1> HIDE DEF c
<1>5. q.his_request = FALSE
  BY <1>4 DEF post_send_cleanup
<1> HIDE DEF q
<1>6. /\ peer'[n][p] = q /\ \A m \in Nodes : m # n => peer'[m] = peer[m]
      /\ \A o \in OtherNodes(n) : o # p => peer'[n][o] = peer[n][o]
  BY <1>2, <1>3 DEF ByPair
<1>7. me'[n].his_request = FALSE /\ \A m \in Nodes : m # n => me'[m] = me[m]
  BY <1>2, <1>3
<1> QED BY <1>3, <1>5, <1>6, <1>7 DEF OwnStep, r

\* A GET opens a service only when there is none, in the flag and in the record,
\* and the final ack ends it in both.
LEMMA ServingKeepsFlag ==
  ASSUME SwarmInv, FlagAgrees, NEW n \in Nodes, NEW p \in OtherNodes(n),
         \/ GetDenied(n, p) \/ GetAccepted(n, p) \/ AckHandler(n, p)
  PROVE  FlagAgrees'
<1>1. CASE GetAccepted(n, p)
  <2>1. /\ OwnStep(n, p) /\ ~me[n].his_request
        /\ me'[n].his_request = TRUE /\ peer'[n][p].his_request = TRUE
    BY <1>1, GetOpensService
  <2>2. \A q \in OtherNodes(n) : ~peer[n][q].his_request
    BY <2>1 DEF FlagAgrees
  <2> QED BY <2>1, <2>2, OwnStepKeepsFlag
<1>2. CASE GetDenied(n, p)
  BY <1>2, ServingKeepsServices, StayKeepsFlag
<1>3. CASE AckHandler(n, p)
  <2>1. PICK ack : \/ AckIgnored(n, p, ack) \/ FinalAck(n, p, ack)
                   \/ TripleDupack(n, p, ack) \/ AckAdvances(n, p, ack)
    BY <1>3 DEF AckHandler
  <2>2. CASE FinalAck(n, p, ack)
    <3>1. /\ OwnStep(n, p) /\ peer[n][p].his_request
          /\ me'[n].his_request = FALSE /\ peer'[n][p].his_request = FALSE
      BY <2>2, FinalAckEndsService
    <3>2. \A q \in OtherNodes(n) : q # p => ~peer[n][q].his_request
      BY <3>1 DEF FlagAgrees
    <3> QED BY <3>1, <3>2, OwnStepKeepsFlag
  <2>3. CASE AckIgnored(n, p, ack) \/ TripleDupack(n, p, ack) \/ AckAdvances(n, p, ack)
    BY <2>3, ServingKeepsServices, StayKeepsFlag
  <2> QED BY <2>1, <2>2, <2>3
<1> QED BY <1>1, <1>2, <1>3

\* A command starts no service, and ends none.
LEMMA UserKeepsServices ==
  ASSUME SwarmInv, NEW n \in Nodes, UserAsks(n)
  PROVE  ServicesStay /\ UNCHANGED send_buffer
<1> DEFINE rq == setup.requests[n][asked[n] + 1]
           queued(p) == [peer[n][p] EXCEPT !.whohas_list = @ \o Split(rq)]
<1>1. /\ UNCHANGED send_buffer
      /\ me' = [me EXCEPT ![n].num_chunks = Len(rq), ![n].chunks_fetched = 0]
      /\ peer' = [peer EXCEPT ![n] =
                    [p \in OtherNodes(n) |-> send_next_whohas(queued(p))]]
  BY DEF UserAsks
<1>2. ASSUME NEW m \in Nodes PROVE me'[m].his_request = me[m].his_request
  BY <1>1 DEF SwarmInv, MeOK, Mes
<1>3. ASSUME NEW m \in Nodes, NEW o \in OtherNodes(m)
      PROVE  SameService(peer[m][o], peer'[m][o])
  <2>1. CASE m = n
    <3>1. {"his_request", "send_hash_id"} \subseteq DOMAIN peer[n][o]
      BY <1>3, <2>1 DEF SwarmInv, PeerOK, Records
    <3>2. /\ SameService(peer[n][o], queued(o))
          /\ {"his_request", "send_hash_id"} \subseteq DOMAIN queued(o)
      BY <3>1 DEF SameService
    <3> HIDE DEF queued
    <3>3. SameService(queued(o), send_next_whohas(queued(o)))
      BY <3>2, FetchingKeepsService
    <3>4. peer'[n][o] = send_next_whohas(queued(o))
      BY <1>1, <1>3, <2>1 DEF SwarmInv, PeerOK, ByPair
    <3> QED BY <2>1, <3>2, <3>3, <3>4 DEF SameService
  <2>2. CASE m # n
    BY <1>1, <2>2 DEF SwarmInv, PeerOK, ByPair, SameService
  <2> QED BY <2>1, <2>2
<1> QED BY <1>1, <1>2, <1>3 DEF ServicesStay

\* The timers, as long as nobody is forgotten or given up.
LEMMA TimersKeepServices ==
  ASSUME SwarmInv, NEW n \in Nodes, NEW p \in OtherNodes(n),
         TimeoutIdle(n) \/ TimeoutResends(n) \/ PeerWaits(n, p)
  PROVE  ServicesStay /\ UNCHANGED <<asked, send_buffer>>
<1>1. ASSUME NEW o \in OtherNodes(n)
      PROVE  {"his_request", "send_hash_id"} \subseteq DOMAIN peer[n][o]
  BY DEF SwarmInv, PeerOK, Records
<1>2. me[n].curr_to \in OtherNodes(n) \cup {NULL} /\ ByPair(peer)
  BY DEF SwarmInv, MeOK, PeerOK, Mes
<1>3. UNCHANGED <<me, peer>> => ServicesStay
  BY DEF ServicesStay, SameService
<1>4. CASE TimeoutIdle(n)
  BY <1>3, <1>4 DEF TimeoutIdle, nodeVars
<1>5. CASE TimeoutResends(n)
  <2>1. CASE send_buffer[n] = << >>
    BY <1>3, <1>5, <2>1 DEF TimeoutResends, Segv
  <2>2. CASE send_buffer[n] # << >>
    <3> DEFINE o == me[n].curr_to
               q == [peer[n][o] EXCEPT !.num_data_retransmits = @ + 1]
    <3>1. /\ UNCHANGED <<asked, send_buffer, me>> /\ peer' = [peer EXCEPT ![n][o] = q]
          /\ o # NULL
      BY <1>5, <2>2 DEF TimeoutResends
    <3>2. o \in OtherNodes(n)
      BY <1>2, <3>1
    <3>3. SameService(peer[n][o], q)
      BY <1>1, <3>2 DEF SameService
    <3> HIDE DEF o, q
    <3> QED BY <3>1, <3>2, <3>3, StepKeepsServices
  <2> QED BY <2>1, <2>2
<1>6. CASE PeerWaits(n, p)
  <2>1. PICK k, l : /\ peer' = [peer EXCEPT ![n][p].num_retransmits = k,
                                           ![n][p].ack_timeout_counter = l]
                    /\ UNCHANGED <<asked, send_buffer, me>>
    BY <1>6 DEF PeerWaits
  <2> DEFINE q == [peer[n][p] EXCEPT !.num_retransmits = k, !.ack_timeout_counter = l]
  <2>2. peer' = [peer EXCEPT ![n][p] = q]
    BY <1>2, <2>1 DEF ByPair
  <2>3. SameService(peer[n][p], q)
    BY <1>1 DEF SameService
  <2> HIDE DEF q
  <2> QED BY <2>1, <2>2, <2>3, StepKeepsServices
<1> QED BY <1>4, <1>5, <1>6

\* Whoever gives up what it serves, or forgets a peer, serves nobody and has
\* no record of a service to the peer; only the former empties the window.
LEMMA CleanupEndsService ==
  ASSUME SwarmInv, NEW n \in Nodes, NEW p \in OtherNodes(n),
         \/ TimeoutGivesUp(n) /\ p = me[n].curr_to
         \/ PeerForgotten(n, p)
  PROVE  /\ OwnStep(n, p)
         /\ me'[n].his_request = FALSE /\ peer'[n][p].his_request = FALSE
         /\ TimeoutGivesUp(n) => send_buffer' = [send_buffer EXCEPT ![n] = << >>]
         /\ PeerForgotten(n, p) => UNCHANGED send_buffer
<1> DEFINE q == peer_total_cleanup(peer[n][p])
<1>1. FALSE = q.his_request
  BY DEF NewPeer, peer_total_cleanup
<1>2. /\ \A m \in Nodes : {"his_request", "curr_to"} \subseteq DOMAIN me[m]
      /\ DOMAIN me = Nodes /\ ByPair(peer)
  BY DEF SwarmInv, MeOK, Mes, PeerOK
<1>3. /\ peer' = [peer EXCEPT ![n][p] = q]
      /\ me' = [me EXCEPT ![n].curr_to = NULL, ![n].his_request = FALSE]
  BY DEF TimeoutGivesUp, PeerForgotten
<1> HIDE DEF q
<1>4. /\ peer'[n][p] = q /\ \A m \in Nodes : m # n => peer'[m] = peer[m]
      /\ \A o \in OtherNodes(n) : o # p => peer'[n][o] = peer[n][o]
  BY <1>2, <1>3 DEF ByPair
<1>5. me'[n].his_request = FALSE /\ \A m \in Nodes : m # n => me'[m] = me[m]
  BY <1>2, <1>3
<1>6. /\ TimeoutGivesUp(n) => send_buffer' = [send_buffer EXCEPT ![n] = << >>]
      /\ PeerForgotten(n, p) => UNCHANGED send_buffer
  BY DEF TimeoutGivesUp, PeerForgotten, destroy_entries
<1> QED BY <1>1, <1>3, <1>4, <1>5, <1>6 DEF OwnStep

\* Giving up a peer that does not send forgets a service of it, but not the
\* flag; when there is none, services stay.
LEMMA GivenUpKeepsServices ==
  ASSUME SwarmInv, NEW n \in Nodes, NEW p \in OtherNodes(n),
         PeerGivenUp(n, p), ~peer[n][p].his_request
  PROVE  ServicesStay /\ UNCHANGED send_buffer
<1>1. peer[n][p] \in Records(asked[n], asked[p])
  BY DEF SwarmInv, PeerOK
<1>2. /\ \A m \in Nodes : {"his_request", "num_chunks", "chunks_fetched"} \subseteq DOMAIN me[m]
      /\ DOMAIN me = Nodes
  BY DEF SwarmInv, MeOK, Mes
<1>3. PICK k, l : /\ peer' = [peer EXCEPT ![n][p] = NewPeer(Cleared)]
                  /\ me' = [me EXCEPT ![n].num_chunks = k, ![n].chunks_fetched = l,
                                     ![n].fetching_or_fetched = {}]
                  /\ UNCHANGED send_buffer
  BY DEF PeerGivenUp
<1>4. SameService(peer[n][p], NewPeer(Cleared))
  <2>1. ASSUME NEW r \in Records(asked[n], asked[p]), ~r.his_request
        PROVE  r.his_request = FALSE /\ DOMAIN r = DOMAIN NewPeer(Cleared)
    BY <2>1 DEF Records, NewPeer
  <2>2. NewPeer(Cleared).his_request = FALSE
    BY DEF NewPeer
  <2> QED BY <1>1, <2>1, <2>2 DEF SameService
<1>5. me'[n].his_request = me[n].his_request /\ \A m \in Nodes \ {n} : me'[m] = me[m]
  BY <1>2, <1>3
<1> QED BY <1>3, <1>4, <1>5, StepKeepsServices

LEMMA TimersKeepFlag ==
  ASSUME SwarmInv, FlagAgrees, ~StraysFromService,
         NEW n \in Nodes, Timeout(n) \/ Scan(n)
  PROVE  FlagAgrees'
<1>1. CASE TimeoutIdle(n) \/ TimeoutResends(n)
           \/ \E p \in OtherNodes(n) : PeerWaits(n, p)
  <2>1. CASE TimeoutIdle(n)
    BY <2>1, StayKeepsFlag DEF TimeoutIdle, nodeVars, ServicesStay, SameService
  <2>2. ASSUME NEW p \in OtherNodes(n), TimeoutResends(n) \/ PeerWaits(n, p)
        PROVE  FlagAgrees'
    BY <2>2, TimersKeepServices, StayKeepsFlag
  <2>3. TimeoutResends(n) => me[n].curr_to \in OtherNodes(n)
    BY DEF TimeoutResends, SwarmInv, MeOK, Mes
  <2> QED BY <1>1, <2>1, <2>2, <2>3
<1>2. ASSUME NEW p \in OtherNodes(n),
             \/ TimeoutGivesUp(n) /\ p = me[n].curr_to
             \/ PeerForgotten(n, p)
      PROVE  FlagAgrees'
  <2>1. /\ OwnStep(n, p)
        /\ me'[n].his_request = FALSE /\ peer'[n][p].his_request = FALSE
    BY <1>2, CleanupEndsService
  <2>2. me[n].his_request => peer[n][p].his_request
    BY <1>2 DEF StraysFromService
  <2>3. \A q \in OtherNodes(n) : q # p => ~peer[n][q].his_request
    BY <2>2 DEF FlagAgrees
  <2> QED BY <2>1, <2>3, OwnStepKeepsFlag
<1>3. TimeoutGivesUp(n) => me[n].curr_to \in OtherNodes(n)
  BY DEF TimeoutGivesUp, SwarmInv, MeOK, Mes
<1>4. ASSUME NEW p \in OtherNodes(n), PeerGivenUp(n, p) PROVE FlagAgrees'
  <2>1. ~peer[n][p].his_request
    BY <1>4 DEF StraysFromService
  <2> QED BY <1>4, <2>1, GivenUpKeepsServices, StayKeepsFlag
<1>5. ASSUME NEW p \in OtherNodes(n), TimeoutFollowsWild(n) \/ ScanFollowsWild(n, p)
      PROVE  FlagAgrees'
  BY <1>5 DEF TimeoutFollowsWild, ScanFollowsWild, Segv, FlagAgrees
<1>6. TimeoutFollowsWild(n) => me[n].curr_to \in OtherNodes(n)
  BY DEF TimeoutFollowsWild, SwarmInv, MeOK, Mes
<1> QED BY <1>1, <1>2, <1>3, <1>4, <1>5, <1>6 DEF Timeout, Scan

LEMMA FlagInit == Init => FlagAgrees
<1> SUFFICES ASSUME Init, NEW n \in Nodes
             PROVE  /\ me[n].his_request = FALSE
                    /\ \A p \in OtherNodes(n) : peer[n][p].his_request = FALSE
  BY DEF FlagAgrees
<1>1. /\ me[n] = NewMe
      /\ \A p \in OtherNodes(n) : peer[n][p] = NewPeer(setup.leftover[n][p])
  BY DEF Init
<1>2. me[n].his_request = FALSE
  BY <1>1 DEF NewMe
<1>3. \A old : NewPeer(old).his_request = FALSE
  BY DEF NewPeer
<1> QED BY <1>1, <1>2, <1>3

LEMMA FlagStep ==
  ASSUME SwarmInv, FlagAgrees, [Next]_vars, ~StraysFromService
  PROVE  FlagAgrees'
<1>1. CASE UNCHANGED <<me, peer>>
  BY <1>1 DEF FlagAgrees
<1>2. ASSUME NEW n \in Nodes, NEW p \in OtherNodes(n), Handle(n, p)
      PROVE  FlagAgrees' \/ UNCHANGED <<me, peer>>
  <2>1. CASE \/ WhohasHandler(n, p) \/ IhaveNothing(n, p) \/ IhaveHandler(n, p)
             \/ DataIgnored(n, p) \/ DataHandler(n, p) \/ ChunkFetched(n, p)
             \/ DeniedHandler(n, p)
    BY <2>1, FetchingKeepsServices, StayKeepsFlag
  <2>2. CASE GetDenied(n, p) \/ GetAccepted(n, p) \/ AckHandler(n, p)
    BY <2>2, ServingKeepsFlag
  <2>3. CASE AckWithoutWindow(n, p) \/ IhaveFollowsWild(n, p)
    BY <2>3 DEF AckWithoutWindow, IhaveFollowsWild, Segv
  <2> QED BY <1>2, <2>1, <2>2, <2>3 DEF Handle
<1>3. ASSUME NEW n \in Nodes, UserAsks(n) PROVE FlagAgrees'
  BY <1>3, UserKeepsServices, StayKeepsFlag
<1>4. ASSUME NEW n \in Nodes, Turn(n) \/ Timeout(n) \/ Environment(n)
      PROVE  FlagAgrees'
  <2>1. Environment(n) => UNCHANGED <<me, peer>>
    BY DEF Environment, Crash, Lose, nodeVars
  <2> QED BY <1>1, <1>2, <1>3, <1>4, <2>1, TimersKeepFlag DEF Turn
<1> QED BY <1>1, <1>4 DEF Next, vars, nodeVars

LEMMA FlagInvariance == SwarmInv /\ FlagAgrees /\ [Next]_vars /\ [~StraysFromService]_vars
                          => FlagAgrees'
<1>1. UNCHANGED vars /\ FlagAgrees => FlagAgrees'
  BY DEF vars, nodeVars, FlagAgrees
<1> QED BY <1>1, FlagStep

\* The flag that makes a peer deny requests and its records agree (get_handler,
\* post_send_cleanup, peer_total_cleanup): however many ask, one of them is
\* served, or none, as long as no timeout ends a service on account of another
\* peer.  TwoServed.cfg has one that does: peer.c:419 clears the flag of
\* whichever service there is, and the next GET is accepted beside it.
THEOREM OneService == Spec /\ [][~StraysFromService]_vars => []ServesOne
<1>1. Init => FlagAgrees
  BY FlagInit
<1>2. SwarmInv /\ FlagAgrees /\ [Next]_vars /\ [~StraysFromService]_vars => FlagAgrees'
  BY FlagInvariance
<1>3. SwarmInv /\ FlagAgrees => ServesOne
  <2> SUFFICES ASSUME SwarmInv, FlagAgrees, NEW n \in Nodes
               PROVE  LET served == {p \in OtherNodes(n) : peer[n][p].his_request}
                      IN  Cardinality(served) = IF me[n].his_request THEN 1 ELSE 0
    BY DEF ServesOne
  <2> DEFINE served == {p \in OtherNodes(n) : peer[n][p].his_request}
  <2>1. CASE me[n].his_request
    <3>1. PICK p \in OtherNodes(n) : peer[n][p].his_request
      BY <2>1 DEF FlagAgrees
    <3>2. served = {p}
      BY <3>1 DEF FlagAgrees
    <3> QED BY <2>1, <3>2, FS_Singleton
  <2>2. CASE ~me[n].his_request
    <3>1. served = {}
      BY <2>2 DEF FlagAgrees
    <3> QED BY <2>2, <3>1, FS_EmptySet
  <2> QED BY <2>1, <2>2
<1> QED BY <1>1, <1>2, <1>3, SwarmInvariance, PTL DEF Spec

-----------------------------------------------------------------------------
(* The window of a service.                                                *)

\* A peer is forgotten while some peer is served.
ForgetsServed ==
  \E n \in Nodes : me[n].his_request /\ \E p \in OtherNodes(n) : PeerForgotten(n, p)

\* The window holds data of the chunk that is served, and is empty without a
\* service.
WindowAgrees ==
  \A n \in Nodes :
    /\ ~me[n].his_request => send_buffer[n] = << >>
    /\ \A p \in OtherNodes(n) :
         peer[n][p].his_request => send_buffer[n] \in Seq(DataOf(peer[n][p].send_hash_id))

LEMMA StayKeepsWindow ==
  ASSUME WindowAgrees, ServicesStay, UNCHANGED send_buffer
  PROVE  WindowAgrees'
BY DEF WindowAgrees, ServicesStay, SameService

\* A step of n that leaves its own window in order.
LEMMA WindowStep ==
  ASSUME WindowAgrees, NEW n \in Nodes, NEW p \in OtherNodes(n), OwnStep(n, p),
         \A q \in OtherNodes(n) : q # p => ~peer[n][q].his_request,
         \A m \in Nodes : m # n => send_buffer'[m] = send_buffer[m],
         ~me'[n].his_request => send_buffer'[n] = << >>,
         peer'[n][p].his_request
           => send_buffer'[n] \in Seq(DataOf(peer'[n][p].send_hash_id))
  PROVE  WindowAgrees'
<1>1. \A q \in OtherNodes(n) : peer'[n][q].his_request => q = p
  BY DEF OwnStep
<1>2. ASSUME NEW m \in Nodes
      PROVE  /\ ~me'[m].his_request => send_buffer'[m] = << >>
             /\ \A o \in OtherNodes(m) : peer'[m][o].his_request
                  => send_buffer'[m] \in Seq(DataOf(peer'[m][o].send_hash_id))
  <2>1. CASE m = n
    BY <1>1, <2>1
  <2>2. CASE m # n
    BY <1>2, <2>2 DEF WindowAgrees, OwnStep
  <2> QED BY <2>1, <2>2
<1> QED BY <1>2 DEF WindowAgrees

\* The handlers of the serving side: a service begins with an empty window, and
\* an ack takes from it and adds data of the chunk that is served.
LEMMA ServingKeepsWindow ==
  ASSUME SwarmInv, FlagAgrees, WindowAgrees,
         NEW n \in Nodes, NEW p \in OtherNodes(n),
         \/ GetDenied(n, p) \/ GetAccepted(n, p) \/ AckHandler(n, p)
  PROVE  WindowAgrees'
<1>1. CASE GetDenied(n, p)
  <2>1. UNCHANGED send_buffer
    BY <1>1 DEF GetDenied
  <2> QED BY <1>1, <2>1, ServingKeepsServices, StayKeepsWindow
<1>2. CASE GetAccepted(n, p)
  <2>1. /\ OwnStep(n, p)
        /\ \A m \in Nodes : m # n => send_buffer'[m] = send_buffer[m]
        /\ ~me[n].his_request /\ me'[n].his_request = TRUE
        /\ send_buffer[n] = << >>
             => send_buffer'[n] \in Seq(DataOf(peer'[n][p].send_hash_id))
    BY <1>2, GetOpensService
  <2>2. send_buffer[n] = << >> /\ \A q \in OtherNodes(n) : ~peer[n][q].his_request
    BY <2>1 DEF WindowAgrees, FlagAgrees
  <2> QED BY <2>1, <2>2, WindowStep
<1>3. CASE AckHandler(n, p)
  <2>1. PICK pk \in Arriving(n, p, "ACK") :
          \/ AckIgnored(n, p, pk.ack_num) \/ FinalAck(n, p, pk.ack_num)
          \/ TripleDupack(n, p, pk.ack_num) \/ AckAdvances(n, p, pk.ack_num)
    BY <1>3 DEF AckHandler
  <2> DEFINE ack == pk.ack_num
             r == peer[n][p]
             c == CountAck(r, ack)
             rest == Unacked(send_buffer[n], c.last_ack)
  <2>2. ack \in Blocks
    BY ArrivingType, PacketTypes DEF SwarmInv, AckPackets
  <2>3. /\ r \in Records(asked[n], asked[p]) /\ me[n] \in Mes(n)
        /\ send_buffer \in [Nodes -> Seq(DataPackets)]
        /\ state[n] \in CongestionStates /\ CongestionOK(state[n])
    BY DEF SwarmInv, PeerOK, MeOK, WindowOK
  <2> HIDE DEF ack
  <2>4. /\ c.last_ack \in Nat /\ c.send_hash_id = r.send_hash_id
        /\ r.send_hash_id \in Chunks \cup {PSUEDO_INF}
    <3>1. c \in Records(asked[n], asked[p])
      BY <2>2, <2>3, CountAckType
    <3>2. ASSUME NEW q \in Records(asked[n], asked[p])
          PROVE  CountAck(q, ack).send_hash_id = q.send_hash_id
      BY DEF CountAck, Records
    <3>3. ASSUME NEW q \in Records(asked[n], asked[p])
          PROVE  q.last_ack \in Nat /\ q.send_hash_id \in Chunks \cup {PSUEDO_INF}
      BY DEF Records
    <3> QED BY <2>3, <3>1, <3>2, <3>3
  <2>5. ASSUME r.his_request
        PROVE  /\ rest \in Seq(DataOf(r.send_hash_id)) /\ rest \in Seq(DataPackets)
               /\ me[n].his_request
    <3>1. r.send_hash_id \in Chunks
      BY <2>3, <2>5 DEF Records
    <3>2. DataOf(r.send_hash_id) \in SUBSET DataPackets
      BY <3>1 DEF DataOf, DataPackets
    <3>3. send_buffer[n] \in Seq(DataOf(r.send_hash_id))
      BY <2>5 DEF WindowAgrees
    <3>4. rest \in Seq(DataOf(r.send_hash_id))
      BY <2>4, <3>2, <3>3, UnackedType
    <3>5. rest \in Seq(DataPackets)
      BY <2>3, <2>4, UnackedType
    <3> QED BY <2>5, <3>4, <3>5 DEF FlagAgrees
  <2>6. CASE AckIgnored(n, p, ack)
    <3>1. UNCHANGED send_buffer
      BY <2>6 DEF AckIgnored
    <3> QED BY <2>6, <3>1, ServingKeepsServices, StayKeepsWindow
  <2>7. CASE FinalAck(n, p, ack)
    <3>1. /\ OwnStep(n, p) /\ peer[n][p].his_request
          /\ me'[n].his_request = FALSE /\ peer'[n][p].his_request = FALSE
          /\ send_buffer' = [send_buffer EXCEPT ![n] = << >>]
      BY <2>7, FinalAckEndsService
    <3>2. /\ \A m \in Nodes : m # n => send_buffer'[m] = send_buffer[m]
          /\ send_buffer'[n] = << >>
          /\ \A q \in OtherNodes(n) : q # p => ~peer[n][q].his_request
      BY <2>3, <3>1 DEF FlagAgrees
    <3> QED BY <3>1, <3>2, WindowStep
  <2>8. ASSUME NEW sb \in Seq(DataOf(r.send_hash_id)), ServicesStay,
               r.his_request, me[n].his_request,
               send_buffer' = [send_buffer EXCEPT ![n] = sb]
        PROVE  WindowAgrees'
    <3>1. ASSUME NEW m \in Nodes, m # n
          PROVE  send_buffer'[m] = send_buffer[m]
      BY <2>3, <2>8, <3>1
    <3>2. send_buffer'[n] = sb
      BY <2>3, <2>8
    <3>3. \A o \in OtherNodes(n) : peer'[n][o].his_request => o = p
      BY <2>8 DEF ServicesStay, SameService, FlagAgrees, r
    <3>4. ASSUME NEW m \in Nodes
          PROVE  /\ ~me'[m].his_request => send_buffer'[m] = << >>
                 /\ \A o \in OtherNodes(m) : peer'[m][o].his_request
                      => send_buffer'[m] \in Seq(DataOf(peer'[m][o].send_hash_id))
      <4>1. CASE m = n
        BY <2>8, <3>2, <3>3, <4>1 DEF ServicesStay, SameService, r
      <4>2. CASE m # n
        BY <2>8, <3>1, <4>2 DEF ServicesStay, SameService, WindowAgrees
      <4> QED BY <4>1, <4>2
    <3> QED BY <3>4 DEF WindowAgrees
  <2>9. CASE TripleDupack(n, p, ack)
    <3>1. send_buffer' = [send_buffer EXCEPT ![n] = rest] /\ r.his_request
      BY <2>9 DEF TripleDupack, AckCounts
    <3>2. ServicesStay
      BY <2>9, ServingKeepsServices
    <3> HIDE DEF rest, r
    <3> QED BY <2>5, <2>8, <3>1, <3>2
  <2>10. CASE AckAdvances(n, p, ack)
    <3> DEFINE cc == slow_start(state[n])
               data == NextData(c, cc, me[n].last_seq + 1, rest)
    <3>1. send_buffer' = [send_buffer EXCEPT ![n] = rest \o data] /\ r.his_request
      BY <2>10 DEF AckAdvances, AckCounts, send_next_data
    <3>2. ServicesStay
      BY <2>10, ServingKeepsServices
    <3>3. rest \in Seq(DataOf(r.send_hash_id)) /\ rest \in Seq(DataPackets)
          /\ me[n].his_request
      BY <2>5, <3>1
    <3>4. cc \in CongestionStates /\ me[n].last_seq + 1 \in 1..(FINALACK + 1)
      BY <2>3, SlowStartOK, SwarmAssumption DEF Mes
    <3> HIDE DEF rest, cc, c
    <3>5. data \in Seq(DataOf(r.send_hash_id))
      BY <2>4, <3>3, <3>4, NextDataOfChunk
    <3> HIDE DEF data, r
    <3>6. rest \o data \in Seq(DataOf(r.send_hash_id))
      BY <3>3, <3>5, ConcatProperties
    <3> QED BY <2>8, <3>1, <3>2, <3>3, <3>6
  <2> QED BY <2>1, <2>6, <2>7, <2>9, <2>10 DEF ack
<1> QED BY <1>1, <1>2, <1>3

\* The timers, unless a peer is forgotten while one is served.
LEMMA TimersKeepWindow ==
  ASSUME SwarmInv, FlagAgrees, WindowAgrees, ~StraysFromService, ~ForgetsServed,
         NEW n \in Nodes, Timeout(n) \/ Scan(n)
  PROVE  WindowAgrees'
<1>1. send_buffer \in [Nodes -> Seq(DataPackets)]
  BY DEF SwarmInv, WindowOK
<1>2. me[n].curr_to # NULL => me[n].curr_to \in OtherNodes(n)
  BY DEF SwarmInv, MeOK, Mes
<1>3. CASE TimeoutIdle(n)
  BY <1>3, StayKeepsWindow DEF TimeoutIdle, nodeVars, ServicesStay, SameService
<1>4. ASSUME NEW p \in OtherNodes(n), TimeoutResends(n) \/ PeerWaits(n, p)
      PROVE  WindowAgrees'
  BY <1>4, TimersKeepServices, StayKeepsWindow
<1>5. CASE TimeoutGivesUp(n)
  <2> DEFINE p == me[n].curr_to
  <2>1. p \in OtherNodes(n)
    BY <1>2, <1>5 DEF TimeoutGivesUp
  <2>2. /\ OwnStep(n, p)
        /\ me'[n].his_request = FALSE /\ peer'[n][p].his_request = FALSE
        /\ send_buffer' = [send_buffer EXCEPT ![n] = << >>]
    BY <1>5, <2>1, CleanupEndsService
  <2>3. me[n].his_request => peer[n][p].his_request
    BY <1>5 DEF StraysFromService
  <2>4. \A q \in OtherNodes(n) : q # p => ~peer[n][q].his_request
    BY <2>1, <2>3 DEF FlagAgrees
  <2>5. /\ \A m \in Nodes : m # n => send_buffer'[m] = send_buffer[m]
        /\ send_buffer'[n] = << >>
    BY <1>1, <2>2
  <2> HIDE DEF p
  <2> QED BY <2>1, <2>2, <2>4, <2>5, WindowStep
<1>6. ASSUME NEW p \in OtherNodes(n), PeerForgotten(n, p) PROVE WindowAgrees'
  <2>1. ~me[n].his_request
    BY <1>6 DEF ForgetsServed
  <2>2. /\ OwnStep(n, p)
        /\ me'[n].his_request = FALSE /\ peer'[n][p].his_request = FALSE
        /\ UNCHANGED send_buffer
    BY <1>6, CleanupEndsService
  <2>3. send_buffer[n] = << >> /\ \A q \in OtherNodes(n) : ~peer[n][q].his_request
    BY <2>1 DEF WindowAgrees, FlagAgrees
  <2> QED BY <2>2, <2>3, WindowStep
<1>7. ASSUME NEW p \in OtherNodes(n), PeerGivenUp(n, p) PROVE WindowAgrees'
  <2>1. ~peer[n][p].his_request
    BY <1>7 DEF StraysFromService
  <2> QED BY <1>7, <2>1, GivenUpKeepsServices, StayKeepsWindow
<1>8. ASSUME NEW p \in OtherNodes(n), TimeoutFollowsWild(n) \/ ScanFollowsWild(n, p)
      PROVE  WindowAgrees'
  BY <1>8 DEF TimeoutFollowsWild, ScanFollowsWild, Segv, WindowAgrees
<1>9. TimeoutResends(n) \/ TimeoutFollowsWild(n) => me[n].curr_to # NULL
  BY DEF TimeoutResends, TimeoutFollowsWild
<1> QED BY <1>2, <1>3, <1>4, <1>5, <1>6, <1>7, <1>8, <1>9 DEF Timeout, Scan

LEMMA WindowInductive ==
  ASSUME SwarmInv, FlagAgrees, WindowAgrees, [Next]_vars,
         ~StraysFromService, ~ForgetsServed
  PROVE  WindowAgrees'
<1>1. CASE UNCHANGED <<send_buffer, me, peer>>
  BY <1>1 DEF WindowAgrees
<1>2. ASSUME NEW n \in Nodes, NEW p \in OtherNodes(n), Handle(n, p)
      PROVE  WindowAgrees'
  <2>1. CASE \/ WhohasHandler(n, p) \/ IhaveNothing(n, p) \/ IhaveHandler(n, p)
             \/ DataIgnored(n, p) \/ DataHandler(n, p) \/ ChunkFetched(n, p)
             \/ DeniedHandler(n, p)
    <3>1. ServicesStay /\ UNCHANGED send_buffer
      BY <2>1, FetchingKeepsServices
    <3> QED BY <3>1, StayKeepsWindow
  <2>2. CASE GetDenied(n, p) \/ GetAccepted(n, p) \/ AckHandler(n, p)
    BY <2>2, ServingKeepsWindow
  <2>3. CASE AckWithoutWindow(n, p) \/ IhaveFollowsWild(n, p)
    BY <1>1, <2>3 DEF AckWithoutWindow, IhaveFollowsWild, Segv
  <2> QED BY <1>2, <2>1, <2>2, <2>3 DEF Handle
<1>3. ASSUME NEW n \in Nodes, UserAsks(n) PROVE WindowAgrees'
  BY <1>3, UserKeepsServices, StayKeepsWindow
<1>4. ASSUME NEW n \in Nodes, Turn(n) \/ Timeout(n) \/ Environment(n)
      PROVE  WindowAgrees'
  <2>1. Environment(n) => UNCHANGED <<send_buffer, me, peer>>
    BY DEF Environment, Crash, Lose, nodeVars
  <2> QED BY <1>1, <1>2, <1>3, <1>4, <2>1, TimersKeepWindow DEF Turn
<1> QED BY <1>1, <1>4 DEF Next, vars, nodeVars

\* What the window holds is data of the chunk that is served, also when a
\* service follows another (post_send_cleanup, get_handler, send_next_data), as
\* long as there is one service at a time and no peer is forgotten during it:
\* that cleanup of peer_run ends the service and leaves its window.
THEOREM WindowFollowsService ==
  Spec /\ [][~(StraysFromService \/ ForgetsServed)]_vars => []WindowOfChunk
<1>1. Init => WindowAgrees
  <2> SUFFICES ASSUME Init, NEW n \in Nodes
               PROVE  /\ send_buffer[n] = << >>
                      /\ \A p \in OtherNodes(n) : peer[n][p].his_request = FALSE
    BY DEF WindowAgrees
  <2>1. send_buffer[n] = << >>
    BY DEF Init
  <2>2. ASSUME NEW p \in OtherNodes(n) PROVE peer[n][p].his_request = FALSE
    <3>1. peer[n][p] = NewPeer(setup.leftover[n][p])
      BY DEF Init
    <3> QED BY <3>1 DEF NewPeer
  <2> QED BY <2>1, <2>2
<1>2. SwarmInv /\ FlagAgrees /\ WindowAgrees /\ [Next]_vars
        /\ [~(StraysFromService \/ ForgetsServed)]_vars => FlagAgrees' /\ WindowAgrees'
  <2> SUFFICES ASSUME SwarmInv, FlagAgrees, WindowAgrees, [Next]_vars,
                      [~(StraysFromService \/ ForgetsServed)]_vars
               PROVE  FlagAgrees' /\ WindowAgrees'
    OBVIOUS
  <2>1. CASE UNCHANGED vars
    BY <2>1 DEF vars, nodeVars, WindowAgrees, FlagAgrees
  <2>2. CASE ~UNCHANGED vars
    BY <2>2, WindowInductive, FlagStep
  <2> QED BY <2>1, <2>2
<1>3. SwarmInv /\ WindowAgrees => WindowOfChunk
  <2> SUFFICES ASSUME WindowAgrees, NEW n \in Nodes, NEW p \in OtherNodes(n),
                      peer[n][p].his_request, NEW i \in DOMAIN send_buffer[n]
               PROVE  send_buffer[n][i].data = peer[n][p].send_hash_id
    BY DEF WindowOfChunk
  <2>1. send_buffer[n] \in Seq(DataOf(peer[n][p].send_hash_id))
    BY DEF WindowAgrees
  <2>2. send_buffer[n][i] \in DataOf(peer[n][p].send_hash_id)
    BY <2>1, ElementOfSeq, LenProperties
  <2> QED BY <2>2 DEF DataOf
<1>4. Init => FlagAgrees
  BY FlagInit
<1> QED BY <1>1, <1>2, <1>3, <1>4, SwarmInvariance, PTL DEF Spec

-----------------------------------------------------------------------------
(* A chunk is fetched once.                                                *)

On(q) == {q[i] : i \in DOMAIN q}

\* What starts the list of chunks fetched or fetching again, and a command
\* whose ids stand for other chunks.
StartsOver ==
  \E n \in Nodes :
    \/ asked[n] > 0 /\ UserAsks(n)
    \/ \E p \in OtherNodes(n) :
         \/ PeerGivenUp(n, p)
         \/ ChunkFetched(n, p) /\ me[n].num_chunks = me[n].chunks_fetched + 1

\* Node n has asked p for chunk c and may be served it, or be served it again
\* by a GET that is late or repeated.
Requested(n, p, c) ==
  \/ GET(c) \in On(link[n][p])
  \/ peer[n][p].pending_get = GET(c)
  \/ peer[p][n].his_request /\ peer[p][n].send_hash_id = c

\* The ids of a list are those of its chunks in the last command.
WellNamed(n, cs) == \A e \in On(cs) : e.chunk_id = get_hash_id_request(n, e.chunkhash)

\* What is requested is on the list of chunks fetched or fetching, and nobody
\* else is asked for it.
AskedOnce ==
  \A n \in Nodes : \A p \in OtherNodes(n) :
    /\ \A c \in Chunks : Requested(n, p, c) =>
         /\ asked[n] > 0
         /\ get_hash_id_request(n, c) \in me[n].fetching_or_fetched
         /\ \A q \in OtherNodes(n) \ {p} : ~Requested(n, q, c)
    /\ WellNamed(n, peer[n][p].hehas)

\* A record q that comes after r asks for nothing that r did not ask for, lists
\* nothing new and is of no other service.
AsksNoMore(r, q) ==
  /\ q.pending_get \in {r.pending_get, NULL}
  /\ On(q.hehas) \subseteq On(r.hehas)
  /\ q.his_request => r.his_request /\ q.send_hash_id = r.send_hash_id

RecordsAskNoMore ==
  \A m \in Nodes : \A q \in OtherNodes(m) : AsksNoMore(peer[m][q], peer'[m][q])

ListsGrow ==
  \A m \in Nodes : me[m].fetching_or_fetched \subseteq me'[m].fetching_or_fetched

\* A step after which the links carry what they did, but for packets ps from n
\* to p.
LinksGain(n, p, ps) ==
  \A m \in Nodes : \A q \in OtherNodes(m) :
    On(link'[m][q]) \subseteq
      On(link[m][q]) \cup (IF m = n /\ q = p THEN On(ps) ELSE {})

\* The line of a chunk is looked up in the last command.
LEMMA LookupStays ==
  ASSUME UNCHANGED setup, NEW n, asked'[n] = asked[n], NEW c
  PROVE  get_hash_id_request(n, c)' = get_hash_id_request(n, c)
BY DEF get_hash_id_request

\* A queue of S holds members of S.
LEMMA OnType ==
  ASSUME NEW S, NEW q \in Seq(S)
  PROVE  On(q) \subseteq S
BY ElementOfSeq, LenProperties DEF On

\* A step that requests nothing that was not requested and lists nothing that
\* was not listed.
LEMMA RequestsStay ==
  ASSUME SwarmInv, AskedOnce, UNCHANGED setup, ListsGrow,
         \A m \in Nodes : asked'[m] = asked[m] \/ asked[m] = 0,
         \A m \in Nodes : \A q \in OtherNodes(m) :
           On(peer'[m][q].hehas) \subseteq On(peer[m][q].hehas),
         \A m \in Nodes : \A q \in OtherNodes(m) : \A c \in Chunks :
           Requested(m, q, c)' => Requested(m, q, c)
  PROVE  AskedOnce'
<1>1. ASSUME NEW m \in Nodes, NEW p \in OtherNodes(m), NEW c \in Chunks, Requested(m, p, c)'
      PROVE  /\ asked'[m] > 0
             /\ get_hash_id_request(m, c)' \in me'[m].fetching_or_fetched
             /\ \A q \in OtherNodes(m) \ {p} : ~Requested(m, q, c)'
  <2>1. Requested(m, p, c)
    BY <1>1
  <2>2. /\ asked[m] > 0
        /\ get_hash_id_request(m, c) \in me[m].fetching_or_fetched
        /\ \A q \in OtherNodes(m) \ {p} : ~Requested(m, q, c)
    BY <2>1 DEF AskedOnce
  <2>3. asked'[m] = asked[m]
    BY <2>2
  <2>4. get_hash_id_request(m, c)' = get_hash_id_request(m, c)
    BY <2>3, LookupStays
  <2> QED BY <2>2, <2>3, <2>4 DEF ListsGrow
<1>2. ASSUME NEW m \in Nodes, NEW p \in OtherNodes(m)
      PROVE  WellNamed(m, peer[m][p].hehas)'
  <2>1. WellNamed(m, peer[m][p].hehas)
    BY DEF AskedOnce
  <2>2. CASE asked'[m] = asked[m]
    <3>1. ASSUME NEW e \in On(peer'[m][p].hehas)
          PROVE  e.chunk_id = get_hash_id_request(m, e.chunkhash)'
      <4>1. get_hash_id_request(m, e.chunkhash)' = get_hash_id_request(m, e.chunkhash)
        BY <2>2, LookupStays
      <4> QED BY <2>1, <4>1 DEF WellNamed
    <3> QED BY <3>1 DEF WellNamed, On
  <2>3. CASE asked[m] = 0
    <3>1. peer[m][p].hehas \in Seq(Listings(0))
      BY <2>3 DEF SwarmInv, PeerOK, Records
    <3>2. Listings(0) = {}
      BY DEF Listings
    <3>3. On(peer'[m][p].hehas) = {}
      BY <3>1, <3>2, OnType
    <3> QED BY <3>3 DEF WellNamed, On
  <2> QED BY <2>2, <2>3
<1> QED BY <1>1, <1>2 DEF AskedOnce

\* A step that changes no service and asks nobody for anything: what goes on a
\* link was there, is no GET or is the pending GET.
LEMMA QuietStep ==
  ASSUME SwarmInv, AskedOnce, UNCHANGED setup, ListsGrow, RecordsAskNoMore,
         \A m \in Nodes : asked'[m] = asked[m] \/ asked[m] = 0,
         \A m \in Nodes : \A q \in OtherNodes(m) : \A c \in Chunks :
           GET(c) \in On(link'[m][q]) =>
             GET(c) \in On(link[m][q]) \/ peer[m][q].pending_get = GET(c)
  PROVE  AskedOnce'
<1>1. \A c : GET(c) # NULL
  BY DEF GET, NULL
<1>2. ASSUME NEW m \in Nodes, NEW q \in OtherNodes(m), NEW c \in Chunks, Requested(m, q, c)'
      PROVE  Requested(m, q, c)
  <2>1. q \in Nodes /\ m \in OtherNodes(q)
    BY DEF OtherNodes
  <2>2. AsksNoMore(peer[m][q], peer'[m][q]) /\ AsksNoMore(peer[q][m], peer'[q][m])
    BY <2>1 DEF RecordsAskNoMore
  <2> QED BY <1>1, <1>2, <2>2 DEF Requested, AsksNoMore
<1>3. \A m \in Nodes : \A q \in OtherNodes(m) :
        On(peer'[m][q].hehas) \subseteq On(peer[m][q].hehas)
  BY DEF RecordsAskNoMore, AsksNoMore
<1> QED BY <1>2, <1>3, RequestsStay

\* Only a GET is a GET.
LEMMA NoGet ==
  ASSUME NEW a, NEW b, NEW ps,
         \/ ps \in Seq(WhohasPackets(a)) \/ ps \in Seq(IhavePackets(b))
         \/ ps \in Seq(DataPackets) \/ ps \in Seq(AckPackets) \/ ps \in Seq({DENIED})
  PROVE  \A c : GET(c) \notin On(ps)
<1>1. ASSUME NEW S, ps \in Seq(S), \A x \in S : x.type # "GET"
      PROVE  \A c : GET(c) \notin On(ps)
  BY <1>1, OnType DEF GET
<1>2. /\ \A x \in WhohasPackets(a) : x.type # "GET"
      /\ \A x \in IhavePackets(b) : x.type # "GET"
      /\ \A x \in DataPackets : x.type # "GET"
      /\ \A x \in AckPackets : x.type # "GET"
      /\ \A x \in {DENIED} : x.type # "GET"
  BY DEF WhohasPackets, IhavePackets, DataPackets, AckPackets, DENIED
<1> QED BY <1>1, <1>2

\* A queue that was sent packets holds what it held and some of them.
LEMMA TransmitOn ==
  ASSUME NEW S, NEW T, NEW q \in Seq(S), NEW ps \in Seq(T), NEW up
  PROVE  On(Transmit(q, up, ps)) \subseteq On(q) \cup On(ps)
<1> DEFINE U == On(q) \cup On(ps)
<1>1. /\ q = [i \in 1..Len(q) |-> q[i]] /\ Len(q) \in Nat /\ DOMAIN q = 1..Len(q)
      /\ ps = [i \in 1..Len(ps) |-> ps[i]] /\ Len(ps) \in Nat /\ DOMAIN ps = 1..Len(ps)
  BY LenProperties
<1>2. (\A i \in 1..Len(q) : q[i] \in U) /\ (\A i \in 1..Len(ps) : ps[i] \in U)
  BY <1>1 DEF On
<1> HIDE DEF U
<1>3. q \in Seq(U) /\ ps \in Seq(U)
  BY <1>1, <1>2
<1>4. Transmit(q, up, ps) \in Seq(U)
  BY <1>3, TransmitType
<1> QED BY <1>4, OnType DEF U

LEMMA WithoutOn ==
  ASSUME NEW S, NEW q \in Seq(S), NEW i \in DOMAIN q
  PROVE  On(Without(q, i)) \subseteq On(q)
<1> DEFINE U == On(q)
<1>1. q = [j \in 1..Len(q) |-> q[j]] /\ Len(q) \in Nat /\ DOMAIN q = 1..Len(q)
  BY LenProperties
<1>2. \A j \in 1..Len(q) : q[j] \in U
  BY <1>1 DEF On
<1> HIDE DEF U
<1>3. q \in Seq(U)
  BY <1>1, <1>2
<1>4. Without(q, i) \in Seq(U)
  BY <1>3, WithoutType
<1> QED BY <1>4, OnType DEF U

LEMMA DeliveryOn ==
  ASSUME NEW S, NEW q \in Seq(S), NEW i \in Deliverable(q), NEW r \in AfterDelivery(q, i)
  PROVE  On(r) \subseteq On(q)
BY WithoutOn DEF Deliverable, AfterDelivery

\* Whoever receives a packet and answers adds the answer to one link.
LEMMA ReceivesGains ==
  ASSUME LinkOK, NEW n \in Nodes, NEW p \in OtherNodes(n),
         NEW pk, NEW T, NEW ps \in Seq(T), Receives(n, p, pk, ps)
  PROVE  LinksGain(n, p, ps)
<1>1. p \in Nodes /\ n \in OtherNodes(p) /\ n # p
  BY DEF OtherNodes
<1>2. PICK i \in Deliverable(link[p][n]) :
        \E q \in AfterDelivery(link[p][n], i) :
           link' = [link EXCEPT ![p][n] = q, ![n][p] = Transmit(@, status[p], ps)]
  BY DEF Receives
<1>3. PICK q \in AfterDelivery(link[p][n], i) :
        link' = [link EXCEPT ![p][n] = q, ![n][p] = Transmit(@, status[p], ps)]
  BY <1>2
<1>4. On(q) \subseteq On(link[p][n])
  BY <1>1, DeliveryOn DEF LinkOK
<1> DEFINE t == Transmit(link[n][p], status[p], ps)
<1>5. On(t) \subseteq On(link[n][p]) \cup On(ps)
  BY TransmitOn DEF LinkOK
<1>6. link' = [link EXCEPT ![p][n] = q, ![n][p] = t]
  BY <1>1, <1>3 DEF LinkOK, ByPair
<1> HIDE DEF t
<1>7. ASSUME NEW m \in Nodes, NEW o \in OtherNodes(m)
      PROVE  On(link'[m][o]) \subseteq
               On(link[m][o]) \cup (IF m = n /\ o = p THEN On(ps) ELSE {})
  <2>1. CASE m = n /\ o = p
    <3>1. link'[n][p] = t
      BY <1>1, <1>6 DEF LinkOK, ByPair
    <3> QED BY <1>5, <2>1, <3>1
  <2>2. CASE m = p /\ o = n
    <3>1. link'[p][n] = q
      BY <1>1, <1>6 DEF LinkOK, ByPair
    <3> QED BY <1>4, <2>2, <3>1
  <2>3. CASE ~(m = n /\ o = p) /\ ~(m = p /\ o = n)
    <3>1. link'[m][o] = link[m][o]
      BY <1>1, <1>6, <1>7, <2>3 DEF LinkOK, ByPair
    <3> QED BY <3>1
  <2> QED BY <2>1, <2>2, <2>3
<1> QED BY <1>7 DEF LinksGain

LEMMA SendGains ==
  ASSUME LinkOK, NEW n \in Nodes, NEW p \in OtherNodes(n),
         NEW T, NEW ps \in Seq(T), Send(n, p, ps)
  PROVE  LinksGain(n, p, ps)
<1> DEFINE t == Transmit(link[n][p], status[p], ps)
<1>1. On(t) \subseteq On(link[n][p]) \cup On(ps)
  BY TransmitOn DEF LinkOK
<1>2. link' = [link EXCEPT ![n][p] = t]
  BY DEF Send
<1> HIDE DEF t
<1>3. link'[n][p] = t /\ \A m \in Nodes : \A o \in OtherNodes(m) :
        ~(m = n /\ o = p) => link'[m][o] = link[m][o]
  BY <1>2 DEF LinkOK, ByPair
<1> QED BY <1>1, <1>3 DEF LinksGain

\* One record that asks for no more, in the place of another.
LEMMA RecordAsksNoMore ==
  ASSUME PeerOK, NEW n \in Nodes, NEW p \in OtherNodes(n), NEW r,
         AsksNoMore(peer[n][p], r), peer' = [peer EXCEPT ![n][p] = r]
  PROVE  RecordsAskNoMore
<1>1. ASSUME NEW m \in Nodes, NEW o \in OtherNodes(m)
      PROVE  AsksNoMore(peer[m][o], peer'[m][o])
  <2>1. CASE m = n /\ o = p
    BY <2>1 DEF PeerOK, ByPair
  <2>2. CASE ~(m = n /\ o = p)
    <3>1. peer'[m][o] = peer[m][o]
      BY <1>1, <2>2 DEF PeerOK, ByPair
    <3> QED BY <3>1 DEF AsksNoMore
  <2> QED BY <2>1, <2>2
<1> QED BY <1>1 DEF RecordsAskNoMore

\* A quiet step of n that changes its record of one peer and sends it no GET
\* but the pending one.
LEMMA QuietRecord ==
  ASSUME SwarmInv, AskedOnce, NEW n \in Nodes, NEW p \in OtherNodes(n),
         UNCHANGED <<setup, asked>>, ListsGrow, NEW r,
         AsksNoMore(peer[n][p], r), peer' = [peer EXCEPT ![n][p] = r],
         NEW ps, LinksGain(n, p, ps),
         \A c : GET(c) \in On(ps) => peer[n][p].pending_get = GET(c)
  PROVE  AskedOnce'
<1>1. RecordsAskNoMore
  BY RecordAsksNoMore DEF SwarmInv
<1>2. \A m \in Nodes : \A q \in OtherNodes(m) : \A c \in Chunks :
        GET(c) \in On(link'[m][q]) =>
          GET(c) \in On(link[m][q]) \/ peer[m][q].pending_get = GET(c)
  BY DEF LinksGain
<1> QED BY <1>1, <1>2, QuietStep

\* next is what becomes of r when it asks for nothing, or for a chunk that is
\* not fetched and not being fetched, which goes on the list.
AsksForNew(n, r, fof, next) ==
  /\ On(next.r.hehas) \subseteq On(r.hehas)
  /\ next.r.his_request = r.his_request /\ next.r.send_hash_id = r.send_hash_id
  /\ \/ /\ next.get = << >> /\ next.fof = fof
        /\ next.r.pending_get = r.pending_get
     \/ \E c \in Chunks :
          /\ asked[n] > 0 /\ next.get = <<GET(c)>> /\ next.r.pending_get = GET(c)
          /\ get_hash_id_request(n, c) \notin fof
          /\ next.fof = fof \cup {get_hash_id_request(n, c)}

\* get_next_chunk does so when the list has the ids of the last command.
LEMMA NextChunkIsNew ==
  ASSUME NEW n, NEW b, NEW r \in Records(asked[n], b), WellNamed(n, r.hehas),
         NEW fof, NEW next, next = get_next_chunk(r, fof)
  PROVE  AsksForNew(n, r, fof, next)
<1> DEFINE a == asked[n]
           k == Skipped(r.hehas, fof)
           rest == SubSeq(r.hehas, k + 1, Len(r.hehas))
           left == [r EXCEPT !.hehas = rest, !.chunks_fetched = @ + k]
           e == Head(rest)
           asks == [left EXCEPT !.get_hash_id = e.chunk_id,
                                !.pending_get = GET(e.chunkhash)]
<1>1. r.hehas \in Seq(Listings(a)) /\ Len(r.hehas) \in Nat
  BY LenProperties DEF Records
<1>2. /\ k \in Nat /\ k <= Len(r.hehas)
      /\ k < Len(r.hehas) => r.hehas[k + 1].chunk_id \notin fof
  BY <1>1, SkippedType
<1> HIDE DEF k
<1>3. /\ rest \in Seq(On(r.hehas))
      /\ rest # << >> => e = r.hehas[k + 1] /\ k < Len(r.hehas)
  <2>1. \A j \in (k + 1)..Len(r.hehas) : r.hehas[j] \in On(r.hehas)
    BY <1>1, <1>2, LenProperties DEF On
  <2> QED BY <1>1, <1>2, <2>1, SubSeqProperties
<1>4. On(rest) \subseteq On(r.hehas)
  BY <1>3, OnType
<1>5. rest # << >> => /\ a > 0 /\ e.chunkhash \in Chunks /\ e.chunk_id \notin fof
                      /\ e.chunk_id = get_hash_id_request(n, e.chunkhash)
  <2> SUFFICES ASSUME rest # << >>
               PROVE  /\ a > 0 /\ e.chunkhash \in Chunks /\ e.chunk_id \notin fof
                      /\ e.chunk_id = get_hash_id_request(n, e.chunkhash)
    OBVIOUS
  <2>1. k + 1 \in 1..Len(r.hehas) /\ e = r.hehas[k + 1]
    BY <1>1, <1>2, <1>3
  <2> HIDE DEF e
  <2>2. e \in Listings(a) /\ e \in On(r.hehas)
    BY <1>1, <2>1, ElementOfSeq, LenProperties DEF On
  <2> QED BY <1>2, <1>3, <2>1, <2>2 DEF Listings, WellNamed
<1>6. {"hehas", "chunks_fetched", "get_hash_id", "pending_get", "his_request",
       "send_hash_id"} \subseteq DOMAIN r
  BY DEF Records
<1> HIDE DEF rest, e
<1>7. /\ left.hehas = rest /\ left.his_request = r.his_request
      /\ left.send_hash_id = r.send_hash_id /\ left.pending_get = r.pending_get
      /\ asks.hehas = rest /\ asks.his_request = r.his_request
      /\ asks.send_hash_id = r.send_hash_id /\ asks.pending_get = GET(e.chunkhash)
  BY <1>6
<1> HIDE DEF left, asks
<1>8. CASE r.num_chunks = r.chunks_fetched \/ r.hehas = << >>
  <2>1. next = [r |-> r, fof |-> fof, get |-> << >>]
    BY <1>8 DEF get_next_chunk
  <2> QED BY <2>1 DEF AsksForNew
<1>9. CASE ~(r.num_chunks = r.chunks_fetched \/ r.hehas = << >>) /\ rest = << >>
  <2>1. next = [r |-> left, fof |-> fof, get |-> << >>]
    BY <1>9 DEF get_next_chunk, left, rest, k
  <2> QED BY <1>4, <1>7, <2>1 DEF AsksForNew
<1>10. CASE ~(r.num_chunks = r.chunks_fetched \/ r.hehas = << >>) /\ rest # << >>
  <2>1. next = [r |-> asks, fof |-> fof \cup {e.chunk_id}, get |-> <<GET(e.chunkhash)>>]
    BY <1>10 DEF get_next_chunk, asks, e, left, rest, k
  <2> QED BY <1>4, <1>5, <1>7, <1>10, <2>1 DEF AsksForNew
<1> QED BY <1>8, <1>9, <1>10

\* A step of n that goes on with the list of p: r is its record before
\* get_next_chunk, ps what it sends besides.
LEMMA FetchStep ==
  ASSUME SwarmInv, AskedOnce, NEW n \in Nodes, NEW p \in OtherNodes(n),
         UNCHANGED <<setup, asked>>,
         NEW r \in Records(asked[n], asked[p]), WellNamed(n, r.hehas),
         r.pending_get \in {peer[n][p].pending_get, NULL},
         r.his_request = peer[n][p].his_request,
         r.send_hash_id = peer[n][p].send_hash_id,
         NEW next, next = get_next_chunk(r, me[n].fetching_or_fetched),
         peer' = [peer EXCEPT ![n][p] = next.r],
         me'[n].fetching_or_fetched = next.fof,
         \A m \in Nodes : m # n => me'[m] = me[m],
         NEW ps, LinksGain(n, p, ps),
         \A c : GET(c) \in On(ps) => GET(c) \in On(next.get)
  PROVE  AskedOnce'
<1> DEFINE fof == me[n].fetching_or_fetched
           isNew(c) == GET(c) \in On(next.get)
<1>1. AsksForNew(n, r, fof, next)
  BY NextChunkIsNew
<1>2. /\ \A c \in Chunks : isNew(c) =>
           /\ asked[n] > 0 /\ get_hash_id_request(n, c) \notin fof
           /\ get_hash_id_request(n, c) \in next.fof
      /\ \A c \in Chunks : next.r.pending_get = GET(c) =>
           isNew(c) \/ peer[n][p].pending_get = GET(c)
      /\ fof \subseteq next.fof
  <2>1. \A c, d : GET(c) = GET(d) => c = d
    BY DEF GET
  <2>2. \A c : GET(c) # NULL
    BY DEF GET, NULL
  <2>3. CASE next.get = << >> /\ next.fof = fof /\ next.r.pending_get = r.pending_get
    BY <2>2, <2>3 DEF On
  <2>4. CASE ~(next.get = << >> /\ next.fof = fof /\ next.r.pending_get = r.pending_get)
    <3>1. PICK c \in Chunks :
            /\ asked[n] > 0 /\ next.get = <<GET(c)>> /\ next.r.pending_get = GET(c)
            /\ get_hash_id_request(n, c) \notin fof
            /\ next.fof = fof \cup {get_hash_id_request(n, c)}
      BY <1>1, <2>4 DEF AsksForNew
    <3>2. On(next.get) = {GET(c)}
      BY <3>1 DEF On
    <3> QED BY <2>1, <3>1, <3>2
  <2> QED BY <2>3, <2>4
<1> HIDE DEF isNew
<1>3. /\ peer'[n][p] = next.r
      /\ \A m \in Nodes : \A q \in OtherNodes(m) :
           ~(m = n /\ q = p) => peer'[m][q] = peer[m][q]
  BY DEF SwarmInv, PeerOK, ByPair
<1>4. ASSUME NEW m \in Nodes, NEW q \in OtherNodes(m), NEW c \in Chunks, Requested(m, q, c)'
      PROVE  Requested(m, q, c) \/ (m = n /\ q = p /\ isNew(c))
  <2>1. q \in Nodes /\ m \in OtherNodes(q)
    BY DEF OtherNodes
  <2>2. peer'[q][m].his_request = peer[q][m].his_request
        /\ peer'[q][m].send_hash_id = peer[q][m].send_hash_id
    BY <1>1, <1>3, <2>1 DEF AsksForNew
  <2>3. GET(c) \in On(link'[m][q]) =>
          GET(c) \in On(link[m][q]) \/ (m = n /\ q = p /\ isNew(c))
    BY DEF LinksGain, isNew
  <2>4. peer'[m][q].pending_get = GET(c) =>
          peer[m][q].pending_get = GET(c) \/ (m = n /\ q = p /\ isNew(c))
    BY <1>2, <1>3
  <2> QED BY <1>4, <2>2, <2>3, <2>4 DEF Requested, On
<1>5. ASSUME NEW m \in Nodes, NEW c
      PROVE  get_hash_id_request(m, c)' = get_hash_id_request(m, c)
  BY LookupStays
<1>6. ASSUME NEW m \in Nodes
      PROVE  me[m].fetching_or_fetched \subseteq me'[m].fetching_or_fetched
  BY <1>2
<1>7. ASSUME NEW m \in Nodes, NEW o \in OtherNodes(m), NEW c \in Chunks, Requested(m, o, c)'
      PROVE  /\ asked'[m] > 0
             /\ get_hash_id_request(m, c)' \in me'[m].fetching_or_fetched
             /\ \A q \in OtherNodes(m) \ {o} : ~Requested(m, q, c)'
  <2>1. CASE Requested(m, o, c)
    <3>1. /\ asked[m] > 0
          /\ get_hash_id_request(m, c) \in me[m].fetching_or_fetched
          /\ \A q \in OtherNodes(m) \ {o} : ~Requested(m, q, c)
      BY <2>1 DEF AskedOnce
    <3>2. ~(m = n /\ isNew(c))
      BY <1>2, <3>1
    <3> QED BY <1>4, <1>5, <1>6, <3>1, <3>2
  <2>2. CASE m = n /\ o = p /\ isNew(c)
    <3>1. /\ asked[n] > 0 /\ get_hash_id_request(n, c) \notin fof
          /\ get_hash_id_request(n, c) \in next.fof
      BY <1>2, <2>2
    <3>2. \A q \in OtherNodes(n) : ~Requested(n, q, c)
      BY <3>1 DEF AskedOnce
    <3> QED BY <1>4, <1>5, <2>2, <3>1, <3>2
  <2> QED BY <1>4, <1>7, <2>1, <2>2
<1>8. ASSUME NEW m \in Nodes, NEW o \in OtherNodes(m)
      PROVE  WellNamed(m, peer[m][o].hehas)'
  <2>1. WellNamed(m, peer'[m][o].hehas)
    BY <1>1, <1>3 DEF AskedOnce, WellNamed, AsksForNew
  <2>2. ASSUME NEW e \in On(peer'[m][o].hehas)
        PROVE  e.chunk_id = get_hash_id_request(m, e.chunkhash)'
    BY <1>5, <2>1 DEF WellNamed
  <2> QED BY <2>2 DEF WellNamed, On
<1> QED BY <1>7, <1>8 DEF AskedOnce

\* The fields a request is made of.
Fields == {"pending_get", "hehas", "his_request", "send_hash_id"}

\* What the handlers make of a record does not ask for more.
LEMMA HandlersAskNoMore ==
  ASSUME NEW r, Fields \subseteq DOMAIN r
  PROVE  /\ AsksNoMore(r, send_next_whohas(r))
         /\ AsksNoMore(r, Answered(r)) /\ AsksNoMore(r, Refused(r))
         /\ \A pk : AsksNoMore(r, Inserted(r, pk))
         /\ \A ihave : AsksNoMore(r, [r EXCEPT !.pending_ihave = ihave])
         /\ \A k : AsksNoMore(r, [r EXCEPT !.num_data_retransmits = k])
         /\ \A k : AsksNoMore(r, [r EXCEPT !.num_dupacks = k])
         /\ \A ack : AsksNoMore(r, CountAck(r, ack))
         /\ AsksNoMore(r, post_send_cleanup(r))
         /\ \A k, l : AsksNoMore(r, [r EXCEPT !.num_retransmits = k,
                                             !.ack_timeout_counter = l])
         /\ AsksNoMore(r, peer_total_cleanup(r))
<1>1. AsksNoMore(r, send_next_whohas(r)) /\ AsksNoMore(r, Answered(r))
  BY DEF AsksNoMore, Fields, send_next_whohas, Answered
<1>2. AsksNoMore(r, Refused(r)) /\ \A pk : AsksNoMore(r, Inserted(r, pk))
  BY DEF AsksNoMore, Fields, Refused, Inserted
<1>3. /\ \A ihave : AsksNoMore(r, [r EXCEPT !.pending_ihave = ihave])
      /\ \A k : AsksNoMore(r, [r EXCEPT !.num_data_retransmits = k])
      /\ \A k : AsksNoMore(r, [r EXCEPT !.num_dupacks = k])
      /\ \A k, l : AsksNoMore(r, [r EXCEPT !.num_retransmits = k,
                                          !.ack_timeout_counter = l])
  BY DEF AsksNoMore, Fields
<1>4. \A ack : AsksNoMore(r, CountAck(r, ack))
  BY DEF AsksNoMore, Fields, CountAck
<1>5. AsksNoMore(r, post_send_cleanup(r))
  BY DEF AsksNoMore, Fields, post_send_cleanup
<1>6. AsksNoMore(r, peer_total_cleanup(r))
  <2>1. On(<< >>) = {}
    BY DEF On
  <2>2. /\ peer_total_cleanup(r).pending_get = NULL
        /\ peer_total_cleanup(r).hehas = << >>
        /\ peer_total_cleanup(r).his_request = FALSE
    BY DEF peer_total_cleanup, NewPeer
  <2> QED BY <2>1, <2>2 DEF AsksNoMore
<1> QED BY <1>1, <1>2, <1>3, <1>4, <1>5, <1>6

LEMMA AsksNoMoreTwice ==
  ASSUME NEW r, NEW q, NEW t, AsksNoMore(r, q), AsksNoMore(q, t)
  PROVE  AsksNoMore(r, t)
BY DEF AsksNoMore

LEMMA RecordFields ==
  ASSUME NEW a, NEW b, NEW r \in Records(a, b)
  PROVE  Fields \subseteq DOMAIN r
BY DEF Fields, Records

\* Handlers that ask for no chunk.
LEMMA FetchingAsksOnce ==
  ASSUME SwarmInv, AskedOnce, NEW n \in Nodes, NEW p \in OtherNodes(n),
         \/ WhohasHandler(n, p) \/ IhaveNothing(n, p)
         \/ DataHandler(n, p) \/ DeniedHandler(n, p)
  PROVE  AskedOnce'
<1> DEFINE r == peer[n][p]
<1>1. r \in Records(asked[n], asked[p]) /\ LinkOK /\ ByPair(peer)
  BY DEF SwarmInv, PeerOK
<1>2. Fields \subseteq DOMAIN r
  BY <1>1, RecordFields
<1>3. UNCHANGED me => ListsGrow
  BY DEF ListsGrow
<1>4. CASE WhohasHandler(n, p)
  <2>1. PICK pk \in Arriving(n, p, "WHOHAS") :
          LET ihave == IHAVE(Had(n, pk.chunks))
          IN  /\ Receives(n, p, pk, <<ihave>>)
              /\ peer' = [peer EXCEPT ![n][p].pending_ihave = ihave]
              /\ UNCHANGED <<setup, asked, me>>
    BY <1>4 DEF WhohasHandler
  <2> DEFINE ihave == IHAVE(Had(n, pk.chunks))
             q == [r EXCEPT !.pending_ihave = ihave]
  <2>2. pk \in WhohasPackets(asked[p])
    BY ArrivingType, PacketTypes DEF SwarmInv
  <2>3. Had(n, pk.chunks) \in Seq(Chunks) /\ asked[p] > 0
    BY <2>2, HadType DEF WhohasPackets
  <2>4. ihave \in IhavePackets(asked[p])
    BY <2>3 DEF IHAVE, IhavePackets
  <2>5. Receives(n, p, pk, <<ihave>>) /\ peer' = [peer EXCEPT ![n][p] = q]
    BY <1>1, <2>1 DEF ByPair
  <2> HIDE DEF ihave
  <2>6. <<ihave>> \in Seq(IhavePackets(asked[p]))
    BY <2>4, SingletonType
  <2>7. LinksGain(n, p, <<ihave>>) /\ \A c : GET(c) \notin On(<<ihave>>)
    BY <1>1, <2>5, <2>6, ReceivesGains, NoGet
  <2>8. AsksNoMore(r, q)
    BY <1>2, HandlersAskNoMore
  <2> HIDE DEF q
  <2> QED BY <1>3, <2>1, <2>5, <2>7, <2>8, QuietRecord
<1>5. CASE IhaveNothing(n, p)
  <2> DEFINE a == Answered(r)
             q == send_next_whohas(a)
             ps == NextWhohas(a)
  <2>1. /\ Receives(n, p, IHAVE(<< >>), ps) /\ peer' = [peer EXCEPT ![n][p] = q]
        /\ UNCHANGED <<setup, asked, me>>
    BY <1>5 DEF IhaveNothing
  <2>2. AsksNoMore(r, a)
    BY <1>2, HandlersAskNoMore
  <2>3. a \in Records(asked[n], asked[p])
    BY <1>1, AnsweredType
  <2> HIDE DEF a
  <2>4. AsksNoMore(a, q)
    BY <2>3, RecordFields, HandlersAskNoMore
  <2>5. ps \in Seq(WhohasPackets(asked[n]))
    BY <2>3, NextWhohasType
  <2> HIDE DEF q, ps
  <2>6. AsksNoMore(r, q)
    BY <2>2, <2>4, AsksNoMoreTwice
  <2>7. LinksGain(n, p, ps) /\ \A c : GET(c) \notin On(ps)
    BY <1>1, <2>1, <2>5, ReceivesGains, NoGet
  <2> QED BY <1>3, <2>1, <2>6, <2>7, QuietRecord
<1>6. CASE DataHandler(n, p)
  <2>1. PICK pk \in Arriving(n, p, "DATA") :
          /\ Receives(n, p, pk, <<ACK(AckOf(r, pk))>>)
          /\ peer' = [peer EXCEPT ![n][p] = Inserted(r, pk)]
          /\ UNCHANGED <<setup, asked, me>>
    BY <1>6 DEF DataHandler
  <2>2. pk \in DataPackets
    BY ArrivingType, PacketTypes DEF SwarmInv
  <2> DEFINE ack == AckOf(r, pk)
             q == Inserted(r, pk)
  <2>3. ack \in Blocks
    BY <1>1, <2>2, InsertedType
  <2>4. AsksNoMore(r, q)
    BY <1>2, HandlersAskNoMore
  <2> HIDE DEF ack, q
  <2>5. <<ACK(ack)>> \in Seq(AckPackets)
    BY <2>3, SingletonType DEF ACK, AckPackets
  <2>6. LinksGain(n, p, <<ACK(ack)>>) /\ \A c : GET(c) \notin On(<<ACK(ack)>>)
    BY <1>1, <2>1, <2>5, ReceivesGains, NoGet DEF ack
  <2> QED BY <1>3, <2>1, <2>4, <2>6, QuietRecord DEF q
<1>7. CASE DeniedHandler(n, p)
  <2>1. /\ Receives(n, p, DENIED, << >>) /\ peer' = [peer EXCEPT ![n][p] = Refused(r)]
        /\ UNCHANGED <<setup, asked, me>>
    BY <1>7 DEF DeniedHandler
  <2>2. AsksNoMore(r, Refused(r))
    BY <1>2, HandlersAskNoMore
  <2>3. << >> \in Seq({DENIED})
    OBVIOUS
  <2>4. LinksGain(n, p, << >>) /\ \A c : GET(c) \notin On(<< >>)
    BY <1>1, <2>1, <2>3, ReceivesGains, NoGet
  <2> QED BY <1>3, <2>1, <2>2, <2>4, QuietRecord
<1> QED BY <1>4, <1>5, <1>6, <1>7

LEMMA ConcatOn ==
  ASSUME NEW S, NEW T, NEW q \in Seq(S), NEW r \in Seq(T)
  PROVE  On(q \o r) \subseteq On(q) \cup On(r)
<1>1. /\ Len(q) \in Nat /\ DOMAIN q = 1..Len(q) /\ Len(r) \in Nat /\ DOMAIN r = 1..Len(r)
      /\ DOMAIN (q \o r) = 1..(Len(q) + Len(r))
      /\ \A i \in 1..(Len(q) + Len(r)) :
           (q \o r)[i] = IF i <= Len(q) THEN q[i] ELSE r[i - Len(q)]
  OBVIOUS
<1>2. ASSUME NEW i \in 1..(Len(q) + Len(r)) PROVE (q \o r)[i] \in On(q) \cup On(r)
  <2>1. CASE i <= Len(q)
    BY <1>1, <2>1 DEF On
  <2>2. CASE ~(i <= Len(q))
    <3>1. i - Len(q) \in 1..Len(r)
      BY <1>1, <2>2
    <3> QED BY <1>1, <2>2, <3>1 DEF On
  <2> QED BY <2>1, <2>2
<1> QED BY <1>1, <1>2 DEF On

\* The list that ihave_handler makes has the ids of the last command.
LEMMA ListedIsWellNamed ==
  ASSUME NEW n, NEW a, NEW b, NEW r \in Records(a, b), WellNamed(n, r.hehas),
         NEW cs \in Seq(Listings(a)), WellNamed(n, cs)
  PROVE  /\ WellNamed(n, Listed(r, cs).hehas)
         /\ Listed(r, cs).pending_get = r.pending_get
         /\ Listed(r, cs).his_request = r.his_request
         /\ Listed(r, cs).send_hash_id = r.send_hash_id
<1> DEFINE first == IF r.hehas = << >> THEN << >> ELSE <<Head(r.hehas)>>
           list == first \o cs
           id == Head(list).chunk_id
<1>1. r.hehas \in Seq(Listings(a))
  BY DEF Records
<1>2. first \in Seq(On(r.hehas))
  <2>1. CASE r.hehas = << >>
    BY <2>1
  <2>2. CASE r.hehas # << >>
    <3>1. 1 \in DOMAIN r.hehas /\ Head(r.hehas) = r.hehas[1]
      BY <1>1, <2>2, EmptySeq, LenProperties
    <3>2. Head(r.hehas) \in On(r.hehas)
      BY <3>1 DEF On
    <3> QED BY <2>2, <3>2, SingletonType
  <2> QED BY <2>1, <2>2
<1> HIDE DEF first
<1>3. On(list) \subseteq On(r.hehas) \cup On(cs)
  BY <1>2, ConcatOn, OnType
<1>4. Listed(r, cs) = [r EXCEPT !.hehas = list, !.num_chunks = Len(cs), !.get_hash_id = id]
  BY DEF Listed, first
<1> HIDE DEF list, id
<1>5. Fields \subseteq DOMAIN r
  BY RecordFields
<1> QED BY <1>3, <1>4, <1>5 DEF WellNamed, Fields

\* An IHAVE: the record goes on with the list of its chunks.
LEMMA IhaveAsksOnce ==
  ASSUME SwarmInv, AskedOnce, NEW n \in Nodes, NEW p \in OtherNodes(n), IhaveHandler(n, p)
  PROVE  AskedOnce'
<1> DEFINE chunks(pk) == [i \in DOMAIN pk.chunks |->
                            [chunkhash |-> pk.chunks[i],
                             chunk_id |-> get_hash_id_request(n, pk.chunks[i])]]
           a == Answered(peer[n][p])
           fof == me[n].fetching_or_fetched
           next(pk) == get_next_chunk(Listed(a, chunks(pk)), fof)
<1>1. PICK pk \in Arriving(n, p, "IHAVE") :
        /\ pk.chunks # << >>
        /\ Receives(n, p, pk, next(pk).get)
        /\ peer' = [peer EXCEPT ![n][p] = next(pk).r]
        /\ me' = [me EXCEPT ![n].fetching_or_fetched = next(pk).fof]
        /\ UNCHANGED <<setup, asked>>
  BY DEF IhaveHandler
<1>2. pk \in IhavePackets(asked[n])
  BY ArrivingType, PacketTypes DEF SwarmInv
<1>3. /\ chunks(pk) \in Seq(Listings(asked[n])) /\ chunks(pk) # << >>
      /\ WellNamed(n, chunks(pk))
  <2>1. chunks(pk) \in Seq(Listings(asked[n]))
    BY <1>2, IhaveListing DEF SwarmInv
  <2>2. pk.chunks \in Seq(Chunks) /\ DOMAIN chunks(pk) = DOMAIN pk.chunks
    BY <1>2 DEF IhavePackets
  <2>3. 1 \in DOMAIN pk.chunks
    BY <1>1, <2>2, EmptySeq, LenProperties
  <2>4. ASSUME NEW e \in On(chunks(pk))
        PROVE  e.chunk_id = get_hash_id_request(n, e.chunkhash)
    <3>1. PICK i \in DOMAIN pk.chunks : e = chunks(pk)[i]
      BY DEF On
    <3>2. e = [chunkhash |-> pk.chunks[i],
               chunk_id |-> get_hash_id_request(n, pk.chunks[i])]
      BY <3>1
    <3> QED BY <3>2
  <2> QED BY <2>1, <2>2, <2>3, <2>4 DEF WellNamed
<1> DEFINE cs == chunks(pk)
           l == Listed(a, cs)
           nx == next(pk)
<1> HIDE DEF chunks
<1>4. peer[n][p] \in Records(asked[n], asked[p]) /\ WellNamed(n, peer[n][p].hehas) /\ LinkOK
  BY DEF SwarmInv, PeerOK, AskedOnce
<1>5. a \in Records(asked[n], asked[p])
  BY <1>4, AnsweredType
<1>6. /\ a.pending_get = peer[n][p].pending_get /\ a.his_request = peer[n][p].his_request
      /\ a.send_hash_id = peer[n][p].send_hash_id /\ a.hehas = peer[n][p].hehas
  <2>1. Fields \subseteq DOMAIN peer[n][p]
    BY <1>4, RecordFields
  <2> QED BY <2>1 DEF Answered, Fields
<1> HIDE DEF a, cs
<1>7. l \in Records(asked[n], asked[p])
  BY <1>3, <1>5, ListedType DEF cs
<1>8. /\ WellNamed(n, l.hehas) /\ l.pending_get = a.pending_get
      /\ l.his_request = a.his_request /\ l.send_hash_id = a.send_hash_id
  <2>1. WellNamed(n, a.hehas) /\ cs \in Seq(Listings(asked[n])) /\ WellNamed(n, cs)
    BY <1>3, <1>4, <1>6 DEF cs
  <2> QED BY <1>5, <2>1, ListedIsWellNamed
<1> HIDE DEF l
<1>9. nx = get_next_chunk(l, fof)
  BY DEF l, cs
<1>10. /\ Receives(n, p, pk, nx.get) /\ peer' = [peer EXCEPT ![n][p] = nx.r]
       /\ me' = [me EXCEPT ![n].fetching_or_fetched = nx.fof]
       /\ UNCHANGED <<setup, asked>>
  BY <1>1
<1> HIDE DEF nx
<1>11. nx.get \in Seq(GetPackets(asked[n]))
  <2>1. fof \in SUBSET (Ids \cup {NotFound})
    BY DEF SwarmInv, MeOK, Mes
  <2> QED BY <1>7, <1>9, <2>1, NextChunkType
<1>12. LinksGain(n, p, nx.get)
  BY <1>4, <1>10, <1>11, ReceivesGains
<1>13. me'[n].fetching_or_fetched = nx.fof /\ \A m \in Nodes : m # n => me'[m] = me[m]
  BY <1>10 DEF SwarmInv, MeOK, Mes
<1> QED BY <1>6, <1>7, <1>8, <1>9, <1>10, <1>12, <1>13, FetchStep

\* Data when none is expected: the record goes on with its list.
LEMMA DataIgnoredAsksOnce ==
  ASSUME SwarmInv, AskedOnce, NEW n \in Nodes, NEW p \in OtherNodes(n), DataIgnored(n, p)
  PROVE  AskedOnce'
<1> DEFINE q == [peer[n][p] EXCEPT !.ack_timeout_counter = 0]
           fof == me[n].fetching_or_fetched
           nx == get_next_chunk(q, fof)
<1>1. PICK pk \in Arriving(n, p, "DATA") :
        /\ Receives(n, p, pk, nx.get) /\ peer' = [peer EXCEPT ![n][p] = nx.r]
        /\ me' = [me EXCEPT ![n].fetching_or_fetched = nx.fof]
        /\ UNCHANGED <<setup, asked>>
  BY DEF DataIgnored
<1>2. peer[n][p] \in Records(asked[n], asked[p]) /\ WellNamed(n, peer[n][p].hehas) /\ LinkOK
  BY DEF SwarmInv, PeerOK, AskedOnce
<1>3. q \in Records(asked[n], asked[p])
  <2>1. 0 \in 0..MAX_DATA_RETRANSMIT
    BY SwarmAssumption
  <2> QED BY <1>2, <2>1 DEF Records
<1>4. /\ q.pending_get = peer[n][p].pending_get /\ q.his_request = peer[n][p].his_request
      /\ q.send_hash_id = peer[n][p].send_hash_id /\ q.hehas = peer[n][p].hehas
  <2>1. Fields \subseteq DOMAIN peer[n][p]
    BY <1>2, RecordFields
  <2> QED BY <2>1 DEF Fields
<1> HIDE DEF q
<1>5. nx.get \in Seq(GetPackets(asked[n]))
  <2>1. fof \in SUBSET (Ids \cup {NotFound})
    BY DEF SwarmInv, MeOK, Mes
  <2> QED BY <1>3, <2>1, NextChunkType
<1>6. nx = get_next_chunk(q, fof)
  OBVIOUS
<1> HIDE DEF nx
<1>7. LinksGain(n, p, nx.get)
  BY <1>1, <1>2, <1>5, ReceivesGains
<1>8. me'[n].fetching_or_fetched = nx.fof /\ \A m \in Nodes : m # n => me'[m] = me[m]
  BY <1>1 DEF SwarmInv, MeOK, Mes
<1>9. WellNamed(n, q.hehas)
  BY <1>2, <1>4
<1> QED BY <1>1, <1>3, <1>4, <1>6, <1>7, <1>8, <1>9, FetchStep

\* The last packet of a chunk, unless it completes the download.
LEMMA ChunkFetchedAsksOnce ==
  ASSUME SwarmInv, AskedOnce, NEW n \in Nodes, NEW p \in OtherNodes(n),
         ChunkFetched(n, p), me[n].num_chunks # me[n].chunks_fetched + 1
  PROVE  AskedOnce'
<1> DEFINE r == peer[n][p]
           fof == me[n].fetching_or_fetched
           c(pk) == post_receive_cleanup(Inserted(r, pk))
           next(pk) == AfterChunk(c(pk), fof)
<1>1. PICK pk \in Arriving(n, p, "DATA") :
        /\ Receives(n, p, pk, <<ACK(FINALACK)>> \o next(pk).get)
        /\ peer' = [peer EXCEPT ![n][p] = next(pk).r]
        /\ CountChunk(n, next(pk).fof) /\ UNCHANGED <<setup, asked>>
  BY DEF ChunkFetched
<1>2. r \in Records(asked[n], asked[p]) /\ WellNamed(n, r.hehas) /\ LinkOK
  BY DEF SwarmInv, PeerOK, AskedOnce
<1>3. pk \in DataPackets
  BY ArrivingType, PacketTypes DEF SwarmInv
<1> DEFINE q == Inserted(r, pk)
           d == c(pk)
           rest == IF q.hehas = << >> THEN q.hehas ELSE Tail(q.hehas)
           nx == next(pk)
<1>4. q \in Records(asked[n], asked[p]) /\ AsksNoMore(r, q) /\ q.hehas = r.hehas
      /\ q.his_request = r.his_request /\ q.send_hash_id = r.send_hash_id
      /\ q.pending_get = NULL
  <2>1. q \in Records(asked[n], asked[p])
    BY <1>2, <1>3, InsertedType
  <2>2. Fields \subseteq DOMAIN r
    BY <1>2, RecordFields
  <2>3. AsksNoMore(r, q)
    BY <2>2, HandlersAskNoMore
  <2>4. q.hehas = r.hehas /\ q.his_request = r.his_request
        /\ q.send_hash_id = r.send_hash_id /\ q.pending_get = NULL
    BY <2>2 DEF Inserted, Fields
  <2> HIDE DEF q
  <2> QED BY <2>1, <2>3, <2>4
<1>5. d = post_receive_cleanup(q) /\ nx = AfterChunk(d, fof)
  OBVIOUS
<1>6. /\ Receives(n, p, pk, <<ACK(FINALACK)>> \o nx.get)
      /\ peer' = [peer EXCEPT ![n][p] = nx.r]
      /\ CountChunk(n, nx.fof) /\ UNCHANGED <<setup, asked>>
  BY <1>1
<1> HIDE DEF r, q, d, nx
<1>7. q.hehas \in Seq(Listings(asked[n]))
  BY <1>4 DEF Records
<1>8. rest \in Seq(Listings(asked[n])) /\ On(rest) \subseteq On(q.hehas)
  <2>1. CASE q.hehas = << >>
    BY <1>7, <2>1
  <2>2. CASE q.hehas # << >>
    <3>1. /\ Tail(q.hehas) \in Seq(Listings(asked[n]))
          /\ Len(Tail(q.hehas)) = Len(q.hehas) - 1 /\ Len(q.hehas) \in Nat
          /\ \A i \in 1..Len(Tail(q.hehas)) : Tail(q.hehas)[i] = q.hehas[i + 1]
      BY <1>7, <2>2, HeadTailProperties, LenProperties
    <3>2. ASSUME NEW i \in DOMAIN Tail(q.hehas) PROVE Tail(q.hehas)[i] \in On(q.hehas)
      <4>1. i \in 1..Len(Tail(q.hehas)) /\ i + 1 \in DOMAIN q.hehas
        BY <1>7, <3>1, LenProperties
      <4> QED BY <3>1, <4>1 DEF On
    <3> QED BY <2>2, <3>1, <3>2 DEF On
  <2> QED BY <2>1, <2>2
<1> HIDE DEF rest
<1>9. /\ d.hehas = rest /\ d.his_request = r.his_request
      /\ d.send_hash_id = r.send_hash_id /\ d.pending_get = NULL
      /\ Fields \subseteq DOMAIN d
  <2>1. d = [q EXCEPT !.hehas = rest, !.chunks_fetched = @ + 1,
                      !.get_hash_id = PSUEDO_INF, !.recv_buffer = {}]
    BY <1>5 DEF post_receive_cleanup, rest
  <2>2. Fields \subseteq DOMAIN q
    BY <1>4, RecordFields
  <2> QED BY <1>4, <2>1, <2>2 DEF Fields
<1>10. d \in Records(asked[n], asked[p])
  <2>1. d = [q EXCEPT !.hehas = rest, !.chunks_fetched = @ + 1,
                      !.get_hash_id = PSUEDO_INF, !.recv_buffer = {}]
    BY <1>5 DEF post_receive_cleanup, rest
  <2>2. q.chunks_fetched + 1 \in Nat /\ PSUEDO_INF \in Expected(asked[n])
        /\ {} \in SUBSET Blocks
    BY <1>4 DEF Records, Expected
  <2> QED BY <1>4, <1>8, <2>1, <2>2 DEF Records
<1>11. WellNamed(n, d.hehas) /\ On(d.hehas) \subseteq On(r.hehas)
  BY <1>2, <1>4, <1>8, <1>9 DEF WellNamed
<1>12. /\ me'[n].fetching_or_fetched = nx.fof
       /\ \A m \in Nodes : m # n => me'[m] = me[m]
  BY <1>6 DEF CountChunk, SwarmInv, MeOK, Mes
<1>13. <<ACK(FINALACK)>> \in Seq(AckPackets)
  <2>1. FINALACK \in Blocks
    BY SwarmAssumption DEF Blocks
  <2> QED BY <2>1, SingletonType DEF ACK, AckPackets
<1>14. \A c1 : GET(c1) \notin On(<<ACK(FINALACK)>>)
  BY <1>13, NoGet
<1> DEFINE ack == <<ACK(FINALACK)>>
           ps == ack \o nx.get
<1>15. ASSUME NEW S, nx.get \in Seq(S), S \subseteq Packets(asked[n], asked[p])
       PROVE  LinksGain(n, p, ps) /\ \A c1 : GET(c1) \in On(ps) => GET(c1) \in On(nx.get)
  <2>1. ack \in Seq(Packets(asked[n], asked[p])) /\ nx.get \in Seq(Packets(asked[n], asked[p]))
    <3>1. ack \in Seq(Packets(asked[n], asked[p]))
      BY <1>13, KindsArePackets
    <3>2. nx.get \in Seq(Packets(asked[n], asked[p]))
      BY <1>15, ElementOfSeq
    <3> QED BY <3>1, <3>2
  <2>2. Receives(n, p, pk, ack \o nx.get)
    BY <1>6
  <2> HIDE DEF ack
  <2>3. ack \o nx.get \in Seq(Packets(asked[n], asked[p]))
    BY <2>1, ConcatProperties
  <2>4. On(ack \o nx.get) \subseteq On(ack) \cup On(nx.get)
    BY <2>1, ConcatOn
  <2>5. LinksGain(n, p, ack \o nx.get)
    BY <1>2, <2>2, <2>3, ReceivesGains
  <2> QED BY <1>14, <2>4, <2>5 DEF ack
<1> HIDE DEF ps
<1>16. CASE d.chunks_fetched < d.num_chunks
  <2>1. nx = get_next_chunk(d, fof)
    BY <1>5, <1>16 DEF AfterChunk
  <2>2. nx.get \in Seq(GetPackets(asked[n]))
    <3>1. fof \in SUBSET (Ids \cup {NotFound})
      BY DEF SwarmInv, MeOK, Mes
    <3> QED BY <1>10, <2>1, <3>1, NextChunkType
  <2>3. GetPackets(asked[n]) \subseteq Packets(asked[n], asked[p])
    BY DEF Packets
  <2>4. LinksGain(n, p, ps) /\ \A c1 : GET(c1) \in On(ps) => GET(c1) \in On(nx.get)
    BY <1>15, <2>2, <2>3
  <2> QED BY <1>6, <1>9, <1>10, <1>11, <1>12, <2>1, <2>4, FetchStep DEF r
<1>17. CASE ~(d.chunks_fetched < d.num_chunks)
  <2> DEFINE done == [d EXCEPT !.num_chunks = 0, !.chunks_fetched = 0, !.hehas = << >>]
             q1 == send_next_whohas(done)
             whohas == NextWhohas(done)
  <2>1. nx = [r |-> q1, fof |-> fof, get |-> whohas]
    BY <1>5, <1>17 DEF AfterChunk
  <2>2. done \in Records(asked[n], asked[p])
    <3>1. 0 \in Nat /\ << >> \in Seq(Listings(asked[n]))
      OBVIOUS
    <3> QED BY <1>10, <3>1 DEF Records
  <2>3. On(<< >>) = {}
    BY DEF On
  <2>4. AsksNoMore(r, done)
    BY <1>9, <2>3 DEF AsksNoMore, Fields
  <2> HIDE DEF done
  <2>5. AsksNoMore(done, q1)
    BY <2>2, RecordFields, HandlersAskNoMore
  <2>6. whohas \in Seq(WhohasPackets(asked[n]))
    BY <2>2, NextWhohasType
  <2> HIDE DEF q1, whohas
  <2>7. AsksNoMore(r, q1)
    BY <2>4, <2>5, AsksNoMoreTwice
  <2>8. WhohasPackets(asked[n]) \subseteq Packets(asked[n], asked[p])
    BY DEF Packets
  <2>9. LinksGain(n, p, ps) /\ \A c1 : GET(c1) \notin On(ps)
    <3>1. nx.get = whohas
      BY <2>1
    <3>2. \A c1 : GET(c1) \notin On(whohas)
      BY <2>6, NoGet
    <3> QED BY <1>15, <2>6, <2>8, <3>1, <3>2
  <2>10. nx.r = q1 /\ nx.fof = fof
    BY <2>1
  <2>11. ListsGrow
    BY <1>12, <2>10 DEF ListsGrow
  <2>12. peer' = [peer EXCEPT ![n][p] = q1]
    BY <1>6, <2>10
  <2> QED BY <1>6, <2>7, <2>9, <2>11, <2>12, QuietRecord DEF r
<1> QED BY <1>16, <1>17

\* What a node changes of itself when it serves is not its list.
LEMMA ServingKeepsList ==
  ASSUME MeOK, NEW n \in Nodes, NEW x, NEW h, NEW l,
         \/ UNCHANGED me
         \/ me' = [me EXCEPT ![n].curr_to = x]
         \/ me' = [me EXCEPT ![n].last_seq = l]
         \/ me' = [me EXCEPT ![n].curr_to = x, ![n].his_request = h]
         \/ me' = [me EXCEPT ![n].curr_to = x, ![n].his_request = h, ![n].last_seq = l]
  PROVE  ListsGrow
<1>1. ASSUME NEW m \in Nodes
      PROVE  me'[m].fetching_or_fetched = me[m].fetching_or_fetched
  <2>1. DOMAIN me = Nodes /\ me[n] \in Mes(n)
    BY DEF MeOK
  <2>2. "fetching_or_fetched" \in DOMAIN me[n]
    BY <2>1 DEF Mes
  <2> QED BY <2>1, <2>2
<1> QED BY <1>1 DEF ListsGrow

\* Data goes out, and the record of whoever is served asks for no more.
LEMMA ServingStep ==
  ASSUME SwarmInv, AskedOnce, NEW n \in Nodes, NEW p \in OtherNodes(n),
         UNCHANGED <<setup, asked>>, ListsGrow, NEW r,
         AsksNoMore(peer[n][p], r), peer' = [peer EXCEPT ![n][p] = r],
         NEW pk, NEW ps \in Seq(DataPackets), Receives(n, p, pk, ps)
  PROVE  AskedOnce'
<1>1. LinksGain(n, p, ps) /\ \A c : GET(c) \notin On(ps)
  BY ReceivesGains, NoGet DEF SwarmInv
<1> QED BY <1>1, QuietRecord

\* An ack.
LEMMA AckAsksOnce ==
  ASSUME SwarmInv, AskedOnce, NEW n \in Nodes, NEW p \in OtherNodes(n), AckHandler(n, p)
  PROVE  AskedOnce'
<1>1. PICK pk \in Arriving(n, p, "ACK") :
        \/ AckIgnored(n, p, pk.ack_num) \/ FinalAck(n, p, pk.ack_num)
        \/ TripleDupack(n, p, pk.ack_num) \/ AckAdvances(n, p, pk.ack_num)
  BY DEF AckHandler
<1> DEFINE ack == pk.ack_num
           r == peer[n][p]
           c == CountAck(r, ack)
           rest == Unacked(send_buffer[n], c.last_ack)
<1>2. ack \in Blocks /\ UNCHANGED <<setup, asked>>
  BY ArrivingType, PacketTypes DEF SwarmInv, AckPackets, AckHandler
<1>3. /\ r \in Records(asked[n], asked[p]) /\ me[n] \in Mes(n) /\ MeOK
      /\ send_buffer[n] \in Seq(DataPackets)
      /\ state[n] \in CongestionStates /\ CongestionOK(state[n])
  BY DEF SwarmInv, PeerOK, MeOK, WindowOK
<1> HIDE DEF ack
<1>4. c \in Records(asked[n], asked[p]) /\ AsksNoMore(r, c)
  <2>1. c \in Records(asked[n], asked[p])
    BY <1>2, <1>3, CountAckType
  <2>2. AsksNoMore(r, c)
    BY <1>3, RecordFields, HandlersAskNoMore
  <2> QED BY <2>1, <2>2
<1> HIDE DEF c, r
<1>5. rest \in Seq(DataPackets)
  <2>1. c.last_ack \in Nat
    BY <1>4 DEF Records
  <2> QED BY <1>3, <2>1, UnackedType
<1> HIDE DEF rest
<1>6. << >> \in Seq(DataPackets)
  OBVIOUS
<1>7. CASE AckIgnored(n, p, ack)
  <2> DEFINE q == [r EXCEPT !.num_data_retransmits = 0]
  <2>1. /\ Receives(n, p, ACK(ack), << >>) /\ peer' = [peer EXCEPT ![n][p] = q]
        /\ UNCHANGED me
    BY <1>7 DEF AckIgnored, r
  <2>2. AsksNoMore(r, q)
    BY <1>3, RecordFields, HandlersAskNoMore
  <2> HIDE DEF q
  <2> QED BY <1>2, <1>3, <1>6, <2>1, <2>2, ServingKeepsList, ServingStep DEF r
<1>8. CASE FinalAck(n, p, ack)
  <2> DEFINE q == post_send_cleanup(c)
  <2>1. /\ Receives(n, p, ACK(ack), << >>) /\ peer' = [peer EXCEPT ![n][p] = q]
        /\ me' = [me EXCEPT ![n].curr_to = NULL, ![n].his_request = FALSE]
    BY <1>8 DEF FinalAck, r, c
  <2>2. AsksNoMore(c, q)
    BY <1>4, RecordFields, HandlersAskNoMore
  <2> HIDE DEF q
  <2>3. AsksNoMore(r, q)
    BY <1>4, <2>2, AsksNoMoreTwice
  <2>4. ListsGrow
    BY <1>3, <2>1, ServingKeepsList
  <2> QED BY <1>2, <1>6, <2>1, <2>3, <2>4, ServingStep DEF r
<1>9. CASE TripleDupack(n, p, ack)
  <2> DEFINE q == [c EXCEPT !.num_dupacks = 1]
  <2>1. /\ Receives(n, p, ACK(ack), <<Head(rest)>>) /\ rest # << >>
        /\ peer' = [peer EXCEPT ![n][p] = q] /\ UNCHANGED me
    BY <1>9 DEF TripleDupack, r, c, rest
  <2>2. <<Head(rest)>> \in Seq(DataPackets)
    BY <1>5, <2>1, HeadTailProperties, SingletonType
  <2>3. AsksNoMore(c, q)
    BY <1>4, RecordFields, HandlersAskNoMore
  <2> HIDE DEF q
  <2>4. AsksNoMore(r, q)
    BY <1>4, <2>3, AsksNoMoreTwice
  <2>5. ListsGrow
    BY <1>3, <2>1, ServingKeepsList
  <2> QED BY <1>2, <2>1, <2>2, <2>4, <2>5, ServingStep DEF r
<1>10. CASE AckAdvances(n, p, ack)
  <2> DEFINE cc == slow_start(state[n])
             seq == me[n].last_seq + 1
             data == NextData(c, cc, seq, rest)
             l == LastSeq(n, data)
  <2>1. /\ Receives(n, p, ACK(ack), data) /\ peer' = [peer EXCEPT ![n][p] = c]
        /\ r.his_request /\ me' = [me EXCEPT ![n].last_seq = l]
    BY <1>10 DEF AckAdvances, AckCounts, r, c, rest
  <2>2. c.send_hash_id \in Chunks /\ c.last_ack \in Nat
    <3>1. c.his_request = r.his_request
      BY <1>3, RecordFields DEF CountAck, Fields, c
    <3> QED BY <1>4, <2>1, <3>1 DEF Records
  <2>3. cc \in CongestionStates /\ seq \in 1..(FINALACK + 1)
    BY <1>3, SlowStartOK, SwarmAssumption DEF Mes
  <2> HIDE DEF cc, seq, l
  <2>4. data \in Seq(DataPackets)
    BY <1>5, <2>2, <2>3, NextDataType
  <2> HIDE DEF data
  <2>5. ListsGrow
    BY <1>3, <2>1, ServingKeepsList
  <2> QED BY <1>2, <1>4, <2>1, <2>4, <2>5, ServingStep DEF r
<1> QED BY <1>1, <1>7, <1>8, <1>9, <1>10 DEF ack

\* A GET: who is served has asked.
LEMMA GetAsksOnce ==
  ASSUME SwarmInv, AskedOnce, NEW n \in Nodes, NEW p \in OtherNodes(n),
         GetDenied(n, p) \/ GetAccepted(n, p)
  PROVE  AskedOnce'
<1>1. peer[n][p] \in Records(asked[n], asked[p]) /\ LinkOK /\ MeOK /\ ByPair(peer)
  BY DEF SwarmInv, PeerOK
<1>2. CASE GetDenied(n, p)
  <2>1. PICK pk : /\ Receives(n, p, pk, <<DENIED>>)
                  /\ me' = [me EXCEPT ![n].curr_to = p]
                  /\ UNCHANGED <<setup, asked, peer>>
    BY <1>2 DEF GetDenied
  <2>2. <<DENIED>> \in Seq({DENIED})
    BY SingletonType
  <2>3. LinksGain(n, p, <<DENIED>>) /\ \A c : GET(c) \notin On(<<DENIED>>)
    BY <1>1, <2>1, <2>2, ReceivesGains, NoGet
  <2>4. RecordsAskNoMore
    BY <2>1 DEF RecordsAskNoMore, AsksNoMore
  <2>5. ListsGrow
    BY <1>1, <2>1, ServingKeepsList
  <2> QED BY <2>1, <2>3, <2>4, <2>5, QuietStep DEF LinksGain
<1>3. CASE GetAccepted(n, p)
  <2> DEFINE q(h) == [peer[n][p] EXCEPT !.pending_ihave = NULL, !.his_request = TRUE,
                                        !.send_hash_id = h]
             data(h) == NextData(q(h), init_congestion_state, 1, send_buffer[n])
  <2>1. PICK pk, l :
          /\ pk \in Arriving(n, p, "GET")
          /\ Receives(n, p, pk, data(pk.hash))
          /\ me' = [me EXCEPT ![n].curr_to = p, ![n].his_request = TRUE, ![n].last_seq = l]
          /\ peer' = [peer EXCEPT ![n][p] = q(pk.hash)]
          /\ UNCHANGED <<setup, asked>>
    BY <1>3 DEF GetAccepted
  <2>2. pk \in GetPackets(asked[p])
    BY <2>1, ArrivingType, PacketTypes DEF SwarmInv
  <2>3. pk.hash \in Chunks /\ pk = GET(pk.hash)
    BY <2>2 DEF GetPackets, GET
  <2> DEFINE h == pk.hash
             new == q(h)
             ps == data(h)
  <2>4. GET(h) \in On(link[p][n])
    BY <2>1, <2>3 DEF Arriving, On
  <2>5. /\ new.pending_get = peer[n][p].pending_get /\ new.hehas = peer[n][p].hehas
        /\ new.send_hash_id = h /\ new.last_ack \in Nat
    BY <1>1 DEF Records
  <2> HIDE DEF q
  <2>6. ps \in Seq(DataPackets)
    <3>1. 1 \in 1..(FINALACK + 1) /\ init_congestion_state \in CongestionStates
      BY SwarmAssumption, InitCongestion
    <3>2. send_buffer[n] \in Seq(DataPackets)
      BY DEF SwarmInv, WindowOK
    <3> HIDE DEF new
    <3> QED BY <2>3, <2>5, <3>1, <3>2, NextDataType DEF new
  <2>7. Receives(n, p, pk, ps) /\ peer' = [peer EXCEPT ![n][p] = new]
    BY <2>1
  <2> HIDE DEF data, ps, new
  <2>8. LinksGain(n, p, ps) /\ \A c : GET(c) \notin On(ps)
    BY <1>1, <2>6, <2>7, ReceivesGains, NoGet
  <2>9. /\ peer'[n][p] = new
        /\ \A m \in Nodes : \A o \in OtherNodes(m) :
             ~(m = n /\ o = p) => peer'[m][o] = peer[m][o]
    BY <1>1, <2>7 DEF ByPair
  <2>10. ASSUME NEW m \in Nodes, NEW o \in OtherNodes(m), NEW c \in Chunks, Requested(m, o, c)'
         PROVE  Requested(m, o, c)
    <3>1. o \in Nodes /\ m \in OtherNodes(o)
      BY DEF OtherNodes
    <3>2. GET(c) \in On(link'[m][o]) => GET(c) \in On(link[m][o])
      BY <2>8 DEF LinksGain
    <3>3. peer'[m][o].pending_get = peer[m][o].pending_get
      BY <2>5, <2>9
    <3>4. peer'[o][m].his_request /\ peer'[o][m].send_hash_id = c => Requested(m, o, c)
      <4>1. CASE o = n /\ m = p
        BY <2>4, <2>5, <2>9, <4>1 DEF Requested
      <4>2. CASE ~(o = n /\ m = p)
        BY <2>9, <3>1, <4>2 DEF Requested
      <4> QED BY <4>1, <4>2
    <3> QED BY <2>10, <3>2, <3>3, <3>4 DEF Requested, On
  <2>11. \A m \in Nodes : \A o \in OtherNodes(m) : peer'[m][o].hehas = peer[m][o].hehas
    BY <2>5, <2>9
  <2>12. ListsGrow
    BY <1>1, <2>1, ServingKeepsList
  <2> QED BY <2>1, <2>10, <2>11, <2>12, RequestsStay
<1> QED BY <1>2, <1>3

\* A process that ends takes the packets on their way to it along.
LEMMA EndedAsksOnce ==
  ASSUME SwarmInv, AskedOnce, NEW n \in Nodes,
         link' = [p \in Nodes |-> [q \in OtherNodes(p) |->
                    IF q = n THEN << >> ELSE link[p][q]]],
         UNCHANGED <<setup, asked, me, peer>>
  PROVE  AskedOnce'
<1>1. RecordsAskNoMore /\ ListsGrow
  BY DEF RecordsAskNoMore, AsksNoMore, ListsGrow
<1>2. ASSUME NEW m \in Nodes, NEW q \in OtherNodes(m), NEW c, GET(c) \in On(link'[m][q])
      PROVE  GET(c) \in On(link[m][q])
  <2>1. q # n => link'[m][q] = link[m][q]
    OBVIOUS
  <2>2. q = n => link'[m][q] = << >>
    OBVIOUS
  <2>3. On(<< >>) = {}
    BY DEF On
  <2> QED BY <1>2, <2>1, <2>2, <2>3
<1> QED BY <1>1, <1>2, QuietStep

LEMMA LoseAsksOnce ==
  ASSUME SwarmInv, AskedOnce, NEW n \in Nodes, NEW p \in OtherNodes(n), Lose(n, p)
  PROVE  AskedOnce'
<1>1. PICK i \in DOMAIN link[n][p] : link' = [link EXCEPT ![n][p] = Without(@, i)]
  BY DEF Lose
<1> DEFINE q == Without(link[n][p], i)
<1>2. On(q) \subseteq On(link[n][p])
  BY WithoutOn DEF SwarmInv, LinkOK
<1>3. UNCHANGED <<setup, asked, me, peer>>
  BY DEF Lose, nodeVars
<1>4. link' = [link EXCEPT ![n][p] = q]
  BY <1>1
<1> HIDE DEF q
<1>5. ASSUME NEW m \in Nodes, NEW o \in OtherNodes(m), NEW c, GET(c) \in On(link'[m][o])
      PROVE  GET(c) \in On(link[m][o])
  <2>1. link'[m][o] = IF m = n /\ o = p THEN q ELSE link[m][o]
    BY <1>4 DEF SwarmInv, LinkOK, ByPair
  <2> QED BY <1>2, <1>5, <2>1
<1>6. RecordsAskNoMore /\ ListsGrow
  BY <1>3 DEF RecordsAskNoMore, AsksNoMore, ListsGrow
<1> QED BY <1>3, <1>5, <1>6, QuietStep

\* The timers: what they repeat was asked, what they forget asks for nothing.
LEMMA TimersAskOnce ==
  ASSUME SwarmInv, AskedOnce, NEW n \in Nodes, Timeout(n) \/ Scan(n), ~StartsOver
  PROVE  AskedOnce'
<1> DEFINE o == me[n].curr_to
<1>1. o \in OtherNodes(n) \cup {NULL} /\ MeOK /\ LinkOK
  BY DEF SwarmInv, MeOK, Mes
<1>2. ASSUME NEW p \in OtherNodes(n)
      PROVE  /\ peer[n][p] \in Records(asked[n], asked[p])
             /\ Fields \subseteq DOMAIN peer[n][p]
             /\ AsksNoMore(peer[n][p], peer_total_cleanup(peer[n][p]))
  <2>1. peer[n][p] \in Records(asked[n], asked[p])
    BY DEF SwarmInv, PeerOK
  <2>2. Fields \subseteq DOMAIN peer[n][p]
    BY <2>1, RecordFields
  <2> QED BY <2>1, <2>2, HandlersAskNoMore
<1>3. ASSUME NEW p \in OtherNodes(n), UNCHANGED <<setup, asked, link>>,
             peer' = [peer EXCEPT ![n][p] = peer_total_cleanup(peer[n][p])],
             me' = [me EXCEPT ![n].curr_to = NULL, ![n].his_request = FALSE]
      PROVE  AskedOnce'
  <2>1. ListsGrow
    BY <1>1, <1>3, ServingKeepsList
  <2>2. LinksGain(n, p, << >>)
    BY <1>3 DEF LinksGain
  <2>3. \A c : GET(c) \notin On(<< >>)
    BY DEF On
  <2> DEFINE q == peer_total_cleanup(peer[n][p])
  <2>4. AsksNoMore(peer[n][p], q)
    BY <1>2
  <2> HIDE DEF q
  <2> QED BY <1>3, <2>1, <2>2, <2>3, <2>4, QuietRecord DEF q
<1>4. CASE TimeoutIdle(n)
  <2>1. UNCHANGED <<setup, asked, me, peer, link>>
    BY <1>4 DEF TimeoutIdle, nodeVars
  <2>2. RecordsAskNoMore /\ ListsGrow
    BY <2>1 DEF RecordsAskNoMore, AsksNoMore, ListsGrow
  <2> QED BY <2>1, <2>2, QuietStep
<1>5. CASE TimeoutResends(n)
  <2>1. o \in OtherNodes(n)
    BY <1>1, <1>5 DEF TimeoutResends
  <2>2. CASE send_buffer[n] = << >>
    <3>1. Segv(n)
      BY <1>5, <2>2 DEF TimeoutResends
    <3> QED BY <3>1, EndedAsksOnce DEF Segv
  <2>3. CASE send_buffer[n] # << >>
    <3> DEFINE ps == <<Head(send_buffer[n])>>
               k == peer[n][o].num_data_retransmits + 1
               q == [peer[n][o] EXCEPT !.num_data_retransmits = k]
    <3>1. /\ Send(n, o, ps) /\ UNCHANGED <<setup, asked, me>>
          /\ peer' = [peer EXCEPT ![n][o].num_data_retransmits = @ + 1]
      BY <1>5, <2>3 DEF TimeoutResends
    <3>2. peer' = [peer EXCEPT ![n][o] = q]
      BY <3>1
    <3>3. ps \in Seq(DataPackets)
      <4>1. send_buffer[n] \in Seq(DataPackets)
        BY DEF SwarmInv, WindowOK
      <4> QED BY <2>3, <4>1, HeadTailProperties, SingletonType
    <3>4. AsksNoMore(peer[n][o], q)
      BY <1>2, <2>1, HandlersAskNoMore
    <3> HIDE DEF ps, q, o
    <3>5. LinksGain(n, o, ps) /\ \A c : GET(c) \notin On(ps)
      BY <1>1, <2>1, <3>1, <3>3, SendGains, NoGet
    <3>6. ListsGrow
      BY <3>1 DEF ListsGrow
    <3> QED BY <2>1, <3>1, <3>2, <3>4, <3>5, <3>6, QuietRecord
  <2> QED BY <2>2, <2>3
<1>6. CASE TimeoutGivesUp(n)
  <2>1. o \in OtherNodes(n)
    BY <1>1, <1>6 DEF TimeoutGivesUp
  <2>2. /\ UNCHANGED <<setup, asked, link>>
        /\ peer' = [peer EXCEPT ![n][o] = peer_total_cleanup(peer[n][o])]
        /\ me' = [me EXCEPT ![n].curr_to = NULL, ![n].his_request = FALSE]
    BY <1>6 DEF TimeoutGivesUp
  <2> QED BY <1>3, <2>1, <2>2
<1>7. ASSUME NEW p \in OtherNodes(n), PeerForgotten(n, p)
      PROVE  AskedOnce'
  <2>1. /\ UNCHANGED <<setup, asked, link>>
        /\ peer' = [peer EXCEPT ![n][p] = peer_total_cleanup(peer[n][p])]
        /\ me' = [me EXCEPT ![n].curr_to = NULL, ![n].his_request = FALSE]
    BY <1>7 DEF PeerForgotten
  <2> QED BY <1>3, <2>1
<1>8. ASSUME NEW p \in OtherNodes(n), PeerWaits(n, p)
      PROVE  AskedOnce'
  <2> DEFINE r == peer[n][p]
             ps == Pending(r)
             k == r.num_retransmits + Len(Pending(r))
             l == IF r.get_hash_id # PSUEDO_INF THEN r.ack_timeout_counter + 1
                  ELSE r.ack_timeout_counter
             q == [r EXCEPT !.num_retransmits = k, !.ack_timeout_counter = l]
  <2>1. Send(n, p, ps) /\ UNCHANGED <<setup, asked, me>>
    BY <1>8 DEF PeerWaits
  <2>2. peer' = [peer EXCEPT ![n][p] = q]
    <3>1. peer' = [peer EXCEPT
            ![n][p].num_retransmits = @ + Len(Pending(r)),
            ![n][p].ack_timeout_counter = IF r.get_hash_id # PSUEDO_INF THEN @ + 1 ELSE @]
      BY <1>8 DEF PeerWaits
    <3> QED BY <3>1
  <2>3. r \in Records(asked[n], asked[p]) /\ Fields \subseteq DOMAIN r
    BY <1>2
  <2> HIDE DEF k, l
  <2>4. AsksNoMore(r, q)
    BY <2>3, HandlersAskNoMore
  <2> HIDE DEF q
  <2>5. ps \in Seq(Packets(asked[n], asked[p]))
    BY <2>3, PendingType, KindsArePackets
  <2>6. ASSUME NEW c, GET(c) \in On(ps) PROVE r.pending_get = GET(c)
    <3>1. CASE r.pending_whohas
      <4>1. /\ ps = <<Head(r.whohas_list)>>
            /\ Head(r.whohas_list) \in WhohasPackets(asked[n])
        BY <2>3, <3>1, HeadTailProperties DEF Pending, Records
      <4>2. ps \in Seq(WhohasPackets(asked[n]))
        BY <4>1, SingletonType
      <4> QED BY <2>6, <4>2, NoGet
    <3>2. CASE ~r.pending_whohas /\ r.pending_ihave # NULL
      <4>1. ps = <<r.pending_ihave>> /\ r.pending_ihave \in IhavePackets(asked[p])
        BY <2>3, <3>2 DEF Pending, Records
      <4>2. ps \in Seq(IhavePackets(asked[p]))
        BY <4>1, SingletonType
      <4> QED BY <2>6, <4>2, NoGet
    <3>3. CASE ~r.pending_whohas /\ r.pending_ihave = NULL
      <4>1. ps = << >> \/ ps = <<r.pending_get>>
        BY <3>3 DEF Pending
      <4> HIDE DEF ps
      <4> QED BY <2>6, <4>1 DEF On
    <3> QED BY <3>1, <3>2, <3>3
  <2> HIDE DEF ps
  <2>7. LinksGain(n, p, ps)
    BY <1>1, <2>1, <2>5, SendGains
  <2>8. ListsGrow
    BY <2>1 DEF ListsGrow
  <2> QED BY <2>1, <2>2, <2>4, <2>6, <2>7, <2>8, QuietRecord
<1>9. \A p \in OtherNodes(n) : ~PeerGivenUp(n, p)
  BY DEF StartsOver
<1>10. ASSUME NEW p \in OtherNodes(n), ScanFollowsWild(n, p) PROVE AskedOnce'
  BY <1>10, EndedAsksOnce DEF ScanFollowsWild, Segv
<1>11. TimeoutFollowsWild(n) => AskedOnce'
  BY EndedAsksOnce DEF TimeoutFollowsWild, Segv
<1> QED BY <1>4, <1>5, <1>6, <1>7, <1>8, <1>9, <1>10, <1>11 DEF Timeout, Scan

\* The first command of a user: nothing was asked for before it.
LEMMA UserAsksOnce ==
  ASSUME SwarmInv, AskedOnce, NEW n \in Nodes, UserAsks(n), ~StartsOver
  PROVE  AskedOnce'
<1> DEFINE rq == setup.requests[n][asked[n] + 1]
           queued(p) == [peer[n][p] EXCEPT !.whohas_list = @ \o Split(rq)]
<1>1. /\ asked[n] < Len(setup.requests[n])
      /\ asked' = [asked EXCEPT ![n] = @ + 1]
      /\ me' = [me EXCEPT ![n].num_chunks = Len(rq), ![n].chunks_fetched = 0]
      /\ peer' = [peer EXCEPT ![n] =
                    [p \in OtherNodes(n) |-> send_next_whohas(queued(p))]]
      /\ link' = [link EXCEPT ![n] =
                    [p \in OtherNodes(n) |->
                       Transmit(@[p], status[p], NextWhohas(queued(p)))]]
      /\ UNCHANGED setup
  BY DEF UserAsks
<1>2. asked[n] = 0
  BY DEF StartsOver, SwarmInv, AskedOK
<1>3. \A m \in Nodes : asked'[m] = asked[m] \/ asked[m] = 0
  BY <1>1, <1>2 DEF SwarmInv, AskedOK
<1>4. rq \in Seq(Chunks)
  <2>1. asked[n] + 1 \in 1..Len(setup.requests[n])
    <3>1. Len(setup.requests[n]) \in Nat /\ asked[n] \in Nat
      BY SwarmAssumption, LenProperties DEF SwarmInv, AskedOK
    <3> QED BY <1>1, <3>1
  <2> QED BY <2>1, RequestType DEF SwarmInv, AskedOK
<1> HIDE DEF rq
<1>5. Split(rq) \in Seq(WhohasPackets(1))
  BY <1>4, SplitType
<1>6. ASSUME NEW p \in OtherNodes(n)
      PROVE  /\ AsksNoMore(peer[n][p], send_next_whohas(queued(p)))
             /\ NextWhohas(queued(p)) \in Seq(WhohasPackets(1))
  <2>1. peer[n][p] \in Records(asked[n], asked[p])
    BY DEF SwarmInv, PeerOK
  <2>2. Fields \subseteq DOMAIN peer[n][p] /\ "whohas_list" \in DOMAIN peer[n][p]
    <3>1. "whohas_list" \in DOMAIN peer[n][p]
      BY <2>1 DEF Records
    <3> QED BY <2>1, <3>1, RecordFields
  <2> DEFINE list == peer[n][p].whohas_list \o Split(rq)
             q == queued(p)
  <2>3. list \in Seq(WhohasPackets(1))
    <3>1. peer[n][p].whohas_list \in Seq(WhohasPackets(0))
      BY <1>2, <2>1 DEF Records
    <3>2. WhohasPackets(0) \subseteq WhohasPackets(1)
      BY DEF WhohasPackets
    <3>3. peer[n][p].whohas_list \in Seq(WhohasPackets(1))
      BY <3>1, <3>2, ElementOfSeq
    <3> QED BY <1>5, <3>3, ConcatProperties
  <2>4. q = [peer[n][p] EXCEPT !.whohas_list = list]
    OBVIOUS
  <2> HIDE DEF list, queued, q
  <2>5. q.whohas_list = list /\ Fields \subseteq DOMAIN q /\ AsksNoMore(peer[n][p], q)
    BY <2>2, <2>4 DEF Fields, AsksNoMore
  <2>6. AsksNoMore(q, send_next_whohas(q))
    BY <2>5, HandlersAskNoMore
  <2>7. AsksNoMore(peer[n][p], send_next_whohas(q))
    BY <2>5, <2>6, AsksNoMoreTwice
  <2>8. NextWhohas(q) \in Seq(WhohasPackets(1))
    <3>1. CASE list = << >>
      BY <2>5, <3>1 DEF NextWhohas
    <3>2. CASE list # << >>
      <4>1. Head(list) \in WhohasPackets(1)
        BY <2>3, <3>2, HeadTailProperties
      <4>2. NextWhohas(q) = <<Head(list)>>
        BY <2>5, <3>2 DEF NextWhohas
      <4> QED BY <4>1, <4>2, SingletonType
    <3> QED BY <3>1, <3>2
  <2> QED BY <2>7, <2>8 DEF q
<1> HIDE DEF queued
<1>7. RecordsAskNoMore
  <2>1. ASSUME NEW m \in Nodes, NEW q \in OtherNodes(m)
        PROVE  AsksNoMore(peer[m][q], peer'[m][q])
    <3>1. CASE m = n
      <4>1. peer'[m][q] = send_next_whohas(queued(q))
        BY <1>1, <3>1 DEF SwarmInv, PeerOK, ByPair
      <4> QED BY <1>6, <3>1, <4>1
    <3>2. CASE m # n
      <4>1. peer'[m][q] = peer[m][q]
        BY <1>1, <3>2 DEF SwarmInv, PeerOK, ByPair
      <4> QED BY <4>1 DEF AsksNoMore
    <3> QED BY <3>1, <3>2
  <2> QED BY <2>1 DEF RecordsAskNoMore
<1>8. ListsGrow
  <2>1. ASSUME NEW m \in Nodes
        PROVE  me'[m].fetching_or_fetched = me[m].fetching_or_fetched
    <3>1. DOMAIN me = Nodes /\ me[n] \in Mes(n)
      BY DEF SwarmInv, MeOK
    <3>2. "fetching_or_fetched" \in DOMAIN me[n]
      BY <3>1 DEF Mes
    <3> QED BY <1>1, <3>1, <3>2
  <2> QED BY <2>1 DEF ListsGrow
<1>9. ASSUME NEW m \in Nodes, NEW q \in OtherNodes(m), NEW c, GET(c) \in On(link'[m][q])
      PROVE  GET(c) \in On(link[m][q])
  <2>1. CASE m = n
    <3> DEFINE ps == NextWhohas(queued(q))
    <3>1. link'[m][q] = Transmit(link[m][q], status[q], ps)
      BY <1>1, <2>1 DEF SwarmInv, LinkOK, ByPair
    <3>2. ps \in Seq(WhohasPackets(1))
      BY <1>6, <2>1
    <3> HIDE DEF ps
    <3>3. GET(c) \notin On(ps)
      BY <3>2, NoGet
    <3>4. On(Transmit(link[m][q], status[q], ps)) \subseteq On(link[m][q]) \cup On(ps)
      BY <3>2, TransmitOn DEF SwarmInv, LinkOK
    <3> QED BY <1>9, <3>1, <3>3, <3>4
  <2>2. CASE m # n
    <3>1. link'[m][q] = link[m][q]
      BY <1>1, <2>2 DEF SwarmInv, LinkOK, ByPair
    <3> QED BY <1>9, <3>1
  <2> QED BY <2>1, <2>2
<1> QED BY <1>1, <1>3, <1>7, <1>8, <1>9, QuietStep

\* Every step but those that start over.
LEMMA AskedOnceStep ==
  ASSUME SwarmInv, AskedOnce, Next, ~StartsOver
  PROVE  AskedOnce'
<1>1. PICK n \in Nodes : Turn(n) \/ Timeout(n) \/ Environment(n)
  BY DEF Next
<1>2. ASSUME NEW p \in OtherNodes(n), Handle(n, p)
      PROVE  AskedOnce'
  <2>1. ChunkFetched(n, p) => me[n].num_chunks # me[n].chunks_fetched + 1
    BY DEF StartsOver
  <2>2. AckWithoutWindow(n, p) \/ IhaveFollowsWild(n, p) => AskedOnce'
    BY EndedAsksOnce DEF AckWithoutWindow, IhaveFollowsWild, Segv
  <2> QED BY <1>2, <2>1, <2>2, FetchingAsksOnce, IhaveAsksOnce, DataIgnoredAsksOnce,
             ChunkFetchedAsksOnce, AckAsksOnce, GetAsksOnce DEF Handle
<1>3. CASE Environment(n)
  <2>1. Crash(n) => AskedOnce'
    BY EndedAsksOnce DEF Crash
  <2> QED BY <1>3, <2>1, LoseAsksOnce DEF Environment
<1> QED BY <1>1, <1>2, <1>3, UserAsksOnce, TimersAskOnce DEF Turn

\* No two peers serve one chunk to the same requester, however many peers have
\* it and whatever is lost, duplicated, overtaken or crashes: get_next_chunk
\* asks for no chunk on the list of those fetched and fetching.  This is so
\* until that list is emptied, when a download is complete or a peer that sends
\* no data is given up (add_to_num_chunks_fetched and peer_run), or its ids
\* stand for other chunks, at the second command of a user.
THEOREM ChunksServedOnce == Spec /\ [][~StartsOver]_vars => []FetchedOnce
<1>1. Init => AskedOnce
  <2> SUFFICES ASSUME Init, NEW n \in Nodes, NEW p \in OtherNodes(n)
               PROVE  /\ \A c : ~Requested(n, p, c)
                      /\ WellNamed(n, peer[n][p].hehas)
    BY DEF AskedOnce
  <2>1. ASSUME NEW m \in Nodes, NEW o \in OtherNodes(m)
        PROVE  /\ peer[m][o].pending_get = NULL /\ peer[m][o].his_request = FALSE
               /\ peer[m][o].hehas = << >> /\ link[m][o] = << >>
    <3>1. peer[m][o] = NewPeer(setup.leftover[m][o])
      BY DEF Init
    <3>2. link[m][o] = << >>
      BY DEF Init
    <3> QED BY <3>1, <3>2 DEF NewPeer
  <2>2. On(<< >>) = {}
    BY DEF On
  <2>3. p \in Nodes /\ n \in OtherNodes(p) /\ \A c : GET(c) # NULL
    BY DEF OtherNodes, GET, NULL
  <2> QED BY <2>1, <2>2, <2>3 DEF Requested, WellNamed
<1>2. SwarmInv /\ AskedOnce /\ [Next]_vars /\ [~StartsOver]_vars => AskedOnce'
  <2> SUFFICES ASSUME SwarmInv, AskedOnce, [Next]_vars, [~StartsOver]_vars
               PROVE  AskedOnce'
    OBVIOUS
  <2>1. CASE UNCHANGED vars
    <3>1. UNCHANGED <<setup, asked, me, peer, link>>
      BY <2>1 DEF vars, nodeVars
    <3>2. RecordsAskNoMore /\ ListsGrow
      BY <3>1 DEF RecordsAskNoMore, AsksNoMore, ListsGrow
    <3> QED BY <3>1, <3>2, QuietStep
  <2>2. CASE ~UNCHANGED vars
    BY <2>2, AskedOnceStep
  <2> QED BY <2>1, <2>2
<1>3. SwarmInv /\ AskedOnce => FetchedOnce
  <2> SUFFICES ASSUME SwarmInv, AskedOnce, NEW n \in Nodes,
                      NEW p \in OtherNodes(n), NEW q \in OtherNodes(n), p # q,
                      peer[p][n].his_request, peer[q][n].his_request,
                      peer[p][n].send_hash_id = peer[q][n].send_hash_id
               PROVE  FALSE
    BY DEF FetchedOnce
  <2>1. p \in Nodes /\ n \in OtherNodes(p)
    BY DEF OtherNodes
  <2>2. peer[p][n].send_hash_id \in Chunks
    BY <2>1 DEF SwarmInv, PeerOK, Records
  <2> DEFINE c == peer[p][n].send_hash_id
  <2>3. Requested(n, p, c) /\ Requested(n, q, c)
    BY DEF Requested
  <2> QED BY <2>2, <2>3 DEF AskedOnce
<1> QED BY <1>1, <1>2, <1>3, SwarmInvariance, PTL DEF Spec
=============================================================================
