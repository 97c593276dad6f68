------------------------------- MODULE Swarm ---------------------------------
(***************************************************************************)
(* Several peers that discover, schedule, serve and fetch chunks: all the  *)
(* handlers of packet_handler.c, the user's command and the timeouts of    *)
(* peer_run, with every peer in both roles and short chunks.               *)
(*                                                                         *)
(* A peer is one thread.  Its globals and its record of itself are me[n],  *)
(* send_buffer[n] and state[n]; its record of another peer p is            *)
(* peer[n][p].  The names are those of the C fields.  link[n][p] is what   *)
(* is on its way from n to p.  The file a peer downloads into is the       *)
(* function file[n] from the place of a block to the chunk whose data is   *)
(* there: a data packet carries data of one chunk but does not say which.  *)
(*                                                                         *)
(* A chunk is named by its hash.  Its id is its line in the request file,  *)
(* counted from 0, for the peer that fetches it; the peer that serves it   *)
(* has a master file with every chunk.  A place is the number of the       *)
(* command whose output file it is, the id and the block.                  *)
(***************************************************************************)
EXTENDS SendWindow, Hub, FiniteSets

CONSTANTS PeerOrder,             \* config->peers: the nodes, without repetition
          Setups,                \* who has and who asks for which chunks
          MAX_CHUNKS_PER_PACK,   \* 74
          MAX_RETRANSMITS,       \* 5
          MAX_DATA_RETRANSMIT    \* 10

Nodes == {PeerOrder[i] : i \in DOMAIN PeerOrder}
AllRequests == UNION {{s.requests[n][k] : k \in DOMAIN s.requests[n]} :
                        s \in Setups, n \in Nodes}
Chunks == UNION {{rq[i] : i \in DOMAIN rq} : rq \in AllRequests}
Ids == UNION {{i - 1 : i \in DOMAIN rq} : rq \in AllRequests}
Outputs == UNION {DOMAIN s.requests[n] : s \in Setups, n \in Nodes}
Blocks == 1..FINALACK
Places == Outputs \X Ids \X Blocks

Others(n) == SelectSeq(PeerOrder, LAMBDA p : p # n)
OtherNodes(n) == Nodes \ {n}

\* What malloc may leave in the fields of a record that nothing sets: numbers,
\* and a list of chunks that is empty or a wild pointer.
Leftovers == [num_chunks : Nat, chunks_fetched : Nat, wild : BOOLEAN,
              last_ack : Nat, num_dupacks : Nat]

ASSUME SwarmAssumption ==
  /\ \A i, j \in DOMAIN PeerOrder : PeerOrder[i] = PeerOrder[j] => i = j
  /\ \A s \in Setups : \A n \in Nodes :
       /\ s.local[n] \subseteq Nat
       /\ \A p \in OtherNodes(n) : s.leftover[n][p] \in Leftovers
       /\ s.requests[n] \in Seq(Seq(Nat) \ {<< >>})
  /\ FINALACK \in Nat \ {0} /\ MAX_CHUNKS_PER_PACK \in Nat \ {0}
  /\ MAX_RETRANSMITS \in Nat \ {0} /\ MAX_DATA_RETRANSMIT \in Nat \ {0}

PSUEDO_INF == 1073741824   \* no chunk, 1 << 30
NotFound == -1             \* a chunk that is not in the request file
NULL == [type |-> "NULL"]

WHOHAS(cs) == [type |-> "WHOHAS", chunks |-> cs]
IHAVE(cs) == [type |-> "IHAVE", chunks |-> cs]
GET(c) == [type |-> "GET", hash |-> c]
DENIED == [type |-> "DENIED"]
DATA(c, i) == [type |-> "DATA", data |-> c, seq_num |-> i]
ACK(i) == [type |-> "ACK", ack_num |-> i]

VARIABLES
  setup,         \* the has-chunk and request files, and what malloc left in
                 \* the fields of a record that nothing sets: one of Setups
  status,        \* "up", "crashed" or "segv" (a null or wild dereference)
  asked,         \* how many commands of the user were processed
  reported,      \* the commands for which "DOWNLAOD COMPLETE" was printed
  me, peer, send_buffer, state, file,
  scan,          \* the records the timeout loop of peer_run has yet to visit
  link

nodeVars == <<setup, status, asked, reported, me, peer, send_buffer, state, file>>
vars == <<nodeVars, scan, link>>

\* A record as bt_parse_peer_list makes it: five fields keep what was in the
\* memory.  A wild record is one whose hehas is not null and points anywhere.
NewPeer(old) ==
  [num_chunks |-> old.num_chunks, chunks_fetched |-> old.chunks_fetched,
   hehas |-> << >>, wild |-> old.wild,
   get_hash_id |-> PSUEDO_INF, send_hash_id |-> PSUEDO_INF,
   his_request |-> FALSE, last_ack |-> old.last_ack, num_dupacks |-> old.num_dupacks,
   whohas_list |-> << >>, pending_whohas |-> FALSE,
   pending_ihave |-> NULL, pending_get |-> NULL,
   num_retransmits |-> 0, num_data_retransmits |-> 0,
   ack_timeout_counter |-> 0, recv_buffer |-> {}]

\* num_chunks and chunks_fetched count the chunks of the whole request here,
\* those of one peer in its record.
NewMe == [num_chunks |-> 0, chunks_fetched |-> 0, fetching_or_fetched |-> {},
          curr_to |-> NULL, his_request |-> FALSE, last_seq |-> 0]

Init ==
  /\ status = [n \in Nodes |-> "up"]
  /\ setup \in Setups
  /\ asked = [n \in Nodes |-> 0] /\ reported = [n \in Nodes |-> {}]
  /\ me = [n \in Nodes |-> NewMe]
  /\ peer = [n \in Nodes |-> [p \in OtherNodes(n) |->
               NewPeer(setup.leftover[n][p])]]
  /\ send_buffer = [n \in Nodes |-> << >>]
  /\ state = [n \in Nodes |-> init_congestion_state]
  /\ file = [n \in Nodes |-> [b \in Places |-> PSUEDO_INF]]
  /\ scan = [n \in Nodes |-> << >>]
  /\ link = [n \in Nodes |-> [p \in OtherNodes(n) |-> << >>]]

\* A node between two turns of the loop of peer_run.
Ready(n) == status[n] = "up" /\ scan[n] = << >>

Send(n, p, ps) ==
  link' = [link EXCEPT ![n][p] = Transmit(@, status[p], ps)]

\* Node n takes packet pk of p from the link, and answers it with ps.
Receives(n, p, pk, ps) ==
  /\ Ready(n)
  /\ \E i \in Deliverable(link[p][n]) :
       /\ link[p][n][i] = pk
       /\ \E q \in AfterDelivery(link[p][n], i) :
            link' = [link EXCEPT ![p][n] = q,
                                 ![n][p] = Transmit(@, status[p], ps)]

\* The packets of a type that are on the link from p to n.
Arriving(n, p, type) ==
  {pk \in {link[p][n][i] : i \in DOMAIN link[p][n]} : pk.type = type}

-----------------------------------------------------------------------------
(* Discovery.                                                              *)

\* The request is split into packets of MAX_CHUNKS_PER_PACK chunks, the last
\* one smaller.
Split(cs) ==
  LET iterations == (Len(cs) + MAX_CHUNKS_PER_PACK - 1) \div MAX_CHUNKS_PER_PACK
  IN  [i \in 1..iterations |->
         WHOHAS(SubSeq(cs, (i - 1) * MAX_CHUNKS_PER_PACK + 1,
                       Least(i * MAX_CHUNKS_PER_PACK, Len(cs))))]

\* send_next_whohas: the packet that goes out, and the record after it.
NextWhohas(r) == IF r.whohas_list = << >> THEN << >> ELSE <<Head(r.whohas_list)>>
send_next_whohas(r) ==
  IF r.whohas_list = << >> THEN r ELSE [r EXCEPT !.pending_whohas = TRUE]

\* The user's next GET command (process_cmd, init_whohas).
UserAsks(n) ==
  LET rq == setup.requests[n][asked[n] + 1]
      queued(r) == [r EXCEPT !.whohas_list = @ \o Split(rq)]
  IN  /\ Ready(n) /\ asked[n] < Len(setup.requests[n])
      /\ asked' = [asked EXCEPT ![n] = @ + 1]
      /\ me' = [me EXCEPT ![n].num_chunks = Len(rq), ![n].chunks_fetched = 0]
      /\ peer' = [peer EXCEPT ![n] =
                    [p \in OtherNodes(n) |-> send_next_whohas(queued(@[p]))]]
      /\ link' = [link EXCEPT ![n] =
                    [p \in OtherNodes(n) |->
                       Transmit(@[p], status[p], NextWhohas(queued(peer[n][p])))]]
      /\ UNCHANGED <<setup, status, reported, send_buffer, state, file, scan>>

\* The chunks of a WHOHAS that the node has, one after the other.
Had(n, cs) ==
  LET had[k \in 0..Len(cs)] ==
        IF k = 0 THEN << >>
        ELSE IF cs[k] \in setup.local[n] THEN Append(had[k - 1], cs[k]) ELSE had[k - 1]
  IN  had[Len(cs)]

WhohasHandler(n, p) ==
  \E pk \in Arriving(n, p, "WHOHAS") :
    LET ihave == IHAVE(Had(n, pk.chunks))
    IN  /\ Receives(n, p, pk, <<ihave>>)
        /\ peer' = [peer EXCEPT ![n][p].pending_ihave = ihave]
        /\ UNCHANGED <<setup, status, asked, reported, me, send_buffer, state, file,
                       scan>>

\* The chunks at the head of the list that are fetched or fetching already.
Skipped(cs, fof) ==
  CHOOSE k \in 0..Len(cs) : /\ \A i \in 1..k : cs[i].chunk_id \in fof
                            /\ k < Len(cs) => cs[k + 1].chunk_id \notin fof

\* Mutant: the list of fetching or fetched chunks is not looked at.
FetchRegardless(r, fof) ==
  IF r.num_chunks = r.chunks_fetched \/ r.hehas = << >>
    THEN [r |-> r, fof |-> fof, get |-> << >>]
    ELSE LET c == Head(r.hehas)
         IN  [r |-> [r EXCEPT !.get_hash_id = c.chunk_id,
                              !.pending_get = GET(c.chunkhash)],
              fof |-> fof \cup {c.chunk_id}, get |-> <<GET(c.chunkhash)>>]

\* Mutant: the chunk expected stays the first of the list, as ihave_handler set
\* it.
GetKeepsExpecting(r, fof) ==
  LET k == Skipped(r.hehas, fof)
      rest == SubSeq(r.hehas, k + 1, Len(r.hehas))
      left == [r EXCEPT !.hehas = rest, !.chunks_fetched = @ + k]
      c == Head(rest)
  IN  IF r.num_chunks = r.chunks_fetched \/ r.hehas = << >>
        THEN [r |-> r, fof |-> fof, get |-> << >>]
      ELSE IF rest = << >>
        THEN [r |-> left, fof |-> fof, get |-> << >>]
      ELSE [r |-> [left EXCEPT !.pending_get = GET(c.chunkhash)],
            fof |-> fof \cup {c.chunk_id}, get |-> <<GET(c.chunkhash)>>]

\* get_next_chunk: the record, the list of fetching or fetched chunks, and the
\* GET to send, if any.
get_next_chunk(r, fof) ==
  LET k == Skipped(r.hehas, fof)
      rest == SubSeq(r.hehas, k + 1, Len(r.hehas))
      left == [r EXCEPT !.hehas = rest, !.chunks_fetched = @ + k]
      c == Head(rest)
  IN  IF r.num_chunks = r.chunks_fetched \/ r.hehas = << >>
        THEN [r |-> r, fof |-> fof, get |-> << >>]
      ELSE IF rest = << >>
        THEN [r |-> left, fof |-> fof, get |-> << >>]
      ELSE [r |-> [left EXCEPT !.get_hash_id = c.chunk_id,
                               !.pending_get = GET(c.chunkhash)],
            fof |-> fof \cup {c.chunk_id}, get |-> <<GET(c.chunkhash)>>]

\* Mutant: the packet leaves the queue and stays pending.
AnsweredStaysPending(r) ==
  [r EXCEPT !.chunks_fetched = 0,
            !.whohas_list = IF r.pending_whohas THEN Tail(@) ELSE @]

\* The pending WHOHAS is answered, and counts of chunks start again.
Answered(r) ==
  [r EXCEPT !.chunks_fetched = 0, !.pending_whohas = FALSE,
            !.whohas_list = IF r.pending_whohas THEN Tail(@) ELSE @]

\* An IHAVE without chunks: on with the next WHOHAS.
IhaveNothing(n, p) ==
  LET r == Answered(peer[n][p])
  IN  /\ Receives(n, p, IHAVE(<< >>), NextWhohas(r))
      /\ peer' = [peer EXCEPT ![n][p] = send_next_whohas(r)]
      /\ UNCHANGED <<setup, status, asked, reported, me, send_buffer, state, file, scan>>

\* The id of a chunk is its line in the request file of the last command.
get_hash_id_request(n, hash) ==
  LET rq == setup.requests[n][asked[n]]
      lines == {i \in DOMAIN rq : rq[i] = hash}
  IN  IF lines = {} THEN NotFound
      ELSE (CHOOSE i \in lines : \A j \in lines : i <= j) - 1

\* What ihave_handler makes of the list of chunks a peer has: the new chunks
\* go behind the first of an old list, whose others are lost.
Listed(r, cs) ==
  LET list == (IF r.hehas = << >> THEN << >> ELSE <<Head(r.hehas)>>) \o cs
  IN  [r EXCEPT !.hehas = list, !.num_chunks = Len(cs),
                !.get_hash_id = Head(list).chunk_id]

IhaveHandler(n, p) ==
  \E pk \in Arriving(n, p, "IHAVE") :
    LET chunks == [i \in DOMAIN pk.chunks |->
                     [chunkhash |-> pk.chunks[i],
                      chunk_id |-> get_hash_id_request(n, pk.chunks[i])]]
        next == get_next_chunk(Listed(Answered(peer[n][p]), chunks),
                               me[n].fetching_or_fetched)
  IN  /\ pk.chunks # << >> /\ ~peer[n][p].wild
        /\ Receives(n, p, pk, next.get)
        /\ peer' = [peer EXCEPT ![n][p] = next.r]
        /\ me' = [me EXCEPT ![n].fetching_or_fetched = next.fof]
        /\ UNCHANGED <<setup, status, asked, reported, send_buffer, state, file, scan>>

-----------------------------------------------------------------------------
(* Fetching.                                                               *)

\* The rest of data_handler's first branch: no chunk is expected.  The record is
\* not wild: data comes from a peer whose list of chunks came before.
DataIgnored(n, p) ==
  \E pk \in Arriving(n, p, "DATA") :
    LET next == get_next_chunk([peer[n][p] EXCEPT !.ack_timeout_counter = 0],
                               me[n].fetching_or_fetched)
    IN  /\ peer[n][p].get_hash_id = PSUEDO_INF
        /\ Receives(n, p, pk, next.get)
        /\ peer' = [peer EXCEPT ![n][p] = next.r]
        /\ me' = [me EXCEPT ![n].fetching_or_fetched = next.fof]
        /\ UNCHANGED <<setup, status, asked, reported, send_buffer, state, file, scan>>

\* The block is written where the chunk that is expected goes, in the output
\* file of the last command.  The place of an id that was not found is before
\* the start of the file: fseek refuses it, and the block is written at the
\* start.
Store(n, p, pk) ==
  LET id == peer[n][p].get_hash_id
      place == IF id = NotFound THEN <<asked[n], 0, 1>>
               ELSE <<asked[n], id, pk.seq_num>>
  IN  file' = [file EXCEPT ![n][place] = pk.data]

AckOf(r, pk) == find_ack(insert_entry(r.recv_buffer, pk.seq_num))
Inserted(r, pk) ==
  [r EXCEPT !.ack_timeout_counter = 0, !.pending_get = NULL,
            !.recv_buffer = after_find_ack(insert_entry(@, pk.seq_num))]

DataHandler(n, p) ==
  \E pk \in Arriving(n, p, "DATA") :
    LET r == peer[n][p] IN
    /\ r.get_hash_id # PSUEDO_INF
    /\ AckOf(r, pk) # FINALACK
    /\ Receives(n, p, pk, <<ACK(AckOf(r, pk))>>)
    /\ Store(n, p, pk)
    /\ peer' = [peer EXCEPT ![n][p] = Inserted(r, pk)]
    /\ UNCHANGED <<setup, status, asked, reported, me, send_buffer, state, scan>>

post_receive_cleanup(r) ==
  [r EXCEPT !.hehas = IF @ = << >> THEN @ ELSE Tail(@),
            !.chunks_fetched = @ + 1,
            !.get_hash_id = PSUEDO_INF, !.recv_buffer = {}]

\* Mutant: the next WHOHAS after every chunk.
AfterChunkAsks(r, fof) ==
  [r |-> send_next_whohas(r), fof |-> fof, get |-> NextWhohas(r)]

\* After the last packet of a chunk: the next chunk of this peer, or its next
\* WHOHAS when it has none left.
AfterChunk(r, fof) ==
  IF r.chunks_fetched < r.num_chunks THEN get_next_chunk(r, fof)
  ELSE LET done == [r EXCEPT !.num_chunks = 0, !.chunks_fetched = 0,
                             !.hehas = << >>]
       IN  [r |-> send_next_whohas(done), fof |-> fof, get |-> NextWhohas(done)]

\* Mutant: the chunk is counted when it is asked for as well.
CountTwice(n, fof) ==
  LET fetched == me[n].chunks_fetched + 2
      all == me[n].num_chunks <= fetched
  IN  /\ reported' = [reported EXCEPT ![n] = @ \cup (IF all THEN {asked[n]} ELSE {})]
      /\ me' = [me EXCEPT ![n] =
           IF all THEN [@ EXCEPT !.num_chunks = 0, !.chunks_fetched = 0,
                                 !.fetching_or_fetched = {}]
           ELSE [@ EXCEPT !.chunks_fetched = fetched,
                          !.fetching_or_fetched = fof]]

\* One more chunk of the request is there; the download may be complete.
CountChunk(n, fof) ==
  LET fetched == me[n].chunks_fetched + 1
      all == me[n].num_chunks = fetched
  IN  /\ reported' = [reported EXCEPT ![n] = @ \cup (IF all THEN {asked[n]} ELSE {})]
      /\ me' = [me EXCEPT ![n] =
           IF all THEN [@ EXCEPT !.num_chunks = 0, !.chunks_fetched = 0,
                                 !.fetching_or_fetched = {}]
           ELSE [@ EXCEPT !.chunks_fetched = fetched,
                          !.fetching_or_fetched = fof]]

ChunkFetched(n, p) ==
  \E pk \in Arriving(n, p, "DATA") :
    LET r == peer[n][p]
        next == AfterChunk(post_receive_cleanup(Inserted(r, pk)),
                           me[n].fetching_or_fetched)
    IN  /\ r.get_hash_id # PSUEDO_INF
        /\ AckOf(r, pk) = FINALACK
        /\ Receives(n, p, pk, <<ACK(FINALACK)>> \o next.get)
        /\ Store(n, p, pk)
        /\ peer' = [peer EXCEPT ![n][p] = next.r]
        /\ CountChunk(n, next.fof)
        /\ UNCHANGED <<setup, status, asked, send_buffer, state, scan>>

\* Nothing is pending any more, and what was to be asked is forgotten.
Refused(r) ==
  [r EXCEPT !.pending_get = NULL, !.pending_ihave = NULL, !.pending_whohas = FALSE,
            !.whohas_list = IF r.pending_whohas THEN << >> ELSE @]

DeniedHandler(n, p) ==
  /\ Receives(n, p, DENIED, << >>)
  /\ peer' = [peer EXCEPT ![n][p] = Refused(@)]
  /\ UNCHANGED <<setup, status, asked, reported, me, send_buffer, state, file, scan>>

-----------------------------------------------------------------------------
(* Serving.                                                                *)

Numbers(sb) == [i \in DOMAIN sb |-> sb[i].seq_num]

\* destroy_upto_ack on the packets themselves.
Unacked(sb, ack) ==
  SubSeq(sb, Len(sb) - Len(destroy_upto_ack(Numbers(sb), ack)) + 1, Len(sb))

\* The packets one call of send_next_data sends.
NextData(r, cc, seqnum, sb) ==
  IF seqnum > r.last_ack + cc.cwnd THEN << >>
  ELSE LET burst == Burst(seqnum, SendCount(cc.cwnd, seqnum, r.last_ack, Len(sb)))
       IN  [i \in DOMAIN burst |-> DATA(r.send_hash_id, burst[i])]

send_next_data(n, r, cc, seqnum, sb) ==
  LET data == NextData(r, cc, seqnum, sb)
  IN  /\ send_buffer' = [send_buffer EXCEPT ![n] = sb \o data]
      /\ state' = [state EXCEPT ![n] =
                     IF seqnum > r.last_ack + cc.cwnd THEN cc
                     ELSE add_increase([cc EXCEPT !.curr_round = @ + Len(data)])]
LastSeq(n, data) ==
  IF data = << >> THEN me[n].last_seq ELSE data[Len(data)].seq_num

GetDenied(n, p) ==
  \E pk \in Arriving(n, p, "GET") :
    /\ me[n].his_request
    /\ Receives(n, p, pk, <<DENIED>>)
    /\ me' = [me EXCEPT ![n].curr_to = p]
    /\ UNCHANGED <<setup, status, asked, reported, peer, send_buffer, state, file, scan>>

\* Mutant: a request is accepted also while another one is served.
GetAcceptedAlways(n, p) ==
  \E pk \in Arriving(n, p, "GET") :
    LET r == [peer[n][p] EXCEPT !.pending_ihave = NULL, !.his_request = TRUE,
                                !.send_hash_id = pk.hash]
        data == NextData(r, init_congestion_state, 1, send_buffer[n])
    IN  /\ Receives(n, p, pk, data)
        /\ send_next_data(n, r, init_congestion_state, 1, send_buffer[n])
        /\ me' = [me EXCEPT ![n].curr_to = p, ![n].his_request = TRUE,
                            ![n].last_seq = LastSeq(n, data)]
        /\ peer' = [peer EXCEPT ![n][p] = r]
        /\ UNCHANGED <<setup, status, asked, reported, file, scan>>

GetAccepted(n, p) ==
  \E pk \in Arriving(n, p, "GET") :
    LET r == [peer[n][p] EXCEPT !.pending_ihave = NULL, !.his_request = TRUE,
                                !.send_hash_id = pk.hash]
        data == NextData(r, init_congestion_state, 1, send_buffer[n])
    IN  /\ ~me[n].his_request
        /\ Receives(n, p, pk, data)
        /\ send_next_data(n, r, init_congestion_state, 1, send_buffer[n])
        /\ me' = [me EXCEPT ![n].curr_to = p, ![n].his_request = TRUE,
                            ![n].last_seq = LastSeq(n, data)]
        /\ peer' = [peer EXCEPT ![n][p] = r]
        /\ UNCHANGED <<setup, status, asked, reported, file, scan>>

\* The three ways an ack compares with the last one.
CountAck(r, ack) ==
  [r EXCEPT !.num_data_retransmits = 0,
            !.last_ack = Greatest(@, ack),
            !.num_dupacks = IF ack = r.last_ack THEN @ + 1
                            ELSE IF ack < r.last_ack THEN @
                            ELSE 1]

AckIgnored(n, p, ack) ==
  /\ ack > Tail1(send_buffer[n]).seq_num \/ ~peer[n][p].his_request
  /\ Receives(n, p, ACK(ack), << >>)
  /\ peer' = [peer EXCEPT ![n][p].num_data_retransmits = 0]
  /\ UNCHANGED <<me, send_buffer, state>>

AckCounts(n, p, ack) ==
  ack <= Tail1(send_buffer[n]).seq_num /\ peer[n][p].his_request

post_send_cleanup(r) ==
  [r EXCEPT !.last_ack = 0, !.num_dupacks = 0, !.his_request = FALSE,
            !.send_hash_id = PSUEDO_INF]

\* Mutant: the packets of the chunk stay in the window.
FinalAckKeepsWindow(n, p, ack) ==
  LET r == CountAck(peer[n][p], ack)
  IN  /\ AckCounts(n, p, ack)
      /\ me[n].last_seq = FINALACK /\ r.last_ack = FINALACK
      /\ Receives(n, p, ACK(ack), << >>)
      /\ peer' = [peer EXCEPT ![n][p] = post_send_cleanup(r)]
      /\ me' = [me EXCEPT ![n].curr_to = NULL, ![n].his_request = FALSE]
      /\ UNCHANGED <<send_buffer, state>>

\* Mutant: the requester's record is cleaned up, the flag of the service is not.
FinalAckKeepsServing(n, p, ack) ==
  LET r == CountAck(peer[n][p], ack)
  IN  /\ AckCounts(n, p, ack)
      /\ me[n].last_seq = FINALACK /\ r.last_ack = FINALACK
      /\ Receives(n, p, ACK(ack), << >>)
      /\ peer' = [peer EXCEPT ![n][p] = post_send_cleanup(r)]
      /\ me' = [me EXCEPT ![n].curr_to = NULL]
      /\ send_buffer' = [send_buffer EXCEPT ![n] = destroy_entries]
      /\ UNCHANGED state

FinalAck(n, p, ack) ==
  LET r == CountAck(peer[n][p], ack)
  IN  /\ AckCounts(n, p, ack)
      /\ me[n].last_seq = FINALACK /\ r.last_ack = FINALACK
      /\ Receives(n, p, ACK(ack), << >>)
      /\ peer' = [peer EXCEPT ![n][p] = post_send_cleanup(r)]
      /\ me' = [me EXCEPT ![n].curr_to = NULL, ![n].his_request = FALSE]
      /\ send_buffer' = [send_buffer EXCEPT ![n] = destroy_entries]
      /\ UNCHANGED state

TripleDupack(n, p, ack) ==
  LET r == CountAck(peer[n][p], ack)
      rest == Unacked(send_buffer[n], r.last_ack)
  IN  /\ AckCounts(n, p, ack)
      /\ ~(me[n].last_seq = FINALACK /\ r.last_ack = FINALACK)
      /\ r.num_dupacks = 3
      /\ rest # << >>
      /\ Receives(n, p, ACK(ack), <<Head(rest)>>)
      /\ peer' = [peer EXCEPT ![n][p] = [r EXCEPT !.num_dupacks = 1]]
      /\ send_buffer' = [send_buffer EXCEPT ![n] = rest]
      /\ state' = [state EXCEPT ![n] = mult_decrease(@)]
      /\ UNCHANGED me

AckAdvances(n, p, ack) ==
  LET r == CountAck(peer[n][p], ack)
      rest == Unacked(send_buffer[n], r.last_ack)
      cc == slow_start(state[n])
      data == NextData(r, cc, me[n].last_seq + 1, rest)
  IN  /\ AckCounts(n, p, ack)
      /\ ~(me[n].last_seq = FINALACK /\ r.last_ack = FINALACK)
      /\ r.num_dupacks # 3
      /\ Receives(n, p, ACK(ack), data)
      /\ peer' = [peer EXCEPT ![n][p] = r]
      /\ send_next_data(n, r, cc, me[n].last_seq + 1, rest)
      /\ me' = [me EXCEPT ![n].last_seq = LastSeq(n, data)]

AckHandler(n, p) ==
  /\ send_buffer[n] # << >>
  /\ \E pk \in Arriving(n, p, "ACK") :
       \/ AckIgnored(n, p, pk.ack_num)
       \/ FinalAck(n, p, pk.ack_num)
       \/ TripleDupack(n, p, pk.ack_num)
       \/ AckAdvances(n, p, pk.ack_num)
  /\ UNCHANGED <<setup, status, asked, reported, file, scan>>

-----------------------------------------------------------------------------
(* Failures.                                                               *)

\* A read through a null pointer or a wild one ends the process.
Segv(n) ==
  /\ status' = [status EXCEPT ![n] = "segv"]
  /\ link' = [p \in Nodes |-> [q \in OtherNodes(p) |->
                IF q = n THEN << >> ELSE link[p][q]]]
  /\ UNCHANGED <<setup, asked, reported, me, peer, send_buffer, state, file, scan>>

\* ack_handler reads the tail of the window first, and its head to retransmit.
AckWithoutWindow(n, p) ==
  /\ Ready(n)
  /\ \E i \in Deliverable(link[p][n]) :
       /\ link[p][n][i].type = "ACK"
       /\ \/ send_buffer[n] = << >>
          \/ LET ack == link[p][n][i].ack_num
                 r == CountAck(peer[n][p], ack)
             IN  /\ send_buffer[n] # << >> /\ AckCounts(n, p, ack)
                 /\ ~(me[n].last_seq = FINALACK /\ r.last_ack = FINALACK)
                 /\ r.num_dupacks = 3
                 /\ Unacked(send_buffer[n], r.last_ack) = << >>
  /\ Segv(n)

\* ihave_handler hangs the chunks behind those of the list that malloc left.
IhaveFollowsWild(n, p) ==
  /\ Ready(n) /\ peer[n][p].wild
  /\ \E i \in Deliverable(link[p][n]) :
       link[p][n][i].type = "IHAVE" /\ link[p][n][i].chunks # << >>
  /\ Segv(n)

\* peer_total_cleanup frees that list, when the peer that is being sent data is
\* given up
TimeoutFollowsWild(n) ==
  /\ Ready(n) /\ me[n].curr_to # NULL
  /\ peer[n][me[n].curr_to].wild
  /\ peer[n][me[n].curr_to].num_data_retransmits = MAX_DATA_RETRANSMIT
  /\ Segv(n)

\* and when a peer is forgotten.
ScanFollowsWild(n, p) ==
  /\ status[n] = "up" /\ scan[n] # << >> /\ p = Head(scan[n])
  /\ peer[n][p].num_retransmits = MAX_RETRANSMITS /\ peer[n][p].wild
  /\ Segv(n)

Crash(n) ==
  /\ "crash" \in Faults /\ status[n] = "up"
  /\ status' = [status EXCEPT ![n] = "crashed"]
  /\ link' = [p \in Nodes |-> [q \in OtherNodes(p) |->
                IF q = n THEN << >> ELSE link[p][q]]]
  /\ UNCHANGED <<setup, asked, reported, me, peer, send_buffer, state, file, scan>>

Lose(n, p) ==
  /\ "lose" \in Faults
  /\ \E i \in DOMAIN link[n][p] :
       link' = [link EXCEPT ![n][p] = Without(@, i)]
  /\ UNCHANGED <<nodeVars, scan>>

-----------------------------------------------------------------------------
(* Timeouts.  The loop over the records is one step per record: the scan   *)
(* keeps the node from doing anything else until it is through.            *)

\* peer_total_cleanup sets the fields that bt_parse_peer_list leaves.
Cleared == [num_chunks |-> 0, chunks_fetched |-> 0, wild |-> FALSE,
            last_ack |-> 0, num_dupacks |-> 0]

\* Mutant: the GET that is pending is not among what starts again.
CleanupKeepsGet(r) ==
  [NewPeer(Cleared) EXCEPT !.recv_buffer = r.recv_buffer,
                           !.pending_get = r.pending_get]

\* Everything but the receive window starts again.
peer_total_cleanup(r) == [NewPeer(Cleared) EXCEPT !.recv_buffer = r.recv_buffer]

TimeoutIdle(n) ==
  /\ Ready(n) /\ me[n].curr_to = NULL
  /\ scan' = [scan EXCEPT ![n] = Others(n)]
  /\ UNCHANGED <<nodeVars, link>>

\* Mutant: the limit of data retransmissions is not looked at.
ResendUnlimited(n) ==
  /\ Ready(n) /\ me[n].curr_to # NULL
  /\ send_buffer[n] # << >>
  /\ Send(n, me[n].curr_to, <<Head(send_buffer[n])>>)
  /\ peer' = [peer EXCEPT ![n][me[n].curr_to].num_data_retransmits = @ + 1]
  /\ scan' = [scan EXCEPT ![n] = Others(n)]
  /\ UNCHANGED <<setup, status, asked, reported, me, send_buffer, state, file>>

\* The head of the window is sent again; without a head, its sequence number is
\* read through null.
TimeoutResends(n) ==
  /\ Ready(n) /\ me[n].curr_to # NULL
  /\ peer[n][me[n].curr_to].num_data_retransmits # MAX_DATA_RETRANSMIT
  /\ IF send_buffer[n] = << >> THEN Segv(n)
     ELSE /\ Send(n, me[n].curr_to, <<Head(send_buffer[n])>>)
          /\ peer' = [peer EXCEPT ![n][me[n].curr_to].num_data_retransmits = @ + 1]
          /\ scan' = [scan EXCEPT ![n] = Others(n)]
          /\ UNCHANGED <<setup, status, asked, reported, me, send_buffer, state, file>>

TimeoutGivesUp(n) ==
  /\ Ready(n) /\ me[n].curr_to # NULL
  /\ ~peer[n][me[n].curr_to].wild
  /\ peer[n][me[n].curr_to].num_data_retransmits = MAX_DATA_RETRANSMIT
  /\ peer' = [peer EXCEPT ![n][me[n].curr_to] = peer_total_cleanup(@)]
  /\ me' = [me EXCEPT ![n].curr_to = NULL, ![n].his_request = FALSE]
  /\ send_buffer' = [send_buffer EXCEPT ![n] = destroy_entries]
  /\ scan' = [scan EXCEPT ![n] = Others(n)]
  /\ UNCHANGED <<setup, status, asked, reported, state, file, link>>

\* The first of the pending packets that are not data.
Pending(r) ==
  IF r.pending_whohas THEN <<Head(r.whohas_list)>>
  ELSE IF r.pending_ihave # NULL THEN <<r.pending_ihave>>
  ELSE IF r.pending_get # NULL THEN <<r.pending_get>>
  ELSE << >>

\* Too many retransmissions that are not data: the peer is forgotten, and so
\* is whoever is being served.
PeerForgotten(n, p) ==
  /\ status[n] = "up" /\ scan[n] # << >> /\ p = Head(scan[n])
  /\ peer[n][p].num_retransmits = MAX_RETRANSMITS /\ ~peer[n][p].wild
  /\ peer' = [peer EXCEPT ![n][p] = peer_total_cleanup(@)]
  /\ me' = [me EXCEPT ![n].curr_to = NULL, ![n].his_request = FALSE]
  /\ scan' = [scan EXCEPT ![n] = Tail(@)]
  /\ UNCHANGED <<setup, status, asked, reported, send_buffer, state, file, link>>

PeerWaits(n, p) ==
  LET r == peer[n][p] IN
  /\ status[n] = "up" /\ scan[n] # << >> /\ p = Head(scan[n])
  /\ r.num_retransmits # MAX_RETRANSMITS
  /\ r.get_hash_id # PSUEDO_INF => r.ack_timeout_counter # MAX_DATA_RETRANSMIT
  /\ Send(n, p, Pending(r))
  /\ peer' = [peer EXCEPT
       ![n][p].num_retransmits = @ + Len(Pending(r)),
       ![n][p].ack_timeout_counter = IF r.get_hash_id # PSUEDO_INF THEN @ + 1 ELSE @]
  /\ scan' = [scan EXCEPT ![n] = Tail(@)]
  /\ UNCHANGED <<setup, status, asked, reported, me, send_buffer, state, file>>

\* No data from a peer for too long: its chunks are counted as if fetched, and
\* the list of chunks fetched or fetching is emptied for all.
PeerGivenUp(n, p) ==
  LET r == peer[n][p]
      fetched == me[n].chunks_fetched + r.num_chunks - r.chunks_fetched
      all == fetched = me[n].num_chunks
  IN  /\ status[n] = "up" /\ scan[n] # << >> /\ p = Head(scan[n])
      /\ r.num_retransmits # MAX_RETRANSMITS
      /\ r.get_hash_id # PSUEDO_INF
      /\ r.ack_timeout_counter = MAX_DATA_RETRANSMIT
      /\ Send(n, p, Pending(r))
      /\ peer' = [peer EXCEPT ![n][p] = NewPeer(Cleared)]
      /\ me' = [me EXCEPT ![n].num_chunks = IF all THEN 0 ELSE @,
                          ![n].chunks_fetched = IF all THEN 0 ELSE fetched,
                          ![n].fetching_or_fetched = {}]
      /\ scan' = [scan EXCEPT ![n] = Tail(@)]
      /\ UNCHANGED <<setup, status, asked, reported, send_buffer, state, file>>

-----------------------------------------------------------------------------
\* One packet of p, handled by n (packet_handler).
Handle(n, p) ==
  \/ WhohasHandler(n, p) \/ IhaveNothing(n, p) \/ IhaveHandler(n, p)
  \/ IhaveFollowsWild(n, p)
  \/ GetDenied(n, p) \/ GetAccepted(n, p)
  \/ AckHandler(n, p) \/ AckWithoutWindow(n, p)
  \/ DataIgnored(n, p) \/ DataHandler(n, p) \/ ChunkFetched(n, p)
  \/ DeniedHandler(n, p)

Timeout(n) == \/ TimeoutIdle(n) \/ TimeoutResends(n) \/ TimeoutGivesUp(n)
              \/ TimeoutFollowsWild(n)

Scan(n) == \E p \in OtherNodes(n) :
             \/ PeerForgotten(n, p) \/ PeerWaits(n, p) \/ PeerGivenUp(n, p)
             \/ ScanFollowsWild(n, p)

Turn(n) == UserAsks(n) \/ Scan(n) \/ \E p \in OtherNodes(n) : Handle(n, p)

Environment(n) == Crash(n) \/ \E p \in OtherNodes(n) : Lose(n, p)

Next == \E n \in Nodes : Turn(n) \/ Timeout(n) \/ Environment(n)

Spec == Init /\ [][Next]_vars

\* One socket takes the packets of all peers in turn, and select returns after
\* three seconds without one.  Nothing makes a user ask.
Fairness ==
  \A n \in Nodes : /\ WF_vars(Timeout(n) \/ Scan(n))
                   /\ \A p \in OtherNodes(n) : WF_vars(Handle(n, p))

FairSpec == Spec /\ Fairness

-----------------------------------------------------------------------------
(* Properties.                                                             *)

PeerTypeOK(r) ==
  /\ r.num_chunks \in Nat /\ r.chunks_fetched \in Nat
  /\ r.hehas \in Seq([chunkhash : Chunks, chunk_id : Ids \cup {NotFound}])
  /\ r.get_hash_id \in Ids \cup {NotFound, PSUEDO_INF}
  /\ r.send_hash_id \in Chunks \cup {PSUEDO_INF}
  /\ {r.his_request, r.pending_whohas, r.wild} \subseteq BOOLEAN
  /\ r.last_ack \in Nat /\ r.num_dupacks \in Nat
  /\ \A i \in DOMAIN r.whohas_list : r.whohas_list[i].chunks \in Seq(Chunks)
  /\ r.pending_ihave = NULL \/ r.pending_ihave.chunks \in Seq(Chunks)
  /\ r.pending_get = NULL \/ r.pending_get.hash \in Chunks
  /\ r.num_retransmits \in 0..MAX_RETRANSMITS
  /\ r.num_data_retransmits \in 0..MAX_DATA_RETRANSMIT
  /\ r.ack_timeout_counter \in 0..MAX_DATA_RETRANSMIT
  /\ r.recv_buffer \subseteq Blocks

\* The type invariant: the fields of every record keep to the values of their
\* C types, the three counters with a limit never pass it, and every list and
\* every data packet is made of chunks that somebody asked for.
SwarmTypeOK ==
  \A n \in Nodes :
    /\ status[n] \in {"up", "crashed", "segv"}
    /\ me[n].num_chunks \in Nat /\ me[n].chunks_fetched \in Int
    /\ me[n].fetching_or_fetched \subseteq Ids \cup {NotFound}
    /\ me[n].curr_to \in OtherNodes(n) \cup {NULL}
    /\ me[n].last_seq \in 0..FINALACK
    /\ CongestionOK(state[n])
    /\ \A i \in DOMAIN send_buffer[n] : /\ send_buffer[n][i].data \in Chunks
                                        /\ send_buffer[n][i].seq_num \in Blocks
    /\ \A p \in OtherNodes(n) : PeerTypeOK(peer[n][p])
    /\ \A b \in Places : file[n][b] \in Chunks \cup {PSUEDO_INF}

\* A WHOHAS that is pending is the head of the queue: ihave_handler and
\* retransmit_whohas look at the head without asking whether there is one.
WhohasQueued ==
  \A n \in Nodes : \A p \in OtherNodes(n) :
    peer[n][p].pending_whohas => peer[n][p].whohas_list # << >>

\* The flag that makes a peer deny requests and its records agree: it serves
\* exactly one peer, or none.  Two that are served would share one window.
ServesOne ==
  \A n \in Nodes :
    LET served == {p \in OtherNodes(n) : peer[n][p].his_request}
    IN  Cardinality(served) = IF me[n].his_request THEN 1 ELSE 0

\* What the window of a peer holds is data of the chunk it serves, also when a
\* service follows another (post_send_cleanup, get_handler).
WindowOfChunk ==
  \A n \in Nodes : \A p \in OtherNodes(n) :
    peer[n][p].his_request =>
      \A i \in DOMAIN send_buffer[n] :
        send_buffer[n][i].data = peer[n][p].send_hash_id

\* No two peers serve the same chunk to one requester: what one is asked for
\* is on the list of chunks fetched or fetching (get_next_chunk).
FetchedOnce ==
  \A n \in Nodes : \A p, q \in OtherNodes(n) :
    p # q /\ peer[p][n].his_request /\ peer[q][n].his_request
      => peer[p][n].send_hash_id # peer[q][n].send_hash_id

\* Data is written in the place of its chunk in the file of the command that
\* asked for it (data_handler writes where the chunk it expects goes, the
\* packet does not say which it is).
OwnPlace ==
  \A n \in Nodes : \A b \in Places :
    file[n][b] # PSUEDO_INF =>
      /\ b[1] \in DOMAIN setup.requests[n]
      /\ b[2] + 1 \in DOMAIN setup.requests[n][b[1]]
      /\ file[n][b] = setup.requests[n][b[1]][b[2] + 1]

AtRest(n) ==
  /\ ~me[n].his_request
  /\ \A p \in OtherNodes(n) : /\ peer[n][p].get_hash_id = PSUEDO_INF
                              /\ Pending(peer[n][p]) = << >>

\* Every exchange ends: sooner or later no peer serves, waits for a chunk or
\* repeats a packet, though packets are lost and peers crash.
Settles == \A n \in Nodes : <>[](status[n] = "up" => AtRest(n))

\* A user who is alone in asking is told that the download is complete, for
\* every command: there is always a moment to come when nobody waits for it.
Reported ==
  []<>(\A n \in Nodes :
         (\A p \in OtherNodes(n) : setup.requests[p] = << >>)
           => 1..asked[n] \subseteq reported[n])

-----------------------------------------------------------------------------
(* Claims of the sources that the runs refute.                             *)

\* `All chunks have been retrieved, send out the next whohas'
\* (packet_handler.c:525): no WHOHAS stays in the queue for ever.
WhohasSent ==
  \A n \in Nodes : \A p \in OtherNodes(n) :
    peer[n][p].whohas_list # << >> ~> peer[n][p].whohas_list = << >>

\* `If this peer is already serving a request, deny the new get request'
\* (packet_handler.c:419): no two peers are served at a time.
DeniesNew ==
  \A n \in Nodes : \A p, q \in OtherNodes(n) :
    peer[n][p].his_request /\ peer[n][q].his_request => p = q
=============================================================================
