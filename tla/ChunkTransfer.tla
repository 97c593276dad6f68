--------------------------- MODULE ChunkTransfer ----------------------------
(***************************************************************************)
(* The transfer of one chunk between two peers: from the GET the receiver  *)
(* has just sent (get_next_chunk) to the last ACK, to a DENIED, or to the  *)
(* moment one side gives up on the other.                                  *)
(*                                                                         *)
(* The sender runs get_handler, ack_handler and the data branch of the     *)
(* timeout in peer_run; the receiver runs data_handler, denied_handler and *)
(* the other branch of the timeout.  The chunk is the last one of the      *)
(* receiver's list, so data_handler completes the download with it; the    *)
(* WHOHAS/IHAVE exchange is over and neither side has one pending.         *)
(*                                                                         *)
(* A data packet is its sequence number in 1..FINALACK.  me->his_request   *)
(* and peer->his_request are set and reset together when only one peer     *)
(* asks, and are one Boolean here.                                         *)
(***************************************************************************)
EXTENDS SendWindow, Hub

CONSTANTS MAX_RETRANSMITS,       \* 5: retransmissions of a non-data packet
          MAX_DATA_RETRANSMIT,   \* 10: of a data packet
          SenderResidue,         \* what num_retransmits may hold at the
          ReceiverResidue        \* start: nothing resets it on success

ASSUME TransferAssumption ==
  /\ FINALACK \in Nat \ {0}
  /\ MAX_RETRANSMITS \in Nat \ {0}
  /\ MAX_DATA_RETRANSMIT \in Nat \ {0}
  /\ SenderResidue \in (SUBSET (0..MAX_RETRANSMITS)) \ {{}}
  /\ ReceiverResidue \in (SUBSET (0..MAX_RETRANSMITS)) \ {{}}

Whole == 1..FINALACK   \* the blocks of the chunk

GET == [type |-> "GET", num |-> 0]
DENIED == [type |-> "DENIED", num |-> 0]
ACK(n) == [type |-> "ACK", num |-> n]
DATA(n) == [type |-> "DATA", num |-> n]

ToSenderPackets == {GET} \cup {ACK(n) : n \in Whole}
ToReceiverPackets == {DENIED} \cup {DATA(n) : n \in Whole}

VARIABLES
  \* the sender: its globals, and its record of the receiver
  sender,                \* "up", "crashed" or "segv" (a null dereference)
  send_buffer,           \* sequence numbers, head first
  state,                 \* congestion_state_t
  his_request,           \* a GET is being served
  curr_to,               \* me->curr_to is the receiver
  last_ack, num_dupacks, last_seq, num_data_retransmits,
  sender_retransmits,    \* num_retransmits of the receiver's record
  \* the receiver: its record of the sender
  receiver,              \* "up" or "crashed"
  recv_buffer,           \* the set of sequence numbers on the list
  written,               \* the blocks of the chunk written to the file
  fetching,              \* get_hash_id # PSUEDO_INF
  pending_get, num_retransmits, ack_timeout_counter,
  complete,              \* the download was reported complete
  \* the two directions of the link
  toSender, toReceiver

senderVars == <<sender, send_buffer, state, his_request, curr_to, last_ack,
                num_dupacks, last_seq, num_data_retransmits,
                sender_retransmits>>
receiverVars == <<receiver, recv_buffer, written, fetching, pending_get,
                  num_retransmits, ack_timeout_counter, complete>>
vars == <<senderVars, receiverVars, toSender, toReceiver>>

-----------------------------------------------------------------------------
Init ==
  /\ sender = "up" /\ receiver = "up"
  /\ send_buffer = destroy_entries
  /\ state = init_congestion_state
  /\ his_request = FALSE /\ curr_to = FALSE
  /\ last_ack = 0 /\ num_dupacks = 0 /\ last_seq = 0
  /\ num_data_retransmits = 0
  /\ sender_retransmits \in SenderResidue
  /\ recv_buffer = {} /\ written = {}
  /\ fetching = TRUE /\ pending_get = TRUE /\ complete = FALSE
  /\ num_retransmits \in ReceiverResidue
  /\ ack_timeout_counter = 0
  /\ toSender = <<GET>> /\ toReceiver = << >>

-----------------------------------------------------------------------------
(* The sender.                                                             *)

DataBurst(seqnum, n) == [i \in 1..n |-> DATA(seqnum + i - 1)]

\* Mutant: a whole window goes out after every ack, whatever is under way.
SendRegardless(cc, seqnum, ack, sb) ==
  LET n == Least(cc.cwnd, FINALACK + 1 - seqnum)
  IN  /\ send_buffer' = sb \o Burst(seqnum, n)
      /\ last_seq' = IF n = 0 THEN last_seq ELSE seqnum + n - 1
      /\ state' = add_increase([cc EXCEPT !.curr_round = @ + n])
      /\ toReceiver' = Transmit(toReceiver, receiver, DataBurst(seqnum, n))

send_next_data(cc, seqnum, ack, sb) ==
  IF seqnum > ack + cc.cwnd
    THEN /\ send_buffer' = sb
         /\ state' = cc
         /\ UNCHANGED <<last_seq, toReceiver>>
    ELSE LET n == SendCount(cc.cwnd, seqnum, ack, Len(sb))
         IN  /\ send_buffer' = sb \o Burst(seqnum, n)
             /\ last_seq' = IF n = 0 THEN last_seq ELSE seqnum + n - 1
             /\ state' = add_increase([cc EXCEPT !.curr_round = @ + n])
             /\ toReceiver' =
                  Transmit(toReceiver, receiver, DataBurst(seqnum, n))

\* Mutant: the retransmission is counted and not made.
RetransmitNothing(sb) == toReceiver' = toReceiver

\* The packet at the head of the send window goes out again.
retransmit_data(sb) ==
  toReceiver' = Transmit(toReceiver, receiver, <<DATA(Head1(sb))>>)

\* A read through the null head or tail of an empty send window.
SenderFaults ==
  /\ sender' = "segv"
  /\ toSender' = << >>
  /\ UNCHANGED <<send_buffer, state, his_request, curr_to, last_ack,
                 num_dupacks, last_seq, num_data_retransmits,
                 sender_retransmits, receiverVars, toReceiver>>

SenderReceives(i) ==
  /\ sender = "up"
  /\ i \in Deliverable(toSender)
  /\ toSender' \in AfterDelivery(toSender, i)

\* A GET while one is being served is denied, whoever sent it.
GetDenied ==
  /\ \E i \in DOMAIN toSender : SenderReceives(i) /\ toSender[i] = GET
  /\ his_request
  /\ curr_to' = TRUE
  /\ toReceiver' = Transmit(toReceiver, receiver, <<DENIED>>)
  /\ UNCHANGED <<sender, send_buffer, state, his_request, last_ack,
                 num_dupacks, last_seq, num_data_retransmits,
                 sender_retransmits, receiverVars>>

GetAccepted ==
  /\ \E i \in DOMAIN toSender : SenderReceives(i) /\ toSender[i] = GET
  /\ ~his_request
  /\ curr_to' = TRUE
  /\ his_request' = TRUE
  /\ send_next_data(init_congestion_state, 1, last_ack, send_buffer)
  /\ UNCHANGED <<sender, last_ack, num_dupacks, num_data_retransmits,
                 sender_retransmits, receiverVars>>

\* Mutant: the counter of duplicate acks survives an ack that is new.
AckNewKeepsDupacks(ack) ==
  /\ last_ack' = Greatest(last_ack, ack)
  /\ num_dupacks' = IF ack = last_ack THEN num_dupacks + 1 ELSE num_dupacks

\* Mutant: an ack below the last one is taken for a new one.
CountLateAck(ack) ==
  /\ last_ack' = ack
  /\ num_dupacks' = IF ack = last_ack THEN num_dupacks + 1 ELSE 1

\* The three ways an ack compares with the last one.
CountAck(ack) ==
  /\ last_ack' = Greatest(last_ack, ack)
  /\ num_dupacks' = IF ack = last_ack THEN num_dupacks + 1
                    ELSE IF ack < last_ack THEN num_dupacks
                    ELSE 1

\* Mutant: the last ack survives the end of the request.
CleanupKeepsLastAck ==
  /\ last_ack' = last_ack /\ num_dupacks' = 0
  /\ his_request' = FALSE
  /\ send_buffer' = destroy_entries

\* Mutant: the request stays, as if only the peer's record of it were reset.
CleanupKeepsRequest ==
  /\ last_ack' = 0 /\ num_dupacks' = 0
  /\ his_request' = his_request
  /\ send_buffer' = destroy_entries

post_send_cleanup ==
  /\ last_ack' = 0 /\ num_dupacks' = 0
  /\ his_request' = FALSE
  /\ send_buffer' = destroy_entries

\* An ack past the last packet sent, or one for a request that is over, only
\* resets the timeout counter.
AckIgnored(ack) ==
  /\ ack > Tail1(send_buffer) \/ ~his_request
  /\ UNCHANGED <<send_buffer, state, his_request, curr_to, last_ack,
                 num_dupacks, last_seq, toReceiver>>

\* Mutant: the transfer ends with the first ack after the last packet is sent.
FinishWhenSent(ack) ==
  /\ ack <= Tail1(send_buffer) /\ his_request
  /\ last_seq = FINALACK
  /\ curr_to' = FALSE
  /\ post_send_cleanup
  /\ UNCHANGED <<state, last_seq, toReceiver>>

\* Mutant: the receiver stays the target of the data timeout.
FinishKeepsTarget(ack) ==
  /\ ack <= Tail1(send_buffer) /\ his_request
  /\ last_seq = FINALACK /\ Greatest(last_ack, ack) = FINALACK
  /\ post_send_cleanup
  /\ UNCHANGED <<curr_to, state, last_seq, toReceiver>>

FinalAck(ack) ==
  /\ ack <= Tail1(send_buffer) /\ his_request
  /\ last_seq = FINALACK /\ Greatest(last_ack, ack) = FINALACK
  /\ curr_to' = FALSE
  /\ post_send_cleanup
  /\ UNCHANGED <<state, last_seq, toReceiver>>

TripleDupack(ack) ==
  LET rest == destroy_upto_ack(send_buffer, last_ack)
  IN  /\ ack <= Tail1(send_buffer) /\ his_request
      /\ ~(last_seq = FINALACK /\ last_ack = FINALACK)
      /\ ack = last_ack /\ num_dupacks + 1 = 3
      /\ num_dupacks' = 1
      /\ send_buffer' = rest
      /\ state' = mult_decrease(state)
      /\ retransmit_data(rest)
      /\ UNCHANGED <<his_request, curr_to, last_ack, last_seq>>

AckAdvances(ack) ==
  LET acked == Greatest(last_ack, ack)
  IN  /\ ack <= Tail1(send_buffer) /\ his_request
      /\ ~(last_seq = FINALACK /\ acked = FINALACK)
      /\ ~(ack = last_ack /\ num_dupacks + 1 = 3)
      /\ CountAck(ack)
      /\ send_next_data(slow_start(state), last_seq + 1, acked,
                        destroy_upto_ack(send_buffer, acked))
      /\ UNCHANGED <<his_request, curr_to>>

\* ack_handler reads the tail of the send window before anything else.
AckHandler ==
  /\ send_buffer # << >>
  /\ \E i \in DOMAIN toSender :
       /\ SenderReceives(i) /\ toSender[i].type = "ACK"
       /\ LET ack == toSender[i].num
          IN  \/ AckIgnored(ack)
              \/ FinalAck(ack)
              \/ TripleDupack(ack)
              \/ AckAdvances(ack)
  /\ num_data_retransmits' = 0
  /\ UNCHANGED <<sender, sender_retransmits, receiverVars>>

AckWithoutWindow ==
  /\ sender = "up" /\ send_buffer = << >>
  /\ \E i \in Deliverable(toSender) : toSender[i].type = "ACK"
  /\ SenderFaults

\* peer_total_cleanup of the receiver's record, at the sender.
forget_receiver ==
  /\ last_ack' = 0 /\ num_dupacks' = 0
  /\ his_request' = FALSE /\ curr_to' = FALSE
  /\ sender_retransmits' = 0 /\ num_data_retransmits' = 0

\* Mutant: a retransmission of data is not counted.
UncountedTimeout ==
  /\ sender = "up" /\ curr_to
  /\ num_data_retransmits < MAX_DATA_RETRANSMIT
  /\ send_buffer # << >>
  /\ retransmit_data(send_buffer)
  /\ UNCHANGED <<senderVars, receiverVars, toSender>>

\* Mutant: the limit is looked at when it has been passed.
UnlimitedTimeout ==
  /\ sender = "up" /\ curr_to
  /\ send_buffer # << >>
  /\ retransmit_data(send_buffer)
  /\ num_data_retransmits' = num_data_retransmits + 1
  /\ UNCHANGED <<sender, send_buffer, state, his_request, curr_to,
                 last_ack, num_dupacks, last_seq, sender_retransmits,
                 receiverVars, toSender>>

\* The timeout of the sender: the head of the window is sent again ...
SenderTimeout ==
  /\ sender = "up" /\ curr_to
  /\ num_data_retransmits < MAX_DATA_RETRANSMIT
  /\ sender_retransmits # MAX_RETRANSMITS \/ send_buffer = << >>
  /\ IF send_buffer = << >> THEN SenderFaults
     ELSE /\ retransmit_data(send_buffer)
          /\ num_data_retransmits' = num_data_retransmits + 1
          /\ UNCHANGED <<sender, send_buffer, state, his_request, curr_to,
                         last_ack, num_dupacks, last_seq, sender_retransmits,
                         receiverVars, toSender>>

\* ... until MAX_DATA_RETRANSMIT times in a row were not enough.
SenderGivesUp ==
  /\ sender = "up" /\ curr_to
  /\ num_data_retransmits = MAX_DATA_RETRANSMIT
  /\ forget_receiver
  /\ send_buffer' = destroy_entries
  /\ UNCHANGED <<sender, state, last_seq, receiverVars, toSender, toReceiver>>

\* The count of non-data retransmissions is tested at every timeout, whatever
\* is pending.  Serving stops, the send window stays as it is.
SenderForgets ==
  /\ sender = "up"
  /\ sender_retransmits = MAX_RETRANSMITS
  /\ ~(curr_to /\ num_data_retransmits = MAX_DATA_RETRANSMIT)
  /\ curr_to => send_buffer # << >>
  /\ IF curr_to THEN retransmit_data(send_buffer) ELSE UNCHANGED toReceiver
  /\ forget_receiver
  /\ UNCHANGED <<sender, send_buffer, state, last_seq, receiverVars, toSender>>

-----------------------------------------------------------------------------
(* The receiver.                                                           *)

ReceiverReceives(i) ==
  /\ receiver = "up"
  /\ i \in Deliverable(toReceiver)
  /\ toReceiver' \in AfterDelivery(toReceiver, i)

\* Mutant: the buffer is emptied when an ack has been sent.
StoreAndEmpty(seq) ==
  LET rb == insert_entry(recv_buffer, seq)
  IN  /\ written' = written \cup {seq}
      /\ recv_buffer' = {}
      /\ toSender' = Transmit(toSender, sender, <<ACK(find_ack(rb))>>)

\* The block is written, the packet joins the receive window, and the end of
\* the run at the head of the window is acknowledged.
StoreAndAck(seq) ==
  LET rb == insert_entry(recv_buffer, seq)
  IN  /\ written' = written \cup {seq}
      /\ recv_buffer' = IF find_ack(rb) = FINALACK THEN {}
                        ELSE after_find_ack(rb)
      /\ toSender' = Transmit(toSender, sender, <<ACK(find_ack(rb))>>)

\* post_receive_cleanup, and the end of the download with its last chunk.
CompleteWith(seq) ==
  LET final == find_ack(insert_entry(recv_buffer, seq)) = FINALACK
  IN  /\ fetching' = ~final
      /\ complete' = (complete \/ final)

DataHandler ==
  /\ \E i \in DOMAIN toReceiver :
       /\ ReceiverReceives(i) /\ toReceiver[i].type = "DATA"
       /\ IF fetching
            THEN /\ StoreAndAck(toReceiver[i].num)
                 /\ CompleteWith(toReceiver[i].num)
                 /\ pending_get' = FALSE
            ELSE UNCHANGED <<written, recv_buffer, toSender, fetching,
                             complete, pending_get>>
  /\ ack_timeout_counter' = 0
  /\ UNCHANGED <<receiver, num_retransmits, senderVars>>

DeniedHandler ==
  /\ \E i \in DOMAIN toReceiver :
       ReceiverReceives(i) /\ toReceiver[i] = DENIED
  /\ pending_get' = FALSE
  /\ UNCHANGED <<receiver, recv_buffer, written, fetching, num_retransmits,
                 ack_timeout_counter, complete, senderVars, toSender>>

\* peer_total_cleanup of the sender's record, at the receiver.
forget_sender ==
  /\ fetching' = FALSE /\ pending_get' = FALSE
  /\ num_retransmits' = 0 /\ ack_timeout_counter' = 0

\* Mutant: timeouts count only while the GET is unanswered.
TimeoutCountsGets ==
  /\ receiver = "up" /\ fetching
  /\ num_retransmits # MAX_RETRANSMITS
  /\ ack_timeout_counter < MAX_DATA_RETRANSMIT
  /\ toSender' = IF pending_get THEN Transmit(toSender, sender, <<GET>>)
                 ELSE toSender
  /\ num_retransmits' = IF pending_get THEN num_retransmits + 1
                        ELSE num_retransmits
  /\ ack_timeout_counter' = IF pending_get THEN ack_timeout_counter + 1
                            ELSE ack_timeout_counter
  /\ UNCHANGED <<receiver, recv_buffer, written, fetching, pending_get,
                 complete, senderVars, toReceiver>>

\* The timeout of the receiver: the GET goes out again as long as nothing
\* answered it, and the timeouts without a data packet are counted.
ReceiverTimeout ==
  /\ receiver = "up" /\ fetching
  /\ num_retransmits # MAX_RETRANSMITS
  /\ ack_timeout_counter < MAX_DATA_RETRANSMIT
  /\ toSender' = IF pending_get THEN Transmit(toSender, sender, <<GET>>)
                 ELSE toSender
  /\ num_retransmits' = IF pending_get THEN num_retransmits + 1
                        ELSE num_retransmits
  /\ ack_timeout_counter' = ack_timeout_counter + 1
  /\ UNCHANGED <<receiver, recv_buffer, written, fetching, pending_get,
                 complete, senderVars, toReceiver>>

\* Too many timeouts without a data packet.
ReceiverGivesUp ==
  /\ receiver = "up" /\ fetching
  /\ num_retransmits # MAX_RETRANSMITS
  /\ ack_timeout_counter = MAX_DATA_RETRANSMIT
  /\ toSender' = IF pending_get THEN Transmit(toSender, sender, <<GET>>)
                 ELSE toSender
  /\ forget_sender
  /\ recv_buffer' = {}
  /\ UNCHANGED <<receiver, written, complete, senderVars, toReceiver>>

\* Too many non-data retransmissions, of this GET or of earlier packets: here
\* too the count is tested whatever is pending, and the window stays.
ReceiverForgets ==
  /\ receiver = "up"
  /\ num_retransmits = MAX_RETRANSMITS
  /\ forget_sender
  /\ UNCHANGED <<receiver, recv_buffer, written, complete, senderVars,
                 toSender, toReceiver>>

-----------------------------------------------------------------------------
(* The network and the hosts.                                              *)

Lose ==
  /\ "lose" \in Faults
  /\ \/ /\ \E i \in DOMAIN toSender : toSender' = Without(toSender, i)
        /\ UNCHANGED toReceiver
     \/ /\ \E i \in DOMAIN toReceiver : toReceiver' = Without(toReceiver, i)
        /\ UNCHANGED toSender
  /\ UNCHANGED <<senderVars, receiverVars>>

\* A peer keeps nothing on disk but the file, so one that is started again is
\* another peer: a crash is for good here.
SenderCrash ==
  /\ "crash" \in Faults /\ sender = "up"
  /\ sender' = "crashed" /\ toSender' = << >>
  /\ UNCHANGED <<send_buffer, state, his_request, curr_to, last_ack,
                 num_dupacks, last_seq, num_data_retransmits,
                 sender_retransmits, receiverVars, toReceiver>>

ReceiverCrash ==
  /\ "crash" \in Faults /\ receiver = "up"
  /\ receiver' = "crashed" /\ toReceiver' = << >>
  /\ UNCHANGED <<senderVars, recv_buffer, written, fetching, pending_get,
                 num_retransmits, ack_timeout_counter, complete, toSender>>

Handle == \/ GetAccepted \/ GetDenied \/ AckHandler \/ AckWithoutWindow
          \/ DataHandler \/ DeniedHandler

SenderTimers == SenderTimeout \/ SenderGivesUp \/ SenderForgets
ReceiverTimers == ReceiverTimeout \/ ReceiverGivesUp \/ ReceiverForgets

Next == \/ Handle \/ SenderTimers \/ ReceiverTimers
        \/ Lose \/ SenderCrash \/ ReceiverCrash

Spec == Init /\ [][Next]_vars

-----------------------------------------------------------------------------
(* Properties.                                                             *)

SenderTypeOK ==
  /\ sender \in {"up", "crashed", "segv"}
  /\ send_buffer \in Seq(Whole)
  /\ state \in CongestionStates
  /\ his_request \in BOOLEAN /\ curr_to \in BOOLEAN
  /\ last_ack \in 0..FINALACK /\ last_seq \in 0..FINALACK
  /\ num_dupacks \in 0..2
  /\ num_data_retransmits \in 0..MAX_DATA_RETRANSMIT
  /\ sender_retransmits \in 0..MAX_RETRANSMITS

ReceiverTypeOK ==
  /\ receiver \in {"up", "crashed"}
  /\ recv_buffer \in SUBSET Whole /\ written \in SUBSET Whole
  /\ fetching \in BOOLEAN /\ pending_get \in BOOLEAN /\ complete \in BOOLEAN
  /\ num_retransmits \in 0..MAX_RETRANSMITS
  /\ ack_timeout_counter \in 0..MAX_DATA_RETRANSMIT

\* The type invariant: every variable of the two peers and of the link keeps
\* to the values the C declarations and the packet formats give it, and the
\* three counters with a limit never pass it.
TypeOK ==
  /\ SenderTypeOK /\ ReceiverTypeOK
  /\ toSender \in Seq(ToSenderPackets)
  /\ toReceiver \in Seq(ToReceiverPackets)

\* Cumulative acknowledgement (find_ack, ack_handler): an ack on its way to
\* the sender, and the last ack the sender counts, cover only blocks that are
\* in the receiver's file.  Broken, a lost block would never be sent again.
AckSound ==
  /\ \A i \in DOMAIN toSender : 1..toSender[i].num \subseteq written
  /\ 1..last_ack \subseteq written

\* A download reported complete (data_handler, "DOWNLAOD COMPLETE") left no
\* hole in the file, whatever was lost, repeated or out of order on the way.
CompleteIsWhole == complete => written = Whole

\* The head of a receive window in use is the end of the blocks written
\* without a gap: the next ack is neither too small nor too large.
AckIsLargest ==
  fetching => \A h \in recv_buffer : IsHead(recv_buffer, h) =>
                1..h \subseteq written /\ h + 1 \notin written

\* While a request is served the send window holds exactly the packets sent
\* and not acknowledged, in order, and at least one, so that a timeout has
\* something to send again; when none is served it is empty.
WindowIsExact ==
  IF his_request
    THEN last_ack < last_seq /\ send_buffer = Burst(last_ack + 1,
                                                    last_seq - last_ack)
    ELSE send_buffer = << >> /\ last_ack = 0

\* No more than the largest congestion window is ever unacknowledged, even
\* after the window shrank below what had been sent.
WindowBounded == Len(send_buffer) <= MAXWIN

\* The congestion window stays open and bounded through every mixture of
\* acks, triple duplicate acks and new requests (CongestionAvoidance).
CongestionControlOK == CongestionOK(state)

\* The sender never reads through the head or tail of an empty send window
\* (ack_handler, retransmit_data).
NoSegv == sender # "segv"

\* A request that ends because of an ack (post_send_cleanup) ends with the
\* whole chunk in the receiver's file and the download over there.
FinishedIsStored ==
  [][his_request /\ ~his_request' /\ toSender' # toSender /\ sender' = sender
       => written = Whole /\ ~fetching]_vars

\* While one request is served, what the sender takes as acknowledged never
\* shrinks: an old ack that comes late does not undo a newer one.
AcksNeverUndone ==
  [][his_request /\ his_request' => last_ack' >= last_ack]_vars

\* A sender does not serve one receiver for ever: the chunk is acknowledged or
\* the sender gives up, though packets are lost and the receiver may be gone.
ServingEnds == his_request ~> (~his_request \/ sender # "up")

\* A receiver does not wait for a chunk for ever: it has it, or it gives up,
\* though the GET may be denied or lost and the sender may be gone.
FetchingEnds == fetching ~> (~fetching \/ receiver # "up")

\* While a request is served, also after the sender forgot an earlier one and
\* left its packets in the window, some packet that is not acknowledged is
\* there to be sent again: a timeout never looks into an empty window.
SomethingToResend ==
  /\ curr_to = his_request
  /\ his_request => \E k \in DOMAIN send_buffer : send_buffer[k] > last_ack

\* The transfer implements the abstract delivery of a chunk: every step of the
\* two peers and of the network is one of its steps or changes nothing it sees.
Delivery == INSTANCE ReliableDelivery WITH
              LastBlock <- FINALACK, have <- written, confirmed <- last_ack,
              serving <- his_request

ImplementsDelivery == Delivery!Spec

-----------------------------------------------------------------------------
(* The inductive invariant of ChunkTransferProofs.                         *)

\* Until the receiver has its first block, block 1 is all that was ever sent:
\* the first window holds one packet and only an ack opens it.  This is why
\* find_ack may start at whatever entry the list starts with.
FirstBlockFirst ==
  fetching /\ recv_buffer = {} =>
    /\ written = {}
    /\ send_buffer \in Seq({1})
    /\ toReceiver \in Seq({DENIED, DATA(1)})

\* The receive window and the file agree: the blocks up to the head, which is
\* not the last, are written, the one after it is not, and past it the window
\* has what the file has.
WindowMatchesFile ==
  fetching => \A h \in recv_buffer : IsHead(recv_buffer, h) =>
                /\ h # FINALACK
                /\ 1..h \subseteq written /\ h + 1 \notin recv_buffer
                /\ recv_buffer \subseteq written
                /\ written \subseteq (1..h) \cup recv_buffer

IdleLastAck == ~his_request => last_ack = 0

TailIsLastSent == send_buffer # << >> => Tail1(send_buffer) = last_seq

IInv == /\ TypeOK /\ CongestionControlOK
        /\ AckSound /\ CompleteIsWhole
        /\ FirstBlockFirst /\ WindowMatchesFile
        /\ IdleLastAck /\ SomethingToResend /\ TailIsLastSent
=============================================================================
