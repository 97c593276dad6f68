------------------------ MODULE ChunkTransferProofs -------------------------
(***************************************************************************)
(* Invariance proofs for ChunkTransfer, for every chunk length, window,    *)
(* retransmission limit, queue length and set of network faults.           *)
(*                                                                         *)
(* IInv is inductive.  The step that needs the argument is the first data  *)
(* packet: find_ack starts at the head of the list whatever it is, so the  *)
(* acks are sound only because nothing but block 1 can be under way while  *)
(* the receive window is empty (FirstBlockFirst).                          *)
(***************************************************************************)
EXTENDS ChunkTransfer, OperatorProofs

-----------------------------------------------------------------------------
(* send_next_data.                                                         *)

\* Every window of DATA packets (send_data, retransmit_data) consists of well-typed packets.
LEMMA DataBurstType ==
  ASSUME NEW seqnum \in Nat \ {0}, NEW n \in Nat, NEW S,
         \A i \in 1..n : DATA(seqnum + i - 1) \in S
  PROVE  DataBurst(seqnum, n) \in Seq(S)
BY DEF DataBurst

\* The call send_next_data(cc, seqnum, ack, sb) sends n packets.
Sends(cc, seqnum, ack, sb, n) ==
  /\ send_buffer' = sb \o Burst(seqnum, n)
  /\ last_seq' = IF n = 0 THEN last_seq ELSE seqnum + n - 1
  /\ state' \in CongestionStates /\ CongestionOK(state')
  /\ n > 0 => /\ seqnum + n - 1 <= FINALACK
              /\ seqnum + n - 1 <= ack + cc.cwnd
  /\ n = 0 => \/ seqnum > FINALACK \/ seqnum > ack + cc.cwnd
              \/ Len(sb) = cc.cwnd
  /\ \A S : /\ toReceiver \in Seq(S)
            /\ \A i \in 1..n : DATA(seqnum + i - 1) \in S
            => toReceiver' \in Seq(S)

\* One call of send_next_data, whatever the buffer it finds: it appends the
\* next n packets to the buffer and puts them on the link.
LEMMA SendNextDataFact ==
  ASSUME NEW cc \in CongestionStates, CongestionOK(cc),
         NEW seqnum \in 1..(FINALACK + 1), NEW ack \in 0..FINALACK,
         NEW sb \in Seq(Whole),
         send_next_data(cc, seqnum, ack, sb)
  PROVE  \E n \in 0..FINALACK : Sends(cc, seqnum, ack, sb, n)
<1>0. /\ FINALACK \in Nat /\ cc.cwnd \in Nat /\ Len(sb) \in Nat
      /\ seqnum \in Nat \ {0} /\ ack \in Nat
  BY TransferAssumption DEF CongestionStates
<1>1. CASE seqnum > ack + cc.cwnd
  <2>1. Burst(seqnum, 0) = << >>
    BY DEF Burst
  <2>2. sb \o Burst(seqnum, 0) = sb
    BY <2>1, ConcatEmptySeq
  <2>3. send_buffer' = sb /\ state' = cc /\ UNCHANGED <<last_seq, toReceiver>>
    BY <1>1 DEF send_next_data
  <2> QED BY <1>0, <1>1, <2>2, <2>3 DEF Sends
<1>2. CASE ~(seqnum > ack + cc.cwnd)
  <2>0. PICK n : n = SendCount(cc.cwnd, seqnum, ack, Len(sb))
    OBVIOUS
  <2>1. /\ n \in 0..FINALACK
        /\ n > 0 => /\ seqnum + n - 1 <= FINALACK
                    /\ seqnum + n - 1 <= ack + cc.cwnd
        /\ n = 0 => \/ seqnum > FINALACK \/ seqnum > ack + cc.cwnd
                    \/ Len(sb) = cc.cwnd
    BY <1>0, <2>0, SendCountFact, Zenon
  <2>2. /\ send_buffer' = sb \o Burst(seqnum, n)
        /\ last_seq' = IF n = 0 THEN last_seq ELSE seqnum + n - 1
        /\ state' = add_increase([cc EXCEPT !.curr_round = @ + n])
        /\ toReceiver' = Transmit(toReceiver, receiver, DataBurst(seqnum, n))
    BY <1>2, <2>0 DEF send_next_data
  <2>3. state' \in CongestionStates /\ CongestionOK(state')
    BY <2>1, <2>2, AddIncreaseOK
  <2>4. ASSUME NEW S, toReceiver \in Seq(S),
               \A i \in 1..n : DATA(seqnum + i - 1) \in S
        PROVE  toReceiver' \in Seq(S)
    <3>1. DataBurst(seqnum, n) \in Seq(S)
      <4>1. n \in Nat
        BY <1>0, <2>1
      <4> QED BY <1>0, <4>1, <2>4, DataBurstType, Zenon
    <3> QED BY <2>2, <2>4, <3>1, TransmitType
  <2> QED BY <2>1, <2>2, <2>3, <2>4 DEF Sends
<1> QED BY <1>1, <1>2

\* sb2 is the send window sb with the n packets from seqnum appended.
Appended(sb, seqnum, n, sb2) ==
  /\ sb2 \in Seq(Whole)
  /\ Len(sb2) = Len(sb) + n
  /\ n = 0 => sb2 = sb
  /\ n > 0 => Tail1(sb2) = seqnum + n - 1

\* The send window after packets were appended to it.
LEMMA AppendFact ==
  ASSUME NEW sb \in Seq(Whole), NEW seqnum \in Nat \ {0}, NEW n \in Nat,
         n > 0 => seqnum + n - 1 <= FINALACK,
         NEW sb2, sb2 = sb \o Burst(seqnum, n)
  PROVE  Appended(sb, seqnum, n, sb2)
<1>0. FINALACK \in Nat /\ Len(sb) \in Nat
  BY TransferAssumption
<1>1. \A i \in 1..n : seqnum + i - 1 \in Whole
  BY <1>0 DEF Whole
<1>2. /\ Burst(seqnum, n) \in Seq(Whole)
      /\ Len(Burst(seqnum, n)) = n
      /\ \A i \in 1..n : Burst(seqnum, n)[i] = seqnum + i - 1
  BY <1>1, BurstType
<1>3. /\ sb2 \in Seq(Whole) /\ Len(sb2) = Len(sb) + n
      /\ \A k \in 1..(Len(sb) + n) :
           sb2[k] = IF k <= Len(sb) THEN sb[k]
                    ELSE Burst(seqnum, n)[k - Len(sb)]
  <2> DEFINE new == Burst(seqnum, n)
  <2>1. new \in Seq(Whole) /\ Len(new) = n
    BY <1>2
  <2> HIDE DEF new
  <2>2. /\ sb \o new \in Seq(Whole) /\ Len(sb \o new) = Len(sb) + Len(new)
        /\ \A k \in 1..(Len(sb) + Len(new)) :
             (sb \o new)[k] = IF k <= Len(sb) THEN sb[k] ELSE new[k - Len(sb)]
    BY <2>1, ConcatProperties
  <2>3. sb2 = sb \o new
    BY DEF new
  <2> QED BY <2>1, <2>2, <2>3 DEF new
<1>4. n = 0 => Burst(seqnum, n) = << >>
  BY DEF Burst
<1>5. n = 0 => sb2 = sb
  BY <1>4, ConcatEmptySeq
<1>6. ASSUME n > 0 PROVE Tail1(sb2) = seqnum + n - 1
  BY <1>0, <1>2, <1>3, <1>6 DEF Tail1
<1> QED BY <1>3, <1>5, <1>6 DEF Appended

-----------------------------------------------------------------------------
(* The acks on the link.                                                   *)

\* GET, and the acks for a prefix of the blocks W.
AckedPackets(W) == {GET} \cup {ACK(n) : n \in {k \in Whole : 1..k \subseteq W}}

\* What is on its way to the sender is a GET, or an ack of blocks that are written: AckSound as
\* membership in one set of sequences.
LEMMA AckedQueue ==
  ASSUME TypeOK, AckSound
  PROVE  toSender \in Seq(AckedPackets(written))
<1>1. ASSUME NEW i \in 1..Len(toSender)
      PROVE  toSender[i] \in AckedPackets(written)
  <2>1. toSender[i] \in ToSenderPackets /\ 1..toSender[i].num \subseteq written
    BY ElementOfSeq DEF TypeOK, AckSound
  <2>2. CASE toSender[i] = GET
    BY <2>2 DEF AckedPackets
  <2>3. CASE toSender[i] # GET
    <3>1. PICK n \in Whole : toSender[i] = ACK(n)
      BY <2>1, <2>3 DEF ToSenderPackets
    <3>2. 1..n \subseteq written
      BY <2>1, <3>1 DEF ACK
    <3> QED BY <3>1, <3>2 DEF AckedPackets
  <2> QED BY <2>2, <2>3
<1> QED BY <1>1 DEF TypeOK

\* Conversely, every member of that set is a well-typed queue whose acks cover written blocks only.
LEMMA QueueAcked ==
  ASSUME NEW W, NEW q \in Seq(AckedPackets(W))
  PROVE  /\ q \in Seq(ToSenderPackets)
         /\ \A i \in DOMAIN q : 1..q[i].num \subseteq W
<1>1. ASSUME NEW p \in AckedPackets(W)
      PROVE  p \in ToSenderPackets /\ 1..p.num \subseteq W
  <2>1. CASE p = GET
    BY <2>1 DEF GET, ToSenderPackets
  <2>2. CASE p # GET
    <3>1. PICK n \in Whole : p = ACK(n) /\ 1..n \subseteq W
      BY <2>2 DEF AckedPackets
    <3> QED BY <3>1 DEF ToSenderPackets, ACK
  <2> QED BY <2>1, <2>2
<1>2. q \in Seq(ToSenderPackets)
  BY <1>1, SeqMonotonic
<1> QED BY <1>1, <1>2, ElementOfSeq

\* Acks of written blocks stay sound when more blocks are written.
LEMMA AckedMonotonic ==
  ASSUME NEW V, NEW W, V \subseteq W, NEW q \in Seq(AckedPackets(V))
  PROVE  q \in Seq(AckedPackets(W))
<1>1. AckedPackets(V) \subseteq AckedPackets(W)
  BY DEF AckedPackets
<1> QED BY <1>1, SeqMonotonic

\* No ack is under way before the receiver has its first block.
LEMMA NoAckYet ==
  ASSUME IInv, fetching, recv_buffer = {}, NEW i \in DOMAIN toSender
  PROVE  toSender[i] = GET
<1>1. toSender[i] \in AckedPackets(written)
  BY AckedQueue, ElementOfSeq DEF IInv
<1>2. \A k \in Whole : 1 \in 1..k
  BY TransferAssumption DEF Whole
<1>3. written = {}
  BY DEF IInv, FirstBlockFirst
<1> QED BY <1>1, <1>2, <1>3 DEF AckedPackets

-----------------------------------------------------------------------------
(* What a step of one side has to establish for IInv.                      *)

OnlyFirstBlock == send_buffer \in Seq({1}) /\ toReceiver \in Seq({DENIED, DATA(1)})

\* A step that leaves the receiver alone.
LEMMA SenderFrame ==
  ASSUME IInv, UNCHANGED receiverVars,
         SenderTypeOK', CongestionControlOK',
         toSender' \in Seq(AckedPackets(written)),
         toReceiver' \in Seq(ToReceiverPackets),
         1..last_ack' \subseteq written,
         fetching /\ recv_buffer = {} => OnlyFirstBlock',
         IdleLastAck', SomethingToResend', TailIsLastSent'
  PROVE  IInv'
<1>1. toSender' \in Seq(ToSenderPackets)
      /\ \A i \in DOMAIN toSender' : 1..(toSender'[i].num) \subseteq written
  BY QueueAcked
<1>2. TypeOK'
  BY <1>1 DEF IInv, TypeOK, ReceiverTypeOK, receiverVars
<1>3. AckSound'
  BY <1>1 DEF AckSound, receiverVars
<1>4. CompleteIsWhole'
  BY DEF IInv, CompleteIsWhole, receiverVars
<1>5. FirstBlockFirst'
  BY DEF IInv, FirstBlockFirst, OnlyFirstBlock, receiverVars
<1>6. WindowMatchesFile'
  BY DEF IInv, WindowMatchesFile, receiverVars
<1> QED BY <1>2, <1>3, <1>4, <1>5, <1>6 DEF IInv

\* A step that leaves the sender alone.
LEMMA ReceiverFrame ==
  ASSUME IInv, UNCHANGED senderVars,
         ReceiverTypeOK', written \subseteq written',
         toSender' \in Seq(AckedPackets(written')),
         toReceiver' \in Seq(ToReceiverPackets),
         CompleteIsWhole', WindowMatchesFile',
         fetching' /\ recv_buffer' = {} =>
           /\ fetching /\ recv_buffer = {} /\ written' = {}
           /\ toReceiver' \in Seq({DENIED, DATA(1)})
  PROVE  IInv'
<1>1. toSender' \in Seq(ToSenderPackets)
      /\ \A i \in DOMAIN toSender' : 1..(toSender'[i].num) \subseteq written'
  BY QueueAcked
<1>2. TypeOK'
  BY <1>1 DEF IInv, TypeOK, SenderTypeOK, senderVars
<1>3. AckSound'
  BY <1>1 DEF IInv, AckSound, senderVars
<1>4. CongestionControlOK' /\ IdleLastAck' /\ SomethingToResend' /\ TailIsLastSent'
  BY DEF IInv, CongestionControlOK, IdleLastAck, SomethingToResend,
         TailIsLastSent, senderVars
<1>5. FirstBlockFirst'
  BY DEF IInv, FirstBlockFirst, senderVars
<1> QED BY <1>2, <1>3, <1>4, <1>5 DEF IInv

-----------------------------------------------------------------------------
(* The sender's steps.                                                     *)

\* What a sender finds in a packet it receives.
LEMMA SenderReceivesFact ==
  ASSUME IInv, NEW i \in DOMAIN toSender, SenderReceives(i)
  PROVE  /\ toSender[i] \in AckedPackets(written)
         /\ toSender' \in Seq(AckedPackets(written))
BY AckedQueue, DeliveryType, ElementOfSeq DEF IInv, SenderReceives

\* Packets sent towards the receiver keep both channels well typed.
LEMMA ToReceiverType ==
  /\ DENIED \in ToReceiverPackets
  /\ \A n \in Whole : DATA(n) \in ToReceiverPackets
  /\ DENIED \in {DENIED, DATA(1)} /\ DATA(1) \in {DENIED, DATA(1)}
BY DEF ToReceiverPackets

\* A GET refused with DENIED (get_handler) preserves the inductive invariant.
LEMMA GetDeniedInv ==
  ASSUME IInv, GetDenied
  PROVE  IInv'
<1>1. /\ UNCHANGED receiverVars
      /\ UNCHANGED <<sender, send_buffer, state, his_request, last_ack,
                     num_dupacks, last_seq, num_data_retransmits,
                     sender_retransmits>>
      /\ his_request /\ curr_to'
  BY DEF GetDenied
<1>2. SenderTypeOK' /\ CongestionControlOK'
  BY <1>1 DEF IInv, TypeOK, SenderTypeOK, CongestionControlOK, GetDenied
<1>3. toSender' \in Seq(AckedPackets(written))
  BY SenderReceivesFact DEF GetDenied
<1>4. toReceiver' \in Seq(ToReceiverPackets)
  BY TransmitType, SingletonType, ToReceiverType DEF IInv, TypeOK, GetDenied
<1>5. ASSUME fetching, recv_buffer = {}
      PROVE  OnlyFirstBlock'
  <2>1. OnlyFirstBlock
    BY <1>5 DEF IInv, FirstBlockFirst, OnlyFirstBlock
  <2>2. toReceiver' \in Seq({DENIED, DATA(1)})
    BY <2>1, TransmitType, SingletonType, ToReceiverType
    DEF OnlyFirstBlock, GetDenied
  <2> QED BY <1>1, <2>1, <2>2 DEF OnlyFirstBlock
<1>6. IdleLastAck' /\ SomethingToResend' /\ TailIsLastSent'
  BY <1>1 DEF IInv, IdleLastAck, SomethingToResend, TailIsLastSent
<1>7. 1..last_ack' \subseteq written
  BY <1>1 DEF IInv, AckSound
<1> QED BY <1>1, <1>2, <1>3, <1>4, <1>5, <1>6, <1>7, SenderFrame

\* A GET that is accepted, with the first packets of the chunk, preserves the inductive invariant.
LEMMA GetAcceptedInv ==
  ASSUME IInv, GetAccepted
  PROVE  IInv'
<1>0. FINALACK \in Nat \ {0} /\ init_congestion_state.cwnd = 1
  BY TransferAssumption DEF init_congestion_state
<1>1. /\ UNCHANGED receiverVars
      /\ UNCHANGED <<sender, last_ack, num_dupacks, num_data_retransmits,
                     sender_retransmits>>
      /\ his_request' = TRUE /\ curr_to' = TRUE
      /\ send_next_data(init_congestion_state, 1, last_ack, send_buffer)
  BY DEF GetAccepted
<1>2. last_ack = 0 /\ send_buffer \in Seq(Whole) /\ last_seq \in 0..FINALACK
      /\ toReceiver \in Seq(ToReceiverPackets)
  BY DEF IInv, IdleLastAck, GetAccepted, TypeOK, SenderTypeOK
<1>3. PICK n \in 0..FINALACK :
        Sends(init_congestion_state, 1, last_ack, send_buffer, n)
  <2>1. 1 \in 1..(FINALACK + 1) /\ last_ack \in 0..FINALACK
    BY <1>0, <1>2
  <2> QED BY <1>1, <1>2, <2>1, InitCongestion, SendNextDataFact
<1>4. /\ n \in {0, 1} /\ n \in Nat /\ 1 \in Nat \ {0}
      /\ n = 0 => Len(send_buffer) = 1
  BY <1>0, <1>2, <1>3 DEF Sends
<1>5. /\ send_buffer' \in Seq(Whole)
      /\ Len(send_buffer') = Len(send_buffer) + n
      /\ n = 0 => send_buffer' = send_buffer
      /\ n > 0 => Tail1(send_buffer') = 1 + n - 1
  <2>1. /\ send_buffer' = send_buffer \o Burst(1, n)
        /\ n > 0 => 1 + n - 1 <= FINALACK
    BY <1>3 DEF Sends
  <2>2. Appended(send_buffer, 1, n, send_buffer')
    BY <1>2, <1>4, <2>1, AppendFact, Zenon
  <2> QED BY <2>2 DEF Appended
<1>6. SenderTypeOK' /\ CongestionControlOK'
  BY <1>0, <1>1, <1>3, <1>4, <1>5
  DEF IInv, TypeOK, SenderTypeOK, CongestionControlOK, Sends
<1>7. toSender' \in Seq(AckedPackets(written))
  BY SenderReceivesFact DEF GetAccepted
<1>8. \A i \in 1..n : i = 1 /\ DATA(1 + i - 1) = DATA(1)
  <2>1. \A i \in 1..n : i = 1
    BY <1>4
  <2>2. 1 + 1 - 1 = 1
    OBVIOUS
  <2> QED BY <2>1, <2>2
<1>9. toReceiver' \in Seq(ToReceiverPackets)
  BY <1>0, <1>2, <1>3, <1>8, ToReceiverType DEF Whole, Sends
<1>10. ASSUME fetching, recv_buffer = {}
       PROVE  OnlyFirstBlock'
  <2>1. send_buffer \in Seq({1}) /\ toReceiver \in Seq({DENIED, DATA(1)})
    BY <1>10 DEF IInv, FirstBlockFirst
  <2>2. Burst(1, n) \in Seq({1})
    BY <1>4, <1>8, BurstType
  <2>3. send_buffer' \in Seq({1})
    BY <1>3, <2>1, <2>2, ConcatProperties DEF Sends
  <2>4. toReceiver' \in Seq({DENIED, DATA(1)})
    BY <1>3, <1>8, <2>1, ToReceiverType DEF Sends
  <2> QED BY <2>3, <2>4 DEF OnlyFirstBlock
<1>11. SomethingToResend'
  <2>0. DOMAIN send_buffer' = 1..Len(send_buffer') /\ Len(send_buffer) \in Nat
    BY <1>2, <1>5, LenProperties
  <2>1. 1 \in 1..Len(send_buffer')
    BY <1>4, <1>5, <2>0
  <2>2. send_buffer'[1] \in Whole
    BY <1>5, <2>1, ElementOfSeq
  <2>3. send_buffer'[1] > 0
    BY <2>2 DEF Whole
  <2> QED BY <1>1, <1>2, <2>0, <2>1, <2>3 DEF SomethingToResend
<1>12. TailIsLastSent'
  <2>1. CASE n = 0
    BY <1>3, <1>5, <2>1 DEF Sends, IInv, TailIsLastSent, Tail1
  <2>2. CASE n > 0
    BY <1>3, <1>4, <1>5, <2>2 DEF Sends, TailIsLastSent, Tail1
  <2> QED BY <1>4, <2>1, <2>2
<1>13. IdleLastAck' /\ 1..last_ack' \subseteq written
  BY <1>1 DEF IdleLastAck, IInv, AckSound
<1> QED
  BY <1>1, <1>6, <1>7, <1>9, <1>10, <1>11, <1>12, <1>13, SenderFrame

\* An ack that ends nothing and moves nothing.
LEMMA AckIgnoredInv ==
  ASSUME IInv, AckHandler, NEW ack \in Whole, 1..ack \subseteq written,
         toSender' \in Seq(AckedPackets(written)),
         AckIgnored(ack)
  PROVE  IInv'
<1>1. /\ UNCHANGED receiverVars /\ num_data_retransmits' = 0
      /\ UNCHANGED <<sender, send_buffer, state, his_request, curr_to,
                     last_ack, num_dupacks, last_seq, sender_retransmits,
                     toReceiver>>
  BY DEF AckHandler, AckIgnored
<1>2. SenderTypeOK' /\ CongestionControlOK'
  BY <1>1, TransferAssumption
  DEF IInv, TypeOK, SenderTypeOK, CongestionControlOK
<1>3. toReceiver' \in Seq(ToReceiverPackets) /\ 1..last_ack' \subseteq written
  BY <1>1 DEF IInv, TypeOK, AckSound
<1>4. fetching /\ recv_buffer = {} => OnlyFirstBlock'
  BY <1>1 DEF IInv, FirstBlockFirst, OnlyFirstBlock
<1>5. IdleLastAck' /\ SomethingToResend' /\ TailIsLastSent'
  BY <1>1 DEF IInv, IdleLastAck, SomethingToResend, TailIsLastSent
<1> QED BY <1>1, <1>2, <1>3, <1>4, <1>5, SenderFrame

\* The ack of the last packet, which ends the request, preserves the inductive invariant.
LEMMA FinalAckInv ==
  ASSUME IInv, AckHandler, NEW ack \in Whole, 1..ack \subseteq written,
         toSender' \in Seq(AckedPackets(written)),
         FinalAck(ack)
  PROVE  IInv'
<1>1. /\ UNCHANGED receiverVars /\ num_data_retransmits' = 0
      /\ UNCHANGED <<sender, state, last_seq, sender_retransmits, toReceiver>>
      /\ last_ack' = 0 /\ num_dupacks' = 0 /\ send_buffer' = << >>
      /\ his_request' = FALSE /\ curr_to' = FALSE
  BY DEF AckHandler, FinalAck, post_send_cleanup, destroy_entries
<1>2. SenderTypeOK' /\ CongestionControlOK'
  <2>1. << >> \in Seq(Whole) /\ 0 \in 0..FINALACK /\ 0 \in 0..2
        /\ 0 \in 0..MAX_DATA_RETRANSMIT
    BY TransferAssumption
  <2> QED BY <1>1, <2>1 DEF IInv, TypeOK, SenderTypeOK, CongestionControlOK
<1>3. toReceiver' \in Seq(ToReceiverPackets) /\ 1..last_ack' \subseteq written
  BY <1>1 DEF IInv, TypeOK
<1>4. fetching /\ recv_buffer = {} => OnlyFirstBlock'
  BY <1>1 DEF IInv, FirstBlockFirst, OnlyFirstBlock
<1>5. IdleLastAck' /\ SomethingToResend' /\ TailIsLastSent'
  BY <1>1 DEF IdleLastAck, SomethingToResend, TailIsLastSent
<1> QED BY <1>1, <1>2, <1>3, <1>4, <1>5, SenderFrame

\* The packets left in the window when an ack removed those up to it.
LEMMA RestFact ==
  ASSUME NEW sb \in Seq(Whole), NEW ack \in Nat,
         NEW rest, rest = destroy_upto_ack(sb, ack)
  PROVE  /\ rest \in Seq(Whole)
         /\ rest = << >> => \A k \in DOMAIN sb : sb[k] <= ack
         /\ rest # << >> => /\ rest[1] > ack
                            /\ Tail1(rest) = Tail1(sb)
                            /\ 1 \in DOMAIN rest /\ rest[1] \in Whole
<1>1. Whole \subseteq Nat
  BY TransferAssumption DEF Whole
<1>2. /\ rest \in Seq(Whole)
      /\ rest = << >> => \A k \in DOMAIN sb : sb[k] <= ack
      /\ rest # << >> => rest[1] > ack /\ rest[Len(rest)] = sb[Len(sb)]
  BY <1>1, DestroyUptoAck
<1>3. rest # << >> => 1 \in DOMAIN rest /\ rest[1] \in Whole
  BY <1>2, EmptySeq, ElementOfSeq
<1> QED BY <1>2, <1>3 DEF Tail1

\* The third duplicate ack, which retransmits, preserves the inductive invariant.
LEMMA TripleDupackInv ==
  ASSUME IInv, AckHandler, NEW ack \in Whole, 1..ack \subseteq written,
         toSender' \in Seq(AckedPackets(written)),
         ~(fetching /\ recv_buffer = {}),
         TripleDupack(ack)
  PROVE  IInv'
<1>0. /\ send_buffer \in Seq(Whole) /\ last_ack \in Nat
      /\ state \in CongestionStates /\ CongestionOK(state)
      /\ toReceiver \in Seq(ToReceiverPackets)
  BY TransferAssumption DEF IInv, TypeOK, SenderTypeOK, CongestionControlOK
<1>1. PICK rest : rest = destroy_upto_ack(send_buffer, last_ack)
  OBVIOUS
<1>2. /\ UNCHANGED receiverVars /\ num_data_retransmits' = 0
      /\ UNCHANGED <<sender, his_request, curr_to, last_ack, last_seq,
                     sender_retransmits>>
      /\ num_dupacks' = 1 /\ send_buffer' = rest
      /\ state' = mult_decrease(state)
      /\ toReceiver' = Transmit(toReceiver, receiver, <<DATA(rest[1])>>)
      /\ his_request
  BY <1>1 DEF AckHandler, TripleDupack, retransmit_data, Head1
<1>3. /\ rest \in Seq(Whole)
      /\ rest = << >> => \A k \in DOMAIN send_buffer : send_buffer[k] <= last_ack
      /\ rest # << >> => /\ rest[1] > last_ack
                         /\ Tail1(rest) = Tail1(send_buffer)
                         /\ 1 \in DOMAIN rest /\ rest[1] \in Whole
  BY <1>0, <1>1, RestFact
<1>4. rest # << >>
  <2>1. PICK k \in DOMAIN send_buffer : send_buffer[k] > last_ack
    BY <1>2 DEF IInv, SomethingToResend
  <2>2. send_buffer[k] \in Nat /\ last_ack \in Nat
    BY <1>0, <2>1, ElementOfSeq, TransferAssumption DEF Whole
  <2>3. ~(send_buffer[k] <= last_ack)
    BY <2>1, <2>2
  <2> QED BY <1>3, <2>1, <2>3
<1>5. SenderTypeOK' /\ CongestionControlOK'
  BY <1>0, <1>2, <1>3, MultDecreaseOK, TransferAssumption
  DEF IInv, TypeOK, SenderTypeOK, CongestionControlOK
<1>6. toReceiver' \in Seq(ToReceiverPackets)
  BY <1>0, <1>2, <1>3, <1>4, TransmitType, SingletonType, ToReceiverType
<1>7. 1..last_ack' \subseteq written /\ IdleLastAck'
  BY <1>2 DEF IInv, AckSound, IdleLastAck
<1>8. SomethingToResend'
  BY <1>2, <1>3, <1>4 DEF IInv, SomethingToResend
<1>9. TailIsLastSent'
  <2>1. send_buffer # << >>
    BY DEF AckHandler
  <2>2. Tail1(rest) = last_seq
    BY <1>3, <1>4, <2>1 DEF IInv, TailIsLastSent
  <2> QED BY <1>2, <2>2 DEF TailIsLastSent, Tail1
<1> QED BY <1>2, <1>5, <1>6, <1>7, <1>8, <1>9, SenderFrame

\* Any other ack, which advances the window and sends what it allows, preserves the inductive
\* invariant.
LEMMA AckAdvancesInv ==
  ASSUME IInv, AckHandler, NEW ack \in Whole, 1..ack \subseteq written,
         toSender' \in Seq(AckedPackets(written)),
         ~(fetching /\ recv_buffer = {}),
         AckAdvances(ack)
  PROVE  IInv'
<1>0. /\ FINALACK \in Nat \ {0} /\ ack \in 1..FINALACK
      /\ send_buffer \in Seq(Whole) /\ last_ack \in 0..FINALACK
      /\ last_seq \in 0..FINALACK /\ num_dupacks \in 0..2
      /\ state \in CongestionStates /\ CongestionOK(state)
      /\ toReceiver \in Seq(ToReceiverPackets)
      /\ 1..last_ack \subseteq written
  BY TransferAssumption
  DEF IInv, TypeOK, SenderTypeOK, CongestionControlOK, AckSound, Whole
<1>1. PICK acked : acked = Greatest(last_ack, ack)
  OBVIOUS
<1>2. PICK rest : rest = destroy_upto_ack(send_buffer, acked)
  OBVIOUS
<1>3. PICK cc : cc = slow_start(state)
  OBVIOUS
<1>4. /\ UNCHANGED receiverVars /\ num_data_retransmits' = 0
      /\ UNCHANGED <<sender, his_request, curr_to, sender_retransmits>>
      /\ send_next_data(cc, last_seq + 1, acked, rest)
      /\ last_ack' = acked /\ CountAck(ack)
      /\ ack <= Tail1(send_buffer) /\ his_request
      /\ ~(last_seq = FINALACK /\ acked = FINALACK)
      /\ ~(ack = last_ack /\ num_dupacks + 1 = 3)
      /\ send_buffer # << >>
  BY <1>1, <1>2, <1>3 DEF AckHandler, AckAdvances, CountAck
<1>5. /\ acked \in 0..FINALACK /\ acked \in Nat /\ 1..acked \subseteq written
      /\ acked = last_ack \/ acked = ack
  BY <1>0, <1>1 DEF Greatest
<1>6. cc \in CongestionStates /\ CongestionOK(cc)
  BY <1>0, <1>3, SlowStartOK
<1>7. cc.cwnd \in 1..MAXWIN /\ cc.cwnd \in Nat \ {0}
  BY <1>6, MAXWINAssumption DEF CongestionOK
<1>8. /\ rest \in Seq(Whole)
      /\ rest = << >> => \A k \in DOMAIN send_buffer : send_buffer[k] <= acked
      /\ rest # << >> => /\ rest[1] > acked
                         /\ Tail1(rest) = Tail1(send_buffer)
                         /\ 1 \in DOMAIN rest /\ rest[1] \in Whole
  BY <1>0, <1>2, <1>5, RestFact
<1>9. PICK n \in 0..FINALACK : Sends(cc, last_seq + 1, acked, rest, n)
  <2>1. last_seq + 1 \in 1..(FINALACK + 1)
    BY <1>0
  <2> QED BY <1>4, <1>5, <1>6, <1>8, <2>1, SendNextDataFact
<1>10. n \in Nat /\ last_seq + 1 \in Nat \ {0} /\ last_seq \in Nat
  BY <1>0
<1>11. Appended(rest, last_seq + 1, n, send_buffer')
  <2>1. /\ send_buffer' = rest \o Burst(last_seq + 1, n)
        /\ n > 0 => last_seq + 1 + n - 1 <= FINALACK
    BY <1>9 DEF Sends
  <2> QED BY <1>8, <1>10, <2>1, AppendFact, Zenon
<1>12. /\ Tail1(send_buffer) = last_seq
       /\ Len(send_buffer) \in DOMAIN send_buffer
       /\ send_buffer[Len(send_buffer)] = last_seq
  <2>1. Tail1(send_buffer) = last_seq
    BY <1>4 DEF IInv, TailIsLastSent
  <2>2. Len(send_buffer) \in DOMAIN send_buffer
    BY <1>0, <1>4, EmptySeq
  <2> QED BY <2>1, <2>2 DEF Tail1
\* When the ack empties the window it is the last packet sent, and the window
\* has room for the next.
<1>13. ASSUME rest = << >>
       PROVE  n > 0 /\ acked = last_seq
  <2>1. last_seq <= acked
    BY <1>8, <1>12, <1>13
  <2>2. PICK k \in DOMAIN send_buffer : send_buffer[k] > last_ack
    BY <1>4 DEF IInv, SomethingToResend
  <2>3. send_buffer[k] <= acked /\ send_buffer[k] \in Nat /\ last_ack \in Nat
    BY <1>0, <1>8, <1>13, <2>2, ElementOfSeq DEF Whole
  <2>4. acked # last_ack
    BY <1>5, <2>2, <2>3
  <2>5. acked = last_seq
    <3>1. acked = ack /\ ack <= last_seq
      BY <1>4, <1>5, <1>12, <2>4
    <3> QED BY <1>10, <1>5, <2>1, <3>1
  <2>6. last_seq < FINALACK
    BY <1>0, <1>4, <2>5
  <2>7. ~(last_seq + 1 > FINALACK) /\ ~(last_seq + 1 > acked + cc.cwnd)
    BY <1>0, <1>7, <1>10, <2>5, <2>6
  <2>8. Len(rest) # cc.cwnd
    BY <1>7, <1>13
  <2>9. n # 0
    BY <1>9, <2>7, <2>8 DEF Sends
  <2> QED BY <1>10, <2>5, <2>9
<1>14. last_seq' \in 0..FINALACK
  <2>1. /\ last_seq' = IF n = 0 THEN last_seq ELSE last_seq + 1 + n - 1
        /\ n > 0 => last_seq + 1 + n - 1 <= FINALACK
    BY <1>9 DEF Sends
  <2> QED BY <1>0, <1>10, <2>1
<1>15. num_dupacks' \in 0..2
  BY <1>0, <1>4 DEF CountAck
<1>16. SenderTypeOK'
  <2>1. send_buffer' \in Seq(Whole)
    BY <1>11 DEF Appended
  <2>2. state' \in CongestionStates
    BY <1>9 DEF Sends
  <2>3. 0 \in 0..MAX_DATA_RETRANSMIT
    BY TransferAssumption
  <2> QED BY <1>4, <1>5, <1>14, <1>15, <2>1, <2>2, <2>3
          DEF IInv, TypeOK, SenderTypeOK
<1>17. CongestionControlOK'
  BY <1>9 DEF Sends, CongestionControlOK
<1>18. toReceiver' \in Seq(ToReceiverPackets)
  <2>1. /\ toReceiver \in Seq(ToReceiverPackets)
        /\ \A i \in 1..n : DATA(last_seq + 1 + i - 1) \in ToReceiverPackets
        => toReceiver' \in Seq(ToReceiverPackets)
    BY <1>9 DEF Sends
  <2>2. n > 0 => last_seq + 1 + n - 1 <= FINALACK
    BY <1>9 DEF Sends
  <2>3. \A i \in 1..n : last_seq + 1 + i - 1 \in Whole
    BY <1>0, <1>10, <2>2 DEF Whole
  <2> QED BY <1>0, <2>1, <2>3, ToReceiverType
<1>19. 1..last_ack' \subseteq written /\ IdleLastAck'
  BY <1>4, <1>5 DEF IdleLastAck
<1>20. SomethingToResend'
  <2>1. CASE rest = << >>
    <3>1. send_buffer' \in Seq(Whole) /\ Len(send_buffer') = n
          /\ Tail1(send_buffer') = last_seq + 1 + n - 1
      BY <1>10, <1>11, <1>13, <2>1 DEF Appended
    <3>2. n \in DOMAIN send_buffer' /\ send_buffer'[n] = last_seq + 1 + n - 1
      BY <1>10, <1>13, <2>1, <3>1 DEF Tail1
    <3>3. send_buffer'[n] > acked
      BY <1>10, <1>13, <2>1, <3>2
    <3> QED BY <1>4, <3>2, <3>3 DEF IInv, SomethingToResend
  <2>2. CASE rest # << >>
    <3>1. /\ send_buffer' = rest \o Burst(last_seq + 1, n)
          /\ n > 0 => last_seq + 1 + n - 1 <= FINALACK
      BY <1>9 DEF Sends
    <3>2. \A i \in 1..n : last_seq + 1 + i - 1 \in Whole
      BY <1>0, <1>10, <3>1 DEF Whole
    <3>3. Burst(last_seq + 1, n) \in Seq(Whole)
      BY <1>10, <3>2, BurstType
    <3>4. 1 \in DOMAIN send_buffer' /\ send_buffer'[1] = rest[1]
      BY <1>8, <2>2, <3>1, <3>3, ConcatProperties
    <3>5. send_buffer'[1] > acked
      BY <1>8, <2>2, <3>4
    <3> QED BY <1>4, <3>4, <3>5 DEF IInv, SomethingToResend
  <2> QED BY <2>1, <2>2
<1>21. TailIsLastSent'
  <2>1. last_seq' = IF n = 0 THEN last_seq ELSE last_seq + 1 + n - 1
    BY <1>9 DEF Sends
  <2>2. CASE n > 0
    <3>1. Tail1(send_buffer') = last_seq + 1 + n - 1
      BY <1>11, <2>2 DEF Appended
    <3> QED BY <2>1, <2>2, <3>1 DEF TailIsLastSent, Tail1
  <2>3. CASE n = 0
    <3>1. send_buffer' = rest /\ rest # << >>
      BY <1>11, <1>13, <2>3 DEF Appended
    <3>2. Tail1(rest) = last_seq
      BY <1>8, <1>12, <3>1
    <3> QED BY <2>1, <2>3, <3>1, <3>2 DEF TailIsLastSent, Tail1
  <2> QED BY <1>10, <2>2, <2>3
<1> QED BY <1>4, <1>16, <1>17, <1>18, <1>19, <1>20, <1>21, SenderFrame

\* The four ways of ack_handler; an ack that counts shows that the receiver
\* has the first block.
LEMMA AckHandlerInv ==
  ASSUME IInv, AckHandler
  PROVE  IInv'
<1>1. PICK i \in DOMAIN toSender :
        /\ SenderReceives(i) /\ toSender[i].type = "ACK"
        /\ \/ AckIgnored(toSender[i].num)
           \/ FinalAck(toSender[i].num)
           \/ TripleDupack(toSender[i].num)
           \/ AckAdvances(toSender[i].num)
  BY DEF AckHandler
<1>2. /\ toSender[i] \in AckedPackets(written)
      /\ toSender' \in Seq(AckedPackets(written))
  BY <1>1, SenderReceivesFact
<1>3. PICK ack \in Whole : toSender[i] = ACK(ack) /\ 1..ack \subseteq written
  BY <1>1, <1>2 DEF AckedPackets, GET
<1>4. toSender[i].num = ack
  BY <1>3 DEF ACK
<1>5. ~(fetching /\ recv_buffer = {})
  BY <1>1, NoAckYet DEF GET
<1>6. CASE AckIgnored(ack)
  BY <1>2, <1>3, <1>6, AckIgnoredInv
<1>7. CASE FinalAck(ack)
  BY <1>2, <1>3, <1>7, FinalAckInv
<1>8. CASE TripleDupack(ack)
  BY <1>2, <1>3, <1>5, <1>8, TripleDupackInv
<1>9. CASE AckAdvances(ack)
  BY <1>2, <1>3, <1>5, <1>9, AckAdvancesInv
<1> QED BY <1>1, <1>4, <1>6, <1>7, <1>8, <1>9

\* A sender that reads a null pointer stops.
LEMMA SenderFaultsInv ==
  ASSUME IInv, SenderFaults
  PROVE  IInv'
<1>1. /\ UNCHANGED <<receiverVars, toReceiver>>
      /\ UNCHANGED <<send_buffer, state, his_request, curr_to, last_ack,
                     num_dupacks, last_seq, num_data_retransmits,
                     sender_retransmits>>
      /\ sender' = "segv" /\ toSender' = << >>
  BY DEF SenderFaults
<1>2. SenderTypeOK' /\ CongestionControlOK'
  BY <1>1 DEF IInv, TypeOK, SenderTypeOK, CongestionControlOK
<1>3. toSender' \in Seq(AckedPackets(written))
  BY <1>1
<1>4. toReceiver' \in Seq(ToReceiverPackets) /\ 1..last_ack' \subseteq written
  BY <1>1 DEF IInv, TypeOK, AckSound
<1>5. fetching /\ recv_buffer = {} => OnlyFirstBlock'
  BY <1>1 DEF IInv, FirstBlockFirst, OnlyFirstBlock
<1>6. IdleLastAck' /\ SomethingToResend' /\ TailIsLastSent'
  BY <1>1 DEF IInv, IdleLastAck, SomethingToResend, TailIsLastSent
<1> QED BY <1>1, <1>2, <1>3, <1>4, <1>5, <1>6, SenderFrame

\* The crash of the sender preserves the inductive invariant.
LEMMA SenderCrashInv ==
  ASSUME IInv, SenderCrash
  PROVE  IInv'
<1>1. /\ UNCHANGED <<receiverVars, toReceiver>>
      /\ UNCHANGED <<send_buffer, state, his_request, curr_to, last_ack,
                     num_dupacks, last_seq, num_data_retransmits,
                     sender_retransmits>>
      /\ sender' = "crashed" /\ toSender' = << >>
  BY DEF SenderCrash
<1>2. SenderTypeOK' /\ CongestionControlOK'
  BY <1>1 DEF IInv, TypeOK, SenderTypeOK, CongestionControlOK
<1>3. toSender' \in Seq(AckedPackets(written))
  BY <1>1
<1>4. toReceiver' \in Seq(ToReceiverPackets) /\ 1..last_ack' \subseteq written
  BY <1>1 DEF IInv, TypeOK, AckSound
<1>5. fetching /\ recv_buffer = {} => OnlyFirstBlock'
  BY <1>1 DEF IInv, FirstBlockFirst, OnlyFirstBlock
<1>6. IdleLastAck' /\ SomethingToResend' /\ TailIsLastSent'
  BY <1>1 DEF IInv, IdleLastAck, SomethingToResend, TailIsLastSent
<1> QED BY <1>1, <1>2, <1>3, <1>4, <1>5, <1>6, SenderFrame

\* The packets that go out again at a timeout.
LEMMA RetransmitType ==
  ASSUME IInv, send_buffer # << >>, retransmit_data(send_buffer)
  PROVE  /\ toReceiver' \in Seq(ToReceiverPackets)
         /\ fetching /\ recv_buffer = {} => toReceiver' \in Seq({DENIED, DATA(1)})
<1>1. toReceiver' = Transmit(toReceiver, receiver, <<DATA(send_buffer[1])>>)
  BY DEF retransmit_data, Head1
<1>2. \A S : send_buffer \in Seq(S) => send_buffer[1] \in S
  BY EmptySeq, ElementOfSeq
<1>3. send_buffer \in Seq(Whole) /\ toReceiver \in Seq(ToReceiverPackets)
  BY DEF IInv, TypeOK, SenderTypeOK
<1>4. DATA(send_buffer[1]) \in ToReceiverPackets
  BY <1>2, <1>3, ToReceiverType
<1>5. toReceiver' \in Seq(ToReceiverPackets)
  BY <1>1, <1>3, <1>4, TransmitType, SingletonType
<1>6. ASSUME fetching, recv_buffer = {}
      PROVE  toReceiver' \in Seq({DENIED, DATA(1)})
  <2>1. send_buffer \in Seq({1}) /\ toReceiver \in Seq({DENIED, DATA(1)})
    BY <1>6 DEF IInv, FirstBlockFirst
  <2>2. send_buffer[1] = 1
    BY <1>2, <2>1
  <2> QED BY <1>1, <2>1, <2>2, TransmitType, SingletonType
<1> QED BY <1>5, <1>6

\* A timeout of the sender, which retransmits the head of its window, preserves the inductive
\* invariant.
LEMMA SenderTimeoutInv ==
  ASSUME IInv, SenderTimeout
  PROVE  IInv'
<1>1. CASE send_buffer = << >>
  BY <1>1, SenderFaultsInv DEF SenderTimeout
<1>2. CASE send_buffer # << >>
  <2>1. /\ UNCHANGED <<receiverVars, toSender>>
        /\ UNCHANGED <<sender, send_buffer, state, his_request, curr_to,
                       last_ack, num_dupacks, last_seq, sender_retransmits>>
        /\ num_data_retransmits < MAX_DATA_RETRANSMIT
        /\ num_data_retransmits' = num_data_retransmits + 1
        /\ retransmit_data(send_buffer)
    BY <1>2 DEF SenderTimeout
  <2>2. num_data_retransmits' \in 0..MAX_DATA_RETRANSMIT
    BY <2>1, TransferAssumption DEF IInv, TypeOK, SenderTypeOK
  <2>3. SenderTypeOK' /\ CongestionControlOK'
    BY <2>1, <2>2 DEF IInv, TypeOK, SenderTypeOK, CongestionControlOK
  <2>4. toSender' \in Seq(AckedPackets(written))
    BY <2>1, AckedQueue DEF IInv
  <2>5. /\ toReceiver' \in Seq(ToReceiverPackets)
        /\ fetching /\ recv_buffer = {} => OnlyFirstBlock'
    BY <1>2, <2>1, RetransmitType DEF OnlyFirstBlock, IInv, FirstBlockFirst
  <2>6. IdleLastAck' /\ SomethingToResend' /\ TailIsLastSent'
        /\ 1..last_ack' \subseteq written
    BY <2>1
    DEF IInv, IdleLastAck, SomethingToResend, TailIsLastSent, AckSound
  <2> QED BY <2>1, <2>3, <2>4, <2>5, <2>6, SenderFrame
<1> QED BY <1>1, <1>2

\* A sender that gives up after its last timeout preserves the inductive invariant.
LEMMA SenderGivesUpInv ==
  ASSUME IInv, SenderGivesUp
  PROVE  IInv'
<1>1. /\ UNCHANGED <<receiverVars, toSender, toReceiver>>
      /\ UNCHANGED <<sender, state, last_seq>>
      /\ last_ack' = 0 /\ num_dupacks' = 0 /\ his_request' = FALSE
      /\ curr_to' = FALSE /\ sender_retransmits' = 0
      /\ num_data_retransmits' = 0 /\ send_buffer' = << >>
  BY DEF SenderGivesUp, forget_receiver, destroy_entries
<1>2. << >> \in Seq(Whole) /\ 0 \in 0..FINALACK /\ 0 \in 0..2
      /\ 0 \in 0..MAX_DATA_RETRANSMIT /\ 0 \in 0..MAX_RETRANSMITS
  BY TransferAssumption
<1>3. SenderTypeOK' /\ CongestionControlOK'
  BY <1>1, <1>2 DEF IInv, TypeOK, SenderTypeOK, CongestionControlOK
<1>4. toSender' \in Seq(AckedPackets(written))
  BY <1>1, AckedQueue DEF IInv
<1>5. toReceiver' \in Seq(ToReceiverPackets) /\ 1..last_ack' \subseteq written
  BY <1>1 DEF IInv, TypeOK
<1>6. fetching /\ recv_buffer = {} => OnlyFirstBlock'
  BY <1>1 DEF IInv, FirstBlockFirst, OnlyFirstBlock
<1>7. IdleLastAck' /\ SomethingToResend' /\ TailIsLastSent'
  BY <1>1 DEF IdleLastAck, SomethingToResend, TailIsLastSent
<1> QED BY <1>1, <1>3, <1>4, <1>5, <1>6, <1>7, SenderFrame

\* A sender that forgets the receiver preserves the inductive invariant.
LEMMA SenderForgetsInv ==
  ASSUME IInv, SenderForgets
  PROVE  IInv'
<1>1. /\ UNCHANGED <<receiverVars, toSender>>
      /\ UNCHANGED <<sender, send_buffer, state, last_seq>>
      /\ last_ack' = 0 /\ num_dupacks' = 0 /\ his_request' = FALSE
      /\ curr_to' = FALSE /\ sender_retransmits' = 0
      /\ num_data_retransmits' = 0
      /\ \/ toReceiver' = toReceiver
         \/ /\ send_buffer # << >>
            /\ retransmit_data(send_buffer)
  BY DEF SenderForgets, forget_receiver
<1>2. 0 \in 0..FINALACK /\ 0 \in 0..2
      /\ 0 \in 0..MAX_DATA_RETRANSMIT /\ 0 \in 0..MAX_RETRANSMITS
  BY TransferAssumption
<1>3. SenderTypeOK' /\ CongestionControlOK'
  BY <1>1, <1>2 DEF IInv, TypeOK, SenderTypeOK, CongestionControlOK
<1>4. toSender' \in Seq(AckedPackets(written))
  BY <1>1, AckedQueue DEF IInv
<1>5. /\ toReceiver' \in Seq(ToReceiverPackets)
      /\ fetching /\ recv_buffer = {} => OnlyFirstBlock'
  <2>1. CASE toReceiver' = toReceiver
    BY <1>1, <2>1 DEF IInv, TypeOK, FirstBlockFirst, OnlyFirstBlock
  <2>2. CASE send_buffer # << >> /\ retransmit_data(send_buffer)
    BY <1>1, <2>2, RetransmitType DEF OnlyFirstBlock, IInv, FirstBlockFirst
  <2> QED BY <1>1, <2>1, <2>2
<1>6. 1..last_ack' \subseteq written
  BY <1>1
<1>7. IdleLastAck' /\ SomethingToResend' /\ TailIsLastSent'
  BY <1>1 DEF IInv, IdleLastAck, SomethingToResend, TailIsLastSent
<1> QED BY <1>1, <1>3, <1>4, <1>5, <1>6, <1>7, SenderFrame

-----------------------------------------------------------------------------
(* The receiver's steps.                                                   *)

\* The receive window rb and the blocks w in the file agree.
Matches(rb, w) ==
  \A h \in rb : IsHead(rb, h) =>
    /\ 1..h \subseteq w /\ h + 1 \notin rb
    /\ rb \subseteq w
    /\ w \subseteq (1..h) \cup rb

\* A window that is in use has a head.
LEMMA HeadExists ==
  ASSUME NEW rb \in SUBSET Whole, rb # {}
  PROVE  \E h \in rb : IsHead(rb, h)
<1>1. rb \subseteq Nat
  BY TransferAssumption DEF Whole
<1> QED BY <1>1, LeastElement DEF IsHead

\* The window rb2 and the file w after a data packet, with the ack f.
Stored(rb2, f, w) ==
  /\ f \in Whole /\ 1..f \subseteq w
  /\ after_find_ack(rb2) \in SUBSET Whole
  /\ f \in after_find_ack(rb2)
  /\ \A g \in after_find_ack(rb2) : IsHead(after_find_ack(rb2), g) => g = f
  /\ Matches(after_find_ack(rb2), w)

\* What one data packet does to the window and to the file: the ack covers
\* blocks of the file only, and the window agrees with the file again.
LEMMA StoreFact ==
  ASSUME NEW rb \in SUBSET Whole, NEW w \in SUBSET Whole, NEW seq \in Whole,
         Matches(rb, w), rb = {} => w = {} /\ seq = 1,
         NEW rb2, rb2 = insert_entry(rb, seq),
         NEW f, f = find_ack(rb2)
  PROVE  Stored(rb2, f, w \cup {seq})
<1>0. FINALACK \in Nat \ {0} /\ Whole = 1..FINALACK
  BY TransferAssumption DEF Whole
<1>1. PICK h \in Whole : /\ IsHead(rb2, h) /\ 1..h \subseteq w \cup {seq}
                         /\ rb \subseteq rb2 /\ rb2 \subseteq rb \cup {seq}
                         /\ rb \subseteq w
                         /\ w \subseteq (1..h) \cup rb
                         /\ seq \in rb2 \/ seq < h
  <2>1. CASE rb = {}
    <3>1. rb2 = {1} /\ seq = 1 /\ 1 \in Whole
      BY <1>0, <2>1 DEF insert_entry
    <3>2. IsHead(rb2, 1) /\ 1..1 = {1}
      BY <3>1 DEF IsHead
    <3> QED BY <2>1, <3>1, <3>2
  <2>2. CASE rb # {}
    <3>1. PICK h \in rb : IsHead(rb, h)
      BY <2>2, HeadExists
    <3>2. 1..h \subseteq w /\ rb \subseteq w /\ w \subseteq (1..h) \cup rb
      BY <3>1 DEF Matches
    <3>3. CASE \A m \in rb : seq < m
      <4>1. rb2 = rb /\ seq < h
        BY <2>2, <3>1, <3>3 DEF insert_entry
      <4> QED BY <3>1, <3>2, <4>1
    <3>4. CASE ~ \A m \in rb : seq < m
      <4>1. rb2 = rb \cup {seq}
        BY <3>4 DEF insert_entry
      <4>2. PICK m \in rb : ~(seq < m)
        BY <3>4
      <4>3. h <= m /\ h \in 1..FINALACK /\ m \in 1..FINALACK /\ seq \in 1..FINALACK
        BY <1>0, <3>1 DEF IsHead
      <4>4. h <= seq
        BY <1>0, <4>2, <4>3
      <4>5. IsHead(rb2, h)
        BY <3>1, <4>1, <4>4 DEF IsHead
      <4> QED BY <3>1, <3>2, <4>1, <4>5
    <3> QED BY <3>3, <3>4
  <2> QED BY <2>1, <2>2
<1>2. rb2 \in SUBSET (1..FINALACK)
  BY <1>0, <1>1
<1>3. f \in rb2 /\ h <= f /\ h..f \subseteq rb2 /\ f + 1 \notin rb2
  BY <1>0, <1>1, <1>2, FindAck
<1>4. PICK rb3 : rb3 = after_find_ack(rb2)
  OBVIOUS
<1>5. /\ rb3 \subseteq rb2 /\ IsHead(rb3, f)
      /\ \A m \in rb2 : m >= f => m \in rb3
  BY <1>0, <1>1, <1>2, <1>4, AfterFindAck
<1>6. f \in 1..FINALACK /\ h \in 1..FINALACK
  BY <1>0, <1>2, <1>3
<1>7. 1..f \subseteq w \cup {seq}
  <2>1. 1..f \subseteq (1..h) \cup (h..f)
    BY <1>0, <1>6
  <2> QED BY <1>1, <1>3, <2>1
<1>8. w \cup {seq} \subseteq (1..f) \cup rb3
  <2>1. ASSUME NEW x \in w \cup {seq}
        PROVE  x \in (1..f) \cup rb3
    <3>1. x \in 1..FINALACK
      BY <1>0
    <3>2. x <= h \/ x \in rb2
      BY <1>0, <1>1, <2>1, <3>1
    <3>3. CASE x <= f
      BY <1>6, <3>1, <3>3
    <3>4. CASE ~(x <= f)
      <4>1. x >= f /\ ~(x <= h)
        BY <1>3, <1>6, <3>1, <3>4
      <4> QED BY <1>5, <3>2, <4>1
    <3> QED BY <3>3, <3>4
  <2> QED BY <2>1
<1>9. ASSUME NEW g \in rb3, IsHead(rb3, g)
      PROVE  g = f
  <2>1. g <= f /\ f <= g
    BY <1>5, <1>9 DEF IsHead
  <2>2. g \in 1..FINALACK
    BY <1>2, <1>5
  <2> QED BY <1>6, <2>1, <2>2
<1>10. Matches(rb3, w \cup {seq})
  <2>2. f + 1 \notin rb3 /\ rb3 \subseteq w \cup {seq}
    BY <1>1, <1>3, <1>5
  <2> QED BY <1>7, <1>8, <1>9, <2>2 DEF Matches
<1> QED BY <1>0, <1>2, <1>4, <1>5, <1>6, <1>7, <1>9, <1>10 DEF IsHead, Stored

\* What a receiver finds in a packet it receives.
LEMMA ReceiverReceivesFact ==
  ASSUME IInv, NEW i \in DOMAIN toReceiver, ReceiverReceives(i)
  PROVE  /\ toReceiver[i] \in ToReceiverPackets
         /\ toReceiver' \in Seq(ToReceiverPackets)
         /\ toReceiver \in Seq({DENIED, DATA(1)}) =>
              /\ toReceiver[i] \in {DENIED, DATA(1)}
              /\ toReceiver' \in Seq({DENIED, DATA(1)})
<1>1. /\ toReceiver \in Seq(ToReceiverPackets) /\ i \in Deliverable(toReceiver)
      /\ toReceiver' \in AfterDelivery(toReceiver, i)
  BY DEF IInv, TypeOK, ReceiverReceives
<1> QED BY <1>1, DeliveryType

\* A step that leaves the file and the window as they are, and does not start
\* to fetch, keeps what the receiver relies on.
LEMMA ReceiverIdle ==
  ASSUME IInv, UNCHANGED senderVars, ReceiverTypeOK',
         \/ UNCHANGED <<recv_buffer, written, complete>>
         \/ ~fetching' /\ UNCHANGED <<written, complete>>,
         fetching' => fetching,
         toSender' \in Seq(AckedPackets(written)),
         toReceiver' \in Seq(ToReceiverPackets),
         toReceiver \in Seq({DENIED, DATA(1)}) =>
           toReceiver' \in Seq({DENIED, DATA(1)})
  PROVE  IInv'
<1>1. written \subseteq written' /\ toSender' \in Seq(AckedPackets(written'))
  OBVIOUS
<1>2. CompleteIsWhole' /\ WindowMatchesFile'
  BY DEF IInv, CompleteIsWhole, WindowMatchesFile
<1>3. fetching' /\ recv_buffer' = {} =>
        /\ fetching /\ recv_buffer = {} /\ written' = {}
        /\ toReceiver' \in Seq({DENIED, DATA(1)})
  BY DEF IInv, FirstBlockFirst
<1> QED BY <1>1, <1>2, <1>3, ReceiverFrame

\* data_handler, with the ack it sends, preserves the inductive invariant.
LEMMA DataHandlerInv ==
  ASSUME IInv, DataHandler
  PROVE  IInv'
<1>0. /\ FINALACK \in Nat \ {0} /\ Whole = 1..FINALACK
      /\ 0 \in 0..MAX_DATA_RETRANSMIT
  BY TransferAssumption DEF Whole
<1>1. PICK i \in DOMAIN toReceiver :
        /\ ReceiverReceives(i) /\ toReceiver[i].type = "DATA"
        /\ IF fetching
             THEN /\ StoreAndAck(toReceiver[i].num)
                  /\ CompleteWith(toReceiver[i].num)
                  /\ pending_get' = FALSE
             ELSE UNCHANGED <<written, recv_buffer, toSender, fetching,
                              complete, pending_get>>
  BY DEF DataHandler
<1>2. /\ ack_timeout_counter' = 0 /\ UNCHANGED <<receiver, num_retransmits>>
      /\ UNCHANGED senderVars
  BY DEF DataHandler
<1>3. /\ toReceiver[i] \in ToReceiverPackets
      /\ toReceiver' \in Seq(ToReceiverPackets)
      /\ toReceiver \in Seq({DENIED, DATA(1)}) =>
           /\ toReceiver[i] \in {DENIED, DATA(1)}
           /\ toReceiver' \in Seq({DENIED, DATA(1)})
  BY <1>1, ReceiverReceivesFact
<1>4. toSender \in Seq(AckedPackets(written))
  BY AckedQueue DEF IInv
<1>5. CASE ~fetching
  <2>1. ReceiverTypeOK'
    BY <1>0, <1>1, <1>2, <1>5 DEF IInv, TypeOK, ReceiverTypeOK
  <2> QED BY <1>1, <1>2, <1>3, <1>4, <1>5, <2>1, ReceiverIdle
<1>6. CASE fetching
  <2>1. PICK seq \in Whole : toReceiver[i] = DATA(seq) /\ toReceiver[i].num = seq
    BY <1>1, <1>3 DEF ToReceiverPackets, DENIED, DATA
  <2>2. PICK rb2 : rb2 = insert_entry(recv_buffer, seq)
    OBVIOUS
  <2>3. PICK f : f = find_ack(rb2)
    OBVIOUS
  <2>4. /\ written' = written \cup {seq}
        /\ recv_buffer' = IF f = FINALACK THEN {} ELSE after_find_ack(rb2)
        /\ toSender' = Transmit(toSender, sender, <<ACK(f)>>)
        /\ fetching' = ~(f = FINALACK)
        /\ complete' = (complete \/ f = FINALACK)
        /\ pending_get' = FALSE
    BY <1>1, <1>6, <2>1, <2>2, <2>3 DEF StoreAndAck, CompleteWith
  <2>5. /\ recv_buffer \in SUBSET Whole /\ written \in SUBSET Whole
        /\ complete \in BOOLEAN
    BY DEF IInv, TypeOK, ReceiverTypeOK
  <2>6. Matches(recv_buffer, written)
    BY <1>6 DEF IInv, WindowMatchesFile, Matches
  <2>7. recv_buffer = {} => written = {} /\ seq = 1
    BY <1>3, <1>6, <2>1 DEF IInv, FirstBlockFirst, DENIED, DATA
  <2>8. /\ f \in Whole /\ 1..f \subseteq written \cup {seq}
        /\ after_find_ack(rb2) \in SUBSET Whole
        /\ f \in after_find_ack(rb2)
        /\ \A g \in after_find_ack(rb2) :
             IsHead(after_find_ack(rb2), g) => g = f
        /\ Matches(after_find_ack(rb2), written \cup {seq})
    <3>1. Stored(rb2, f, written \cup {seq})
      BY <2>2, <2>3, <2>5, <2>6, <2>7, StoreFact
    <3> QED BY <3>1 DEF Stored
  <2>9. ReceiverTypeOK'
    <3>1. written' \in SUBSET Whole /\ recv_buffer' \in SUBSET Whole
          /\ fetching' \in BOOLEAN /\ complete' \in BOOLEAN
      BY <2>4, <2>5, <2>8
    <3> QED BY <1>0, <1>2, <2>4, <3>1 DEF IInv, TypeOK, ReceiverTypeOK
  <2>10. written \subseteq written'
    BY <2>4
  <2>11. toSender' \in Seq(AckedPackets(written'))
    <3>1. ACK(f) \in AckedPackets(written')
      BY <2>4, <2>8 DEF AckedPackets
    <3> QED BY <1>4, <2>4, <2>10, <3>1, AckedMonotonic, TransmitType, SingletonType
  <2>12. CompleteIsWhole'
    <3>1. CASE f = FINALACK
      BY <1>0, <2>4, <2>5, <2>8, <3>1 DEF CompleteIsWhole, Whole
    <3>2. CASE f # FINALACK
      BY <2>4, <2>5, <3>2 DEF IInv, CompleteIsWhole, Whole
    <3> QED BY <3>1, <3>2
  <2>13. WindowMatchesFile'
    <3>1. CASE f = FINALACK
      BY <2>4, <3>1 DEF WindowMatchesFile
    <3>2. CASE f # FINALACK
      <4>1. /\ Matches(recv_buffer', written')
            /\ \A g \in recv_buffer' : IsHead(recv_buffer', g) => g # FINALACK
        BY <2>4, <2>8, <3>2
      <4> QED BY <4>1 DEF WindowMatchesFile, Matches, IsHead
    <3> QED BY <3>1, <3>2
  <2>14. ~(fetching' /\ recv_buffer' = {})
    BY <2>4, <2>8
  <2> QED BY <1>2, <1>3, <2>9, <2>10, <2>11, <2>12, <2>13, <2>14, ReceiverFrame
<1> QED BY <1>5, <1>6

\* denied_handler preserves the inductive invariant.
LEMMA DeniedHandlerInv ==
  ASSUME IInv, DeniedHandler
  PROVE  IInv'
<1>1. PICK i \in DOMAIN toReceiver : ReceiverReceives(i)
  BY DEF DeniedHandler
<1>2. /\ toReceiver' \in Seq(ToReceiverPackets)
      /\ toReceiver \in Seq({DENIED, DATA(1)}) =>
           toReceiver' \in Seq({DENIED, DATA(1)})
  BY <1>1, ReceiverReceivesFact
<1>3. ReceiverTypeOK'
  BY DEF DeniedHandler, IInv, TypeOK, ReceiverTypeOK
<1>4. toSender' \in Seq(AckedPackets(written))
  BY AckedQueue DEF IInv, DeniedHandler
<1>5. UNCHANGED <<recv_buffer, written, complete, fetching, senderVars>>
  BY DEF DeniedHandler
<1> QED BY <1>2, <1>3, <1>4, <1>5, ReceiverIdle

\* The GET that may go out again at a timeout.
LEMMA GetAgainType ==
  ASSUME IInv,
         toSender' = IF pending_get THEN Transmit(toSender, sender, <<GET>>)
                     ELSE toSender
  PROVE  toSender' \in Seq(AckedPackets(written))
<1>1. toSender \in Seq(AckedPackets(written))
  BY AckedQueue DEF IInv
<1>2. GET \in AckedPackets(written)
  BY DEF AckedPackets
<1> QED BY <1>1, <1>2, TransmitType, SingletonType

\* A timeout of the receiver, which repeats a pending GET, preserves the inductive invariant.
LEMMA ReceiverTimeoutInv ==
  ASSUME IInv, ReceiverTimeout
  PROVE  IInv'
<1>1. /\ UNCHANGED <<receiver, recv_buffer, written, fetching, pending_get,
                     complete, senderVars, toReceiver>>
      /\ toSender' = IF pending_get THEN Transmit(toSender, sender, <<GET>>)
                     ELSE toSender
  BY DEF ReceiverTimeout
<1>2. /\ num_retransmits' \in 0..MAX_RETRANSMITS
      /\ ack_timeout_counter' \in 0..MAX_DATA_RETRANSMIT
  BY TransferAssumption DEF ReceiverTimeout, IInv, TypeOK, ReceiverTypeOK
<1>3. ReceiverTypeOK'
  BY <1>1, <1>2 DEF IInv, TypeOK, ReceiverTypeOK
<1>4. toSender' \in Seq(AckedPackets(written))
  BY <1>1, GetAgainType
<1>5. toReceiver' \in Seq(ToReceiverPackets)
  BY <1>1 DEF IInv, TypeOK
<1> QED BY <1>1, <1>3, <1>4, <1>5, ReceiverIdle

\* A receiver that gives the download up preserves the inductive invariant.
LEMMA ReceiverGivesUpInv ==
  ASSUME IInv, ReceiverGivesUp
  PROVE  IInv'
<1>1. /\ UNCHANGED <<receiver, written, complete, senderVars, toReceiver>>
      /\ toSender' = IF pending_get THEN Transmit(toSender, sender, <<GET>>)
                     ELSE toSender
      /\ fetching' = FALSE /\ pending_get' = FALSE /\ recv_buffer' = {}
      /\ num_retransmits' = 0 /\ ack_timeout_counter' = 0
  BY DEF ReceiverGivesUp, forget_sender
<1>2. ReceiverTypeOK'
  <2>1. 0 \in 0..MAX_RETRANSMITS /\ 0 \in 0..MAX_DATA_RETRANSMIT
    BY TransferAssumption
  <2> QED BY <1>1, <2>1 DEF IInv, TypeOK, ReceiverTypeOK
<1>3. toSender' \in Seq(AckedPackets(written))
  BY <1>1, GetAgainType
<1>4. toReceiver' \in Seq(ToReceiverPackets)
  BY <1>1 DEF IInv, TypeOK
<1> QED BY <1>1, <1>2, <1>3, <1>4, ReceiverIdle

\* A receiver that forgets the sender preserves the inductive invariant.
LEMMA ReceiverForgetsInv ==
  ASSUME IInv, ReceiverForgets
  PROVE  IInv'
<1>1. /\ UNCHANGED <<receiver, recv_buffer, written, complete, senderVars,
                     toSender, toReceiver>>
      /\ fetching' = FALSE /\ pending_get' = FALSE
      /\ num_retransmits' = 0 /\ ack_timeout_counter' = 0
  BY DEF ReceiverForgets, forget_sender
<1>2. ReceiverTypeOK'
  <2>1. 0 \in 0..MAX_RETRANSMITS /\ 0 \in 0..MAX_DATA_RETRANSMIT
    BY TransferAssumption
  <2> QED BY <1>1, <2>1 DEF IInv, TypeOK, ReceiverTypeOK
<1>3. toSender' \in Seq(AckedPackets(written))
  BY <1>1, AckedQueue DEF IInv
<1>4. toReceiver' \in Seq(ToReceiverPackets)
  BY <1>1 DEF IInv, TypeOK
<1> QED BY <1>1, <1>2, <1>3, <1>4, ReceiverIdle

\* The crash of the receiver preserves the inductive invariant.
LEMMA ReceiverCrashInv ==
  ASSUME IInv, ReceiverCrash
  PROVE  IInv'
<1>1. /\ UNCHANGED <<senderVars, recv_buffer, written, fetching, pending_get,
                     num_retransmits, ack_timeout_counter, complete, toSender>>
      /\ receiver' = "crashed" /\ toReceiver' = << >>
  BY DEF ReceiverCrash
<1>2. ReceiverTypeOK'
  BY <1>1 DEF IInv, TypeOK, ReceiverTypeOK
<1>3. toSender' \in Seq(AckedPackets(written))
  BY <1>1, AckedQueue DEF IInv
<1>4. toReceiver' \in Seq(ToReceiverPackets)
      /\ toReceiver' \in Seq({DENIED, DATA(1)})
  BY <1>1
<1> QED BY <1>1, <1>2, <1>3, <1>4, ReceiverIdle

\* The loss of a packet in the channel preserves the inductive invariant.
LEMMA LoseInv ==
  ASSUME IInv, Lose
  PROVE  IInv'
<1>1. /\ UNCHANGED <<senderVars, receiverVars>>
      /\ \/ /\ \E i \in DOMAIN toSender : toSender' = Without(toSender, i)
            /\ UNCHANGED toReceiver
         \/ /\ \E i \in DOMAIN toReceiver : toReceiver' = Without(toReceiver, i)
            /\ UNCHANGED toSender
  BY DEF Lose
<1>2. ReceiverTypeOK'
  BY <1>1 DEF IInv, TypeOK, ReceiverTypeOK, receiverVars
<1>3. toSender' \in Seq(AckedPackets(written))
  BY <1>1, AckedQueue, WithoutType DEF IInv
<1>4. /\ toReceiver' \in Seq(ToReceiverPackets)
      /\ toReceiver \in Seq({DENIED, DATA(1)}) =>
           toReceiver' \in Seq({DENIED, DATA(1)})
  BY <1>1, WithoutType DEF IInv, TypeOK
<1> QED BY <1>1, <1>2, <1>3, <1>4, ReceiverIdle DEF receiverVars

-----------------------------------------------------------------------------
(* The invariant.                                                          *)

\* The initial states satisfy the invariant: the GET is the only packet, and
\* nothing has been stored or sent.
LEMMA InitInv == Init => IInv
<1> SUFFICES ASSUME Init PROVE IInv
  OBVIOUS
<1>1. /\ sender = "up" /\ receiver = "up" /\ send_buffer = << >>
      /\ state = init_congestion_state
      /\ his_request = FALSE /\ curr_to = FALSE
      /\ last_ack = 0 /\ num_dupacks = 0 /\ last_seq = 0
      /\ num_data_retransmits = 0 /\ sender_retransmits \in SenderResidue
      /\ recv_buffer = {} /\ written = {}
      /\ fetching = TRUE /\ pending_get = TRUE /\ complete = FALSE
      /\ num_retransmits \in ReceiverResidue /\ ack_timeout_counter = 0
      /\ toSender = <<GET>> /\ toReceiver = << >>
  BY DEF Init, destroy_entries
<1>2. /\ 0 \in 0..FINALACK /\ 0 \in 0..2 /\ 0 \in 0..MAX_DATA_RETRANSMIT
      /\ sender_retransmits \in 0..MAX_RETRANSMITS
      /\ num_retransmits \in 0..MAX_RETRANSMITS
      /\ << >> \in Seq(Whole)
  BY <1>1, TransferAssumption
<1>3. SenderTypeOK /\ CongestionControlOK
  BY <1>1, <1>2, InitCongestion DEF SenderTypeOK, CongestionControlOK
<1>4. ReceiverTypeOK
  BY <1>1, <1>2 DEF ReceiverTypeOK
<1>5. toSender \in Seq(AckedPackets({}))
  BY <1>1, SingletonType DEF AckedPackets
<1>6. TypeOK /\ AckSound
  <2>1. /\ toSender \in Seq(ToSenderPackets)
        /\ \A i \in DOMAIN toSender : 1..toSender[i].num \subseteq {}
    BY <1>5, QueueAcked
  <2>2. 1..last_ack \subseteq written /\ toReceiver \in Seq(ToReceiverPackets)
    BY <1>1
  <2> QED BY <1>1, <1>3, <1>4, <2>1, <2>2 DEF TypeOK, AckSound
<1>7. CompleteIsWhole /\ FirstBlockFirst /\ WindowMatchesFile
  BY <1>1 DEF CompleteIsWhole, FirstBlockFirst, WindowMatchesFile
<1>8. IdleLastAck /\ SomethingToResend /\ TailIsLastSent
  BY <1>1 DEF IdleLastAck, SomethingToResend, TailIsLastSent
<1> QED BY <1>3, <1>6, <1>7, <1>8 DEF IInv

\* A step that changes nothing keeps the invariant.
LEMMA StutterInv ==
  ASSUME IInv, UNCHANGED vars
  PROVE  IInv'
<1>1. UNCHANGED <<senderVars, recv_buffer, written, complete, fetching>>
  BY DEF vars, receiverVars
<1>2. ReceiverTypeOK'
  BY DEF IInv, TypeOK, ReceiverTypeOK, vars, receiverVars
<1>3. toSender' \in Seq(AckedPackets(written))
  BY AckedQueue DEF IInv, vars
<1>4. UNCHANGED toReceiver /\ toReceiver' \in Seq(ToReceiverPackets)
  BY DEF IInv, TypeOK, vars
<1> QED BY <1>1, <1>2, <1>3, <1>4, ReceiverIdle

\* Every step of the two peers and of the network keeps the invariant.
LEMMA NextInv ==
  ASSUME IInv, [Next]_vars
  PROVE  IInv'
<1>1. CASE GetAccepted
  BY <1>1, GetAcceptedInv
<1>2. CASE GetDenied
  BY <1>2, GetDeniedInv
<1>3. CASE AckHandler
  BY <1>3, AckHandlerInv
<1>4. CASE AckWithoutWindow
  BY <1>4, SenderFaultsInv DEF AckWithoutWindow
<1>5. CASE DataHandler
  BY <1>5, DataHandlerInv
<1>6. CASE DeniedHandler
  BY <1>6, DeniedHandlerInv
<1>7. CASE SenderTimeout
  BY <1>7, SenderTimeoutInv
<1>8. CASE SenderGivesUp
  BY <1>8, SenderGivesUpInv
<1>9. CASE SenderForgets
  BY <1>9, SenderForgetsInv
<1>10. CASE ReceiverTimeout
  BY <1>10, ReceiverTimeoutInv
<1>11. CASE ReceiverGivesUp
  BY <1>11, ReceiverGivesUpInv
<1>12. CASE ReceiverForgets
  BY <1>12, ReceiverForgetsInv
<1>13. CASE Lose
  BY <1>13, LoseInv
<1>14. CASE SenderCrash
  BY <1>14, SenderCrashInv
<1>15. CASE ReceiverCrash
  BY <1>15, ReceiverCrashInv
<1>16. CASE UNCHANGED vars
  BY <1>16, StutterInv
<1> QED
  BY <1>1, <1>2, <1>3, <1>4, <1>5, <1>6, <1>7, <1>8, <1>9, <1>10, <1>11,
     <1>12, <1>13, <1>14, <1>15, <1>16
  DEF Next, Handle, SenderTimers, ReceiverTimers

\* The inductive invariant holds in every state of every behaviour.
THEOREM Invariance == Spec => []IInv
<1>1. IInv /\ [Next]_vars => IInv'
  BY NextInv
<1> QED BY InitInv, <1>1, PTL DEF Spec

\* The variables of the two peers and of the link keep to their types, and the
\* counters with a limit never pass it: the C variables of peer.c and
\* packet_handler.c, for every chunk length and every limit.
THEOREM TypeCorrect == Spec => []TypeOK
BY Invariance, PTL DEF IInv

\* The acks of find_ack, those on the link and the one the sender counts, cover
\* only blocks that are in the receiver's file.
THEOREM AcksAreSound == Spec => []AckSound
BY Invariance, PTL DEF IInv

\* data_handler reports a download complete only when every block of the chunk
\* was written.
THEOREM CompleteMeansWhole == Spec => []CompleteIsWhole
BY Invariance, PTL DEF IInv

\* While a request is served some packet that is not acknowledged is in the
\* send window: the timeout of peer_run never retransmits from an empty one.
THEOREM TimeoutHasPacket == Spec => []SomethingToResend
BY Invariance, PTL DEF IInv

\* The congestion window is never closed and never larger than MAXWIN.
THEOREM CongestionControlled == Spec => []CongestionControlOK
BY Invariance, PTL DEF IInv

\* The next ack of the receiver is neither too small nor too large: the head of
\* its window is the end of the blocks written without a gap.
THEOREM AcksAreLargest == Spec => []AckIsLargest
<1>1. IInv => AckIsLargest
  <2> SUFFICES ASSUME IInv, fetching, NEW h \in recv_buffer, IsHead(recv_buffer, h)
               PROVE  1..h \subseteq written /\ h + 1 \notin written
    BY DEF AckIsLargest
  <2>1. /\ 1..h \subseteq written /\ h + 1 \notin recv_buffer
        /\ written \subseteq (1..h) \cup recv_buffer
    BY DEF IInv, WindowMatchesFile
  <2>2. h \in Nat
    BY TransferAssumption DEF IInv, TypeOK, ReceiverTypeOK, Whole
  <2>3. h + 1 \notin 1..h
    BY <2>2
  <2> QED BY <2>1, <2>3
<1> QED BY Invariance, <1>1, PTL

\* A request that ends because of an ack (post_send_cleanup) ends with the whole
\* chunk in the receiver's file, and the receiver is not waiting any more.
THEOREM FinishedMeansStored == Spec => FinishedIsStored
<1>1. ASSUME IInv, Next, his_request, ~his_request', toSender' # toSender,
             sender' = sender
      PROVE  written = Whole /\ ~fetching
  <2>1. AckHandler
    <3>1. CASE GetAccepted \/ GetDenied
      BY <1>1, <3>1 DEF GetAccepted, GetDenied
    <3>2. CASE \/ AckWithoutWindow \/ SenderTimeout
               \/ SenderGivesUp \/ SenderForgets
      BY <1>1, <3>2
      DEF AckWithoutWindow, SenderFaults, SenderTimeout, SenderGivesUp,
          SenderForgets
    <3>3. CASE \/ DataHandler \/ DeniedHandler \/ ReceiverTimeout
               \/ ReceiverGivesUp \/ ReceiverForgets
      BY <1>1, <3>3
      DEF DataHandler, DeniedHandler, ReceiverTimeout, ReceiverGivesUp,
          ReceiverForgets, senderVars
    <3>4. CASE Lose \/ SenderCrash \/ ReceiverCrash
      BY <1>1, <3>4 DEF Lose, SenderCrash, ReceiverCrash, senderVars
    <3> QED BY <1>1, <3>1, <3>2, <3>3, <3>4 DEF Next, Handle, SenderTimers, ReceiverTimers
  <2>2. PICK i \in DOMAIN toSender :
          /\ SenderReceives(i) /\ toSender[i].type = "ACK"
          /\ \/ AckIgnored(toSender[i].num)
             \/ FinalAck(toSender[i].num)
             \/ TripleDupack(toSender[i].num)
             \/ AckAdvances(toSender[i].num)
    BY <2>1 DEF AckHandler
  <2>3. FinalAck(toSender[i].num)
    BY <1>1, <2>2 DEF AckIgnored, TripleDupack, AckAdvances
  <2>4. toSender[i] \in AckedPackets(written)
    BY <1>1, <2>2, SenderReceivesFact
  <2>5. PICK ack \in Whole : toSender[i] = ACK(ack) /\ 1..ack \subseteq written
    BY <2>2, <2>4 DEF AckedPackets, GET
  <2>6. Greatest(last_ack, ack) = FINALACK
    BY <2>3, <2>5 DEF FinalAck, ACK
  <2>7. 1..FINALACK \subseteq written /\ written \in SUBSET Whole
    BY <1>1, <2>5, <2>6
    DEF Greatest, IInv, AckSound, TypeOK, ReceiverTypeOK
  <2>8. written = Whole
    BY <2>7 DEF Whole
  <2>9. ~fetching
    <3>1. SUFFICES ASSUME fetching PROVE FALSE
      OBVIOUS
    <3>2. recv_buffer # {} /\ recv_buffer \in SUBSET Whole
      BY <1>1, <2>2, <3>1, NoAckYet DEF GET, IInv, TypeOK, ReceiverTypeOK
    <3>3. PICK h \in recv_buffer : IsHead(recv_buffer, h)
      BY <3>2, HeadExists
    <3>4. /\ h # FINALACK /\ h + 1 \notin recv_buffer
          /\ written \subseteq (1..h) \cup recv_buffer
      BY <1>1, <3>1, <3>3 DEF IInv, WindowMatchesFile
    <3>5. h \in 1..FINALACK /\ FINALACK \in Nat
      BY <3>2, TransferAssumption DEF Whole
    <3>6. h + 1 \in Whole /\ h + 1 \notin 1..h
      BY <3>4, <3>5 DEF Whole
    <3> QED BY <2>8, <3>4, <3>6
  <2> QED BY <2>8, <2>9
<1>2. IInv /\ [Next]_vars
        => [his_request /\ ~his_request' /\ toSender' # toSender
              /\ sender' = sender => written = Whole /\ ~fetching]_vars
  BY <1>1
<1> QED BY Invariance, <1>2, PTL DEF Spec, FinishedIsStored

-----------------------------------------------------------------------------
(* The send window is exact as long as no record of a receiver with its    *)
(* retransmissions used up is left from an earlier transfer: SenderForgets *)
(* is the one step that ends a request and keeps its packets.              *)

\* The packets from one past a to b, as the send window holds them.
LEMMA BurstIs ==
  ASSUME NEW a \in Nat, NEW b \in Nat, a <= b, NEW s \in Seq(Nat),
         Len(s) = b - a, \A i \in 1..(b - a) : s[i] = a + i
  PROVE  s = Burst(a + 1, b - a)
<1>1. s = [i \in 1..(b - a) |-> s[i]]
  OBVIOUS
<1>2. \A i \in 1..(b - a) : s[i] = a + 1 + i - 1
  OBVIOUS
<1> QED BY <1>1, <1>2 DEF Burst

\* A window without gaps is one of the packets past its ack: an ack of part of
\* it leaves the packets past the new one.
LEMMA BurstAcked ==
  ASSUME NEW a \in Nat, NEW b \in Nat, NEW c \in Nat, a <= c, c <= b
  PROVE  destroy_upto_ack(Burst(a + 1, b - a), c) = Burst(c + 1, b - c)
<1> DEFINE s == Burst(a + 1, b - a)
           t == destroy_upto_ack(s, c)
<1>1. /\ s \in Seq(Nat) /\ Len(s) = b - a
      /\ \A i \in 1..(b - a) : s[i] = a + i
  BY DEF Burst
<1> HIDE DEF s
<1>2. PICK g \in 1..(Len(s) + 1) :
        /\ destroy_upto_ack(s, c) = SubSeq(s, g, Len(s))
        /\ \A j \in 1..(g - 1) : s[j] <= c
        /\ g <= Len(s) => s[g] > c
  BY <1>1, FreedPrefix
<1>3. g = c - a + 1
  <2>1. g > 1 => a + (g - 1) <= c
    <3> SUFFICES ASSUME g > 1 PROVE a + (g - 1) <= c
      OBVIOUS
    <3>1. g - 1 \in 1..(g - 1) /\ g - 1 \in 1..(b - a)
      BY <1>1
    <3>2. s[g - 1] <= c /\ s[g - 1] = a + (g - 1)
      BY <1>1, <1>2, <3>1
    <3> QED BY <3>2
  <2>2. g <= b - a => a + g > c
    BY <1>1, <1>2
  <2> QED BY <1>1, <2>1, <2>2
<1>4. /\ t \in Seq(Nat) /\ Len(t) = b - c
      /\ \A i \in 1..(b - c) : t[i] = s[c - a + i]
  <2>1. \A i \in g..Len(s) : s[i] \in Nat
    BY <1>1, <1>3, ElementOfSeq
  <2>2. /\ t \in Seq(Nat)
        /\ Len(t) = Len(s) - g + 1
        /\ \A i \in 1..Len(t) : t[i] = s[g + i - 1]
    BY <1>1, <1>2, <1>3, <2>1, SubSeqProperties
  <2>3. Len(s) - g + 1 = b - c
    BY <1>1, <1>3
  <2>4. \A i \in 1..(b - c) : g + i - 1 = c - a + i
    BY <1>3
  <2> QED BY <2>2, <2>3, <2>4
<1>5. \A i \in 1..(b - c) : t[i] = c + i
  BY <1>1, <1>4
<1> HIDE DEF t
<1>6. t = Burst(c + 1, b - c)
  BY <1>4, <1>5, BurstIs
<1> QED BY <1>6 DEF s, t

\* The next packets after those of the window make one longer window.
LEMMA BurstExtended ==
  ASSUME NEW a \in Nat, NEW b \in Nat, a <= b, NEW n \in Nat
  PROVE  Burst(a + 1, b - a) \o Burst(b + 1, n) = Burst(a + 1, b + n - a)
<1> DEFINE s == Burst(a + 1, b - a)
           u == Burst(b + 1, n)
           t == s \o u
<1>1. /\ s \in Seq(Nat) /\ Len(s) = b - a
      /\ \A i \in 1..(b - a) : s[i] = a + i
      /\ u \in Seq(Nat) /\ Len(u) = n
      /\ \A i \in 1..n : u[i] = b + i
  BY DEF Burst
<1> HIDE DEF s, u
<1>2. /\ t \in Seq(Nat) /\ Len(t) = b + n - a
      /\ \A i \in 1..(b + n - a) : t[i] = IF i <= b - a THEN s[i] ELSE u[i - (b - a)]
  <2>1. /\ t \in Seq(Nat) /\ Len(t) = Len(s) + Len(u)
        /\ \A i \in 1..(Len(s) + Len(u)) : t[i] = IF i <= Len(s) THEN s[i] ELSE u[i - Len(s)]
    BY <1>1, ConcatProperties
  <2>2. Len(s) + Len(u) = b + n - a
    BY <1>1
  <2> HIDE DEF t
  <2> QED BY <1>1, <2>1, <2>2
<1>3. \A i \in 1..(b + n - a) : t[i] = a + i
  BY <1>1, <1>2
<1>4. b + n \in Nat /\ a <= b + n
  OBVIOUS
<1> HIDE DEF t
<1>5. t = Burst(a + 1, b + n - a)
  BY <1>2, <1>3, <1>4, BurstIs
<1> QED BY <1>5 DEF s, t, u

\* The window is exact and bounded, and no step can forget the receiver.
ExactInv == WindowIsExact /\ WindowBounded /\ sender_retransmits # MAX_RETRANSMITS

\* A step that leaves the send window and its two ends alone.
LEMMA ExactFrame ==
  ASSUME ExactInv,
         UNCHANGED <<send_buffer, his_request, last_ack, last_seq, sender_retransmits>>
  PROVE  ExactInv'
BY DEF ExactInv, WindowIsExact, WindowBounded

\* A request that ends leaves an empty window and no ack.
LEMMA ExactIdle ==
  ASSUME send_buffer' = << >>, his_request' = FALSE, last_ack' = 0,
         sender_retransmits' # MAX_RETRANSMITS
  PROVE  ExactInv'
BY MAXWINAssumption DEF ExactInv, WindowIsExact, WindowBounded

\* A request that starts sends the first packet, and only that one.
LEMMA GetAcceptedExact ==
  ASSUME IInv, ExactInv, GetAccepted
  PROVE  ExactInv'
<1>0. FINALACK \in Nat \ {0} /\ init_congestion_state.cwnd = 1
  BY TransferAssumption DEF init_congestion_state
<1>1. /\ UNCHANGED <<last_ack, sender_retransmits>> /\ his_request' = TRUE
      /\ send_next_data(init_congestion_state, 1, last_ack, send_buffer)
      /\ last_ack = 0 /\ send_buffer = << >>
  BY DEF GetAccepted, ExactInv, WindowIsExact
<1>2. PICK n \in 0..FINALACK : Sends(init_congestion_state, 1, last_ack, send_buffer, n)
  <2>1. 1 \in 1..(FINALACK + 1) /\ last_ack \in 0..FINALACK /\ send_buffer \in Seq(Whole)
    BY <1>0, <1>1
  <2> QED BY <1>1, <2>1, InitCongestion, SendNextDataFact
<1>3. n = 1
  BY <1>0, <1>1, <1>2 DEF Sends
<1>4. Burst(1, 1) \in Seq(Nat) /\ Len(Burst(1, 1)) = 1
  BY DEF Burst
<1>5. send_buffer' = Burst(1, 1) /\ last_seq' = 1
  <2>1. << >> \o Burst(1, 1) = Burst(1, 1)
    BY <1>4, ConcatEmptySeq
  <2> QED BY <1>1, <1>2, <1>3, <2>1 DEF Sends
<1>6. WindowIsExact'
  <2>1. Burst(0 + 1, 1 - 0) = Burst(1, 1)
    OBVIOUS
  <2> QED BY <1>1, <1>5, <2>1 DEF WindowIsExact
<1>7. WindowBounded'
  BY <1>4, <1>5, MAXWINAssumption DEF WindowBounded
<1> QED BY <1>1, <1>6, <1>7 DEF ExactInv

\* An ack that moves the window frees the packets up to it and appends the next.
LEMMA AckAdvancesExact ==
  ASSUME IInv, ExactInv, AckHandler, NEW ack \in Whole, AckAdvances(ack)
  PROVE  ExactInv'
<1>0. /\ FINALACK \in Nat \ {0} /\ ack \in 1..FINALACK
      /\ last_ack \in 0..FINALACK /\ last_seq \in 0..FINALACK
      /\ send_buffer \in Seq(Whole)
      /\ state \in CongestionStates /\ CongestionOK(state)
  BY TransferAssumption DEF IInv, TypeOK, SenderTypeOK, CongestionControlOK, Whole
<1>1. PICK acked : acked = Greatest(last_ack, ack)
  OBVIOUS
<1>2. PICK rest : rest = destroy_upto_ack(send_buffer, acked)
  OBVIOUS
<1>3. PICK cc : cc = slow_start(state)
  OBVIOUS
<1>4. /\ UNCHANGED <<his_request, sender_retransmits>>
      /\ send_next_data(cc, last_seq + 1, acked, rest)
      /\ last_ack' = acked
      /\ ack <= Tail1(send_buffer) /\ his_request
      /\ ~(last_seq = FINALACK /\ acked = FINALACK)
      /\ send_buffer # << >>
  BY <1>1, <1>2, <1>3 DEF AckHandler, AckAdvances, CountAck
<1>5. /\ last_ack < last_seq
      /\ send_buffer = Burst(last_ack + 1, last_seq - last_ack)
      /\ Len(send_buffer) <= MAXWIN
      /\ Tail1(send_buffer) = last_seq
  BY <1>4 DEF ExactInv, WindowIsExact, WindowBounded, IInv, TailIsLastSent
<1>6. acked \in 0..last_seq /\ last_ack <= acked
  BY <1>0, <1>1, <1>4, <1>5 DEF Greatest
<1>7. rest = Burst(acked + 1, last_seq - acked)
  <2>1. /\ last_ack \in Nat /\ last_seq \in Nat /\ acked \in Nat
        /\ last_ack <= acked /\ acked <= last_seq
    BY <1>0, <1>6
  <2>2. destroy_upto_ack(Burst(last_ack + 1, last_seq - last_ack), acked)
          = Burst(acked + 1, last_seq - acked)
    BY <2>1, BurstAcked
  <2> QED BY <1>2, <1>5, <2>2
<1>8. Len(rest) = last_seq - acked /\ Len(send_buffer) = last_seq - last_ack
  BY <1>0, <1>5, <1>6, <1>7 DEF Burst
<1>9. cc \in CongestionStates /\ CongestionOK(cc) /\ cc.cwnd \in 1..MAXWIN
  BY <1>0, <1>3, SlowStartOK DEF CongestionOK
<1>10. PICK n \in 0..FINALACK : Sends(cc, last_seq + 1, acked, rest, n)
  <2>1. last_seq + 1 \in 1..(FINALACK + 1) /\ acked \in 0..FINALACK /\ acked \in Nat
    BY <1>0, <1>6
  <2>2. rest \in Seq(Whole)
    BY <1>0, <1>2, <2>1, RestFact
  <2> QED BY <1>4, <1>9, <2>1, <2>2, SendNextDataFact
<1>11. send_buffer' = Burst(acked + 1, last_seq + n - acked)
  <2>1. send_buffer' = rest \o Burst(last_seq + 1, n)
    BY <1>10 DEF Sends
  <2>2. acked \in Nat /\ last_seq \in Nat /\ acked <= last_seq /\ n \in Nat
    BY <1>0, <1>6, <1>10
  <2>3. Burst(acked + 1, last_seq - acked) \o Burst(last_seq + 1, n)
          = Burst(acked + 1, last_seq + n - acked)
    BY <2>2, BurstExtended
  <2> QED BY <1>7, <2>1, <2>3
<1>12. last_seq' = last_seq + n
  <2>1. last_seq' = IF n = 0 THEN last_seq ELSE last_seq + 1 + n - 1
    BY <1>10 DEF Sends
  <2> QED BY <1>0, <1>10, <2>1
<1>13. acked < last_seq + n
  <2>1. CASE acked < last_seq
    BY <1>0, <1>6, <1>10, <2>1
  <2>2. CASE acked = last_seq
    <3>1. ~(last_seq + 1 > FINALACK)
      BY <1>0, <1>4, <2>2
    <3>2. ~(last_seq + 1 > acked + cc.cwnd) /\ Len(rest) # cc.cwnd
      BY <1>0, <1>8, <1>9, <2>2, MAXWINAssumption
    <3>3. n # 0
      BY <1>10, <3>1, <3>2 DEF Sends
    <3> QED BY <1>0, <1>10, <2>2, <3>3
  <2> QED BY <1>0, <1>6, <2>1, <2>2
<1>14. WindowIsExact'
  <2>1. his_request' /\ last_ack' < last_seq'
    BY <1>4, <1>12, <1>13
  <2>2. send_buffer' = Burst(last_ack' + 1, last_seq' - last_ack')
    <3>1. last_ack' = acked /\ last_seq' = last_seq + n
      BY <1>4, <1>12
    <3>2. last_ack' + 1 = acked + 1 /\ last_seq' - last_ack' = last_seq + n - acked
      BY <1>0, <1>6, <1>10, <3>1
    <3> QED BY <1>11, <3>2, Zenon
  <2> QED BY <2>1, <2>2 DEF WindowIsExact
<1>15. WindowBounded'
  <2>1. Len(send_buffer') = last_seq + n - acked
    BY <1>0, <1>6, <1>10, <1>11, <1>13 DEF Burst
  <2>2. CASE n = 0
    BY <1>0, <1>5, <1>6, <1>8, <2>1, <2>2, MAXWINAssumption DEF WindowBounded
  <2>3. CASE n # 0
    <3>1. last_seq + 1 + n - 1 <= acked + cc.cwnd
      BY <1>10, <2>3 DEF Sends
    <3> QED BY <1>0, <1>6, <1>9, <1>10, <2>1, <3>1, MAXWINAssumption DEF WindowBounded
  <2> QED BY <2>2, <2>3
<1> QED BY <1>4, <1>14, <1>15 DEF ExactInv

\* The four ways of ack_handler keep the window exact.
LEMMA AckHandlerExact ==
  ASSUME IInv, ExactInv, AckHandler
  PROVE  ExactInv'
<1>1. PICK i \in DOMAIN toSender :
        /\ SenderReceives(i) /\ toSender[i].type = "ACK"
        /\ \/ AckIgnored(toSender[i].num)
           \/ FinalAck(toSender[i].num)
           \/ TripleDupack(toSender[i].num)
           \/ AckAdvances(toSender[i].num)
  BY DEF AckHandler
<1>2. UNCHANGED sender_retransmits /\ sender_retransmits # MAX_RETRANSMITS
  BY DEF AckHandler, ExactInv
<1>3. toSender[i].num \in Whole
  <2>1. toSender[i] \in AckedPackets(written)
    BY <1>1, SenderReceivesFact
  <2> QED BY <1>1, <2>1 DEF AckedPackets, GET, ACK
<1>4. CASE AckIgnored(toSender[i].num)
  BY <1>2, <1>4, ExactFrame DEF AckIgnored
<1>5. CASE FinalAck(toSender[i].num)
  BY <1>2, <1>5, ExactIdle DEF FinalAck, post_send_cleanup, destroy_entries
<1>6. CASE TripleDupack(toSender[i].num)
  <2>1. /\ send_buffer' = destroy_upto_ack(send_buffer, last_ack)
        /\ UNCHANGED <<his_request, last_ack, last_seq>> /\ his_request
    BY <1>6 DEF TripleDupack
  <2>2. /\ last_ack \in Nat /\ last_seq \in Nat /\ last_ack < last_seq
        /\ send_buffer = Burst(last_ack + 1, last_seq - last_ack)
    BY <2>1, TransferAssumption
    DEF ExactInv, WindowIsExact, IInv, TypeOK, SenderTypeOK
  <2>3. destroy_upto_ack(send_buffer, last_ack) = send_buffer
    <3>1. last_ack <= last_ack /\ last_ack <= last_seq
      BY <2>2
    <3> QED BY <2>2, <3>1, BurstAcked
  <2> QED BY <1>2, <2>1, <2>3, ExactFrame
<1>7. CASE AckAdvances(toSender[i].num)
  BY <1>3, <1>7, AckAdvancesExact
<1> QED BY <1>1, <1>4, <1>5, <1>6, <1>7

\* The timeouts of the sender: the record of the receiver is never at its limit.
LEMMA SenderTimersExact ==
  ASSUME ExactInv, SenderTimers
  PROVE  ExactInv'
<1>1. CASE SenderTimeout
  BY <1>1, ExactFrame DEF SenderTimeout, SenderFaults
<1>2. CASE SenderGivesUp
  <2>1. 0 # MAX_RETRANSMITS
    BY TransferAssumption
  <2> QED BY <1>2, <2>1, ExactIdle DEF SenderGivesUp, forget_receiver, destroy_entries
<1>3. CASE SenderForgets
  BY <1>3 DEF SenderForgets, ExactInv
<1> QED BY <1>1, <1>2, <1>3 DEF SenderTimers

\* Every step keeps the window exact.
LEMMA NextExact ==
  ASSUME IInv, ExactInv, [Next]_vars
  PROVE  ExactInv'
<1>1. CASE GetAccepted
  BY <1>1, GetAcceptedExact
<1>2. CASE AckHandler
  BY <1>2, AckHandlerExact
<1>3. CASE SenderTimers
  BY <1>3, SenderTimersExact
<1>4. CASE GetDenied \/ AckWithoutWindow
  BY <1>4, ExactFrame DEF GetDenied, AckWithoutWindow, SenderFaults
<1>5. CASE DataHandler \/ DeniedHandler
  BY <1>5, ExactFrame DEF DataHandler, DeniedHandler, senderVars
<1>6. CASE ReceiverTimers
  BY <1>6, ExactFrame
  DEF ReceiverTimers, ReceiverTimeout, ReceiverGivesUp, ReceiverForgets, senderVars
<1>7. CASE Lose \/ SenderCrash \/ ReceiverCrash
  BY <1>7, ExactFrame DEF Lose, SenderCrash, ReceiverCrash, senderVars
<1>8. CASE UNCHANGED vars
  BY <1>8, ExactFrame DEF vars, senderVars
<1> QED
  BY <1>1, <1>2, <1>3, <1>4, <1>5, <1>6, <1>7, <1>8
  DEF Next, Handle, SenderTimers, ReceiverTimers

\* While a request is served the send window holds exactly the packets sent and
\* not acknowledged, in order (send_next_data, destroy_upto_ack), and it is
\* empty when none is, if no transfer starts with the retransmissions of the
\* receiver's record used up: peer_total_cleanup in peer_run then ends a later
\* request and leaves its packets behind.
THEOREM WindowExact ==
  ASSUME MAX_RETRANSMITS \notin SenderResidue
  PROVE  Spec => []WindowIsExact
<1>1. Init => ExactInv
  BY MAXWINAssumption
  DEF Init, destroy_entries, ExactInv, WindowIsExact, WindowBounded
<1>2. IInv /\ ExactInv /\ [Next]_vars => ExactInv'
  BY NextExact
<1>3. ExactInv => WindowIsExact
  BY DEF ExactInv
<1> QED BY Invariance, <1>1, <1>2, <1>3, PTL DEF Spec

\* No more than the largest congestion window is ever unacknowledged, even after
\* mult_decrease shrank the window below what had been sent, under the same
\* condition.
THEOREM WindowNeverOverrun ==
  ASSUME MAX_RETRANSMITS \notin SenderResidue
  PROVE  Spec => []WindowBounded
<1>1. Init => ExactInv
  BY MAXWINAssumption
  DEF Init, destroy_entries, ExactInv, WindowIsExact, WindowBounded
<1>2. IInv /\ ExactInv /\ [Next]_vars => ExactInv'
  BY NextExact
<1>3. ExactInv => WindowBounded
  BY DEF ExactInv
<1> QED BY Invariance, <1>1, <1>2, <1>3, PTL DEF Spec

\* Until the receiver has its first block nothing but block 1 was ever sent: a
\* GET opens a window of one packet (get_handler), and find_ack, which starts at
\* whatever entry the list starts with, is safe.
THEOREM BlockOneFirst == Spec => []FirstBlockFirst
BY Invariance, PTL DEF IInv

-----------------------------------------------------------------------------
(***************************************************************************)
(* The transfer implements ReliableDelivery: every step of the two peers   *)
(* and of the network is, for what ReliableDelivery sees, one of its steps *)
(* or none.  The invariant supplies what the steps rely on: an ack         *)
(* confirms only stored blocks, and a last chunk is reported only when it  *)
(* is whole.                                                               *)
(***************************************************************************)
\* The initial states of the transfer are initial states of the delivery.
LEMMA InitDelivers == Init => Delivery!Init
BY DEF Init, Delivery!Init

\* The steps that ReliableDelivery does not see.
LEMMA SilentSteps ==
  ASSUME IInv,
         \/ GetDenied \/ AckWithoutWindow \/ DeniedHandler
         \/ SenderTimeout \/ ReceiverTimeout
         \/ Lose \/ SenderCrash \/ ReceiverCrash
         \/ UNCHANGED vars
  PROVE  UNCHANGED Delivery!vars
<1>1. CASE GetDenied
  BY <1>1 DEF GetDenied, receiverVars, Delivery!vars
<1>2. CASE AckWithoutWindow
  BY <1>2 DEF AckWithoutWindow, SenderFaults, receiverVars, Delivery!vars
<1>3. CASE DeniedHandler
  BY <1>3 DEF DeniedHandler, senderVars, Delivery!vars
<1>4. CASE SenderTimeout
  BY <1>4 DEF SenderTimeout, SenderFaults, receiverVars, Delivery!vars
<1>5. CASE ReceiverTimeout
  BY <1>5 DEF ReceiverTimeout, senderVars, Delivery!vars
<1>6. CASE Lose
  BY <1>6 DEF Lose, senderVars, receiverVars, Delivery!vars
<1>7. CASE SenderCrash
  BY <1>7 DEF SenderCrash, receiverVars, Delivery!vars
<1>8. CASE ReceiverCrash
  BY <1>8 DEF ReceiverCrash, senderVars, Delivery!vars
<1>9. CASE UNCHANGED vars
  BY <1>9 DEF vars, senderVars, receiverVars, Delivery!vars
<1> QED BY <1>1, <1>2, <1>3, <1>4, <1>5, <1>6, <1>7, <1>8, <1>9

\* A GET that is accepted starts the service.
LEMMA AcceptServes ==
  ASSUME IInv, GetAccepted
  PROVE  Delivery!Serve
<1>1. ~his_request /\ his_request' = TRUE
      /\ UNCHANGED <<last_ack, receiverVars>>
  BY DEF GetAccepted
<1> QED BY <1>1 DEF Delivery!Serve, receiverVars

\* An ack is ignored, ends the service, or confirms blocks that are stored.
LEMMA AckConfirms ==
  ASSUME IInv, AckHandler
  PROVE  \/ Delivery!StopServing
         \/ \E n \in Whole : Delivery!Confirm(n)
         \/ UNCHANGED Delivery!vars
<1>1. PICK i \in DOMAIN toSender :
        /\ SenderReceives(i) /\ toSender[i].type = "ACK"
        /\ \/ AckIgnored(toSender[i].num)
           \/ FinalAck(toSender[i].num)
           \/ TripleDupack(toSender[i].num)
           \/ AckAdvances(toSender[i].num)
  BY DEF AckHandler
<1>2. toSender[i] \in AckedPackets(written)
  BY <1>1, SenderReceivesFact
<1>3. PICK ack \in Whole : toSender[i] = ACK(ack) /\ 1..ack \subseteq written
  BY <1>1, <1>2 DEF AckedPackets, GET
<1>4. toSender[i].num = ack
  BY <1>3 DEF ACK
<1>5. UNCHANGED <<written, fetching, complete>>
  BY DEF AckHandler, receiverVars
<1>6. CASE AckIgnored(ack)
  BY <1>5, <1>6 DEF AckIgnored, Delivery!vars
<1>7. CASE FinalAck(ack)
  <2>1. his_request /\ his_request' = FALSE /\ last_ack' = 0
    BY <1>7 DEF FinalAck, post_send_cleanup
  <2> QED BY <1>5, <2>1 DEF Delivery!StopServing
<1>8. CASE TripleDupack(ack)
  BY <1>5, <1>8 DEF TripleDupack, Delivery!vars
<1>9. CASE AckAdvances(ack)
  <2>1. his_request /\ his_request' = his_request
        /\ last_ack' = Greatest(last_ack, ack)
    BY <1>9 DEF AckAdvances, CountAck
  <2>2. ack \in Nat /\ last_ack \in Nat
    BY TransferAssumption DEF IInv, TypeOK, SenderTypeOK, Whole
  <2>3. CASE last_ack >= ack
    BY <1>5, <2>1, <2>3 DEF Greatest, Delivery!vars
  <2>4. CASE ~(last_ack >= ack)
    <3>1. last_ack' = ack /\ ack > last_ack
      BY <2>1, <2>2, <2>4 DEF Greatest
    <3>2. Delivery!Confirm(ack)
      BY <1>3, <1>5, <2>1, <3>1 DEF Delivery!Confirm
    <3> QED BY <3>2
  <2> QED BY <2>3, <2>4
<1> QED BY <1>1, <1>4, <1>6, <1>7, <1>8, <1>9

\* Either side that gives up stops, or had stopped before.
LEMMA GivingUpStops ==
  ASSUME IInv,
         \/ SenderGivesUp \/ SenderForgets
         \/ ReceiverGivesUp \/ ReceiverForgets
  PROVE  \/ Delivery!StopServing \/ Delivery!StopFetching
         \/ UNCHANGED Delivery!vars
<1>1. CASE SenderGivesUp \/ SenderForgets
  <2>1. /\ his_request' = FALSE /\ last_ack' = 0
        /\ UNCHANGED <<written, fetching, complete>>
    BY <1>1 DEF SenderGivesUp, SenderForgets, forget_receiver, receiverVars
  <2>2. CASE his_request
    BY <2>1, <2>2 DEF Delivery!StopServing
  <2>3. CASE ~his_request
    <3>1. last_ack = 0 /\ his_request = FALSE
      BY <2>3 DEF IInv, IdleLastAck, TypeOK, SenderTypeOK
    <3> QED BY <2>1, <3>1 DEF Delivery!vars
  <2> QED BY <2>2, <2>3
<1>2. CASE ReceiverGivesUp \/ ReceiverForgets
  <2>1. /\ fetching' = FALSE
        /\ UNCHANGED <<written, complete, his_request, last_ack>>
    BY <1>2 DEF ReceiverGivesUp, ReceiverForgets, forget_sender, senderVars
  <2>2. CASE fetching
    BY <2>1, <2>2 DEF Delivery!StopFetching
  <2>3. CASE ~fetching
    <3>1. fetching = FALSE
      BY <2>3 DEF IInv, TypeOK, ReceiverTypeOK
    <3> QED BY <2>1, <3>1 DEF Delivery!vars
  <2> QED BY <2>2, <2>3
<1> QED BY <1>1, <1>2

\* A data packet adds its block, and ends the fetching only when all blocks
\* are there.
LEMMA DataStores ==
  ASSUME IInv, IInv', DataHandler
  PROVE  \/ \E n \in Whole : Delivery!Store(n) \/ Delivery!StoreLast(n)
         \/ UNCHANGED Delivery!vars
<1>1. PICK i \in DOMAIN toReceiver :
        /\ ReceiverReceives(i) /\ toReceiver[i].type = "DATA"
        /\ IF fetching
             THEN /\ StoreAndAck(toReceiver[i].num)
                  /\ CompleteWith(toReceiver[i].num)
             ELSE UNCHANGED <<written, fetching, complete>>
  BY DEF DataHandler
<1>2. UNCHANGED <<his_request, last_ack>>
  BY DEF DataHandler, senderVars
<1>3. CASE ~fetching
  BY <1>1, <1>2, <1>3 DEF Delivery!vars
<1>4. CASE fetching
  <2>1. toReceiver[i] \in ToReceiverPackets
    BY <1>1, ReceiverReceivesFact
  <2>2. PICK n \in Whole : toReceiver[i].num = n
    BY <1>1, <2>1 DEF ToReceiverPackets, DENIED, DATA
  <2>3. PICK final \in BOOLEAN :
          /\ written' = written \cup {n}
          /\ fetching' = ~final /\ complete' = (complete \/ final)
    BY <1>1, <1>4, <2>2 DEF StoreAndAck, CompleteWith
  <2>4. CASE final
    <3>1. written' = 1..FINALACK
      BY <2>3, <2>4 DEF IInv, CompleteIsWhole, Whole
    <3>2. Delivery!StoreLast(n)
      BY <1>2, <1>4, <2>3, <2>4, <3>1 DEF Delivery!StoreLast, Delivery!Blocks
    <3> QED BY <3>2
  <2>5. CASE ~final
    <3>1. fetching = TRUE /\ complete \in BOOLEAN
      BY <1>4 DEF IInv, TypeOK, ReceiverTypeOK
    <3>2. Delivery!Store(n)
      BY <1>2, <1>4, <2>3, <2>5, <3>1 DEF Delivery!Store
    <3> QED BY <3>2
  <2> QED BY <2>4, <2>5
<1> QED BY <1>3, <1>4

\* Every step is a step of the delivery or one it does not see.
LEMMA StepDelivers ==
  ASSUME IInv, IInv', [Next]_vars
  PROVE  [Delivery!Next]_(Delivery!vars)
<1>1. Whole = Delivery!Blocks
  BY DEF Whole, Delivery!Blocks
<1>2. CASE GetAccepted
  BY <1>2, AcceptServes DEF Delivery!Next
<1>3. CASE AckHandler
  BY <1>1, <1>3, AckConfirms DEF Delivery!Next
<1>4. CASE DataHandler
  BY <1>1, <1>4, DataStores DEF Delivery!Next
<1>5. CASE \/ SenderGivesUp \/ SenderForgets
           \/ ReceiverGivesUp \/ ReceiverForgets
  BY <1>5, GivingUpStops DEF Delivery!Next
<1>6. CASE \/ GetDenied \/ AckWithoutWindow \/ DeniedHandler
           \/ SenderTimeout \/ ReceiverTimeout
           \/ Lose \/ SenderCrash \/ ReceiverCrash
           \/ UNCHANGED vars
  BY <1>6, SilentSteps
<1> QED BY <1>2, <1>3, <1>4, <1>5, <1>6 DEF Next, Handle, SenderTimers, ReceiverTimers

\* Whatever the network loses, repeats, reorders or delays, the transfer of a
\* chunk keeps the promise of ReliableDelivery.
THEOREM TransferDelivers == Spec => ImplementsDelivery
<1>1. IInv /\ IInv' /\ [Next]_vars => [Delivery!Next]_(Delivery!vars)
  BY StepDelivers
<1> QED
  BY InitDelivers, Invariance, <1>1, PTL DEF Spec, ImplementsDelivery, Delivery!Spec

\* While one request is served, what ack_handler takes as acknowledged never
\* shrinks, however late an ack arrives.
THEOREM AcksStay == Spec => AcksNeverUndone
<1>1. IInv /\ IInv' /\ [Next]_vars
        => [his_request /\ his_request' => last_ack' >= last_ack]_vars
  <2> SUFFICES ASSUME IInv, IInv', [Next]_vars, his_request, his_request'
               PROVE  last_ack' >= last_ack
    OBVIOUS
  <2>1. [Delivery!Next]_(Delivery!vars)
    BY StepDelivers
  <2>2. last_ack' = last_ack \/ last_ack' > last_ack
    BY <2>1
    DEF Delivery!Next, Delivery!Serve, Delivery!Store, Delivery!StoreLast,
        Delivery!Confirm, Delivery!StopServing, Delivery!StopFetching,
        Delivery!vars
  <2>3. last_ack \in Nat /\ last_ack' \in Nat
    BY TransferAssumption DEF IInv, TypeOK, SenderTypeOK
  <2> QED BY <2>2, <2>3
<1> QED BY Invariance, <1>1, PTL DEF Spec, AcksNeverUndone
=============================================================================
