---------------------------- MODULE PromptProofs -----------------------------
(***************************************************************************)
(* The sender of PromptTransfer never reads an empty send window, for      *)
(* every chunk length, window, limit and queue, as long as the network     *)
(* neither reorders nor duplicates packets.                                *)
(*                                                                         *)
(* The send window is emptied by the last ack and by a sender that gives   *)
(* up.  The last ack is behind every other ack, because the receiver is    *)
(* done when it sends it; and a sender gives up when nothing is on its     *)
(* way, so that no ack is left that could find the empty window.           *)
(***************************************************************************)
EXTENDS PromptTransfer, ChunkTransferProofs

FINAL == ACK(FINALACK)

\* When the send window is empty no ack can reach it: none is on its way, nor
\* a data packet that the receiver would still acknowledge.
NothingForEmptyWindow ==
  send_buffer = << >> => /\ toSender \in Seq({GET})
                         /\ (fetching => toReceiver \in Seq({DENIED}))

\* The last ack is sent when the receiver is done, and behind it in the queue
\* q come GETs only.
NoFinal(q) == q \in Seq(ToSenderPackets \ {FINAL})
OnlyGetsBehindFinal(q) ==
  \A i, j \in DOMAIN q : i < j /\ q[i] = FINAL => q[j] = GET

PromptInv ==
  /\ IInv
  /\ sender # "segv" /\ last_ack < FINALACK
  /\ NothingForEmptyWindow
  /\ fetching => NoFinal(toSender)
  /\ OnlyGetsBehindFinal(toSender)

-----------------------------------------------------------------------------
(* Queues without reordering and duplication.                              *)

\* The packets that stay on a queue when one leaves it (Without).
LEMMA WithoutIs ==
  ASSUME NEW S, NEW q \in Seq(S), NEW m \in DOMAIN q
  PROVE  /\ Len(Without(q, m)) = Len(q) - 1
         /\ \A i \in 1..(Len(q) - 1) :
              Without(q, m)[i] = IF i < m THEN q[i] ELSE q[i + 1]
<1>1. m \in 1..Len(q) /\ Len(q) \in Nat
  OBVIOUS
<1> DEFINE u == SubSeq(q, 1, m - 1)
           v == SubSeq(q, m + 1, Len(q))
<1>2. /\ u \in Seq(S) /\ Len(u) = m - 1
      /\ \A i \in 1..(m - 1) : u[i] = q[i]
  <2>1. \A i \in 1..(m - 1) : q[i] \in S
    BY <1>1, ElementOfSeq
  <2>2. /\ u \in Seq(S)
        /\ Len(u) = IF 1 <= m - 1 THEN (m - 1) - 1 + 1 ELSE 0
        /\ \A i \in 1..Len(u) : u[i] = q[1 + i - 1]
    BY <1>1, <2>1, SubSeqProperties
  <2> QED BY <1>1, <2>2
<1>3. /\ v \in Seq(S) /\ Len(v) = Len(q) - m
      /\ \A i \in 1..(Len(q) - m) : v[i] = q[m + i]
  <2>1. \A i \in (m + 1)..Len(q) : q[i] \in S
    BY <1>1, ElementOfSeq
  <2>2. /\ v \in Seq(S)
        /\ Len(v) = IF m + 1 <= Len(q) THEN Len(q) - (m + 1) + 1 ELSE 0
        /\ \A i \in 1..Len(v) : v[i] = q[m + 1 + i - 1]
    <3> DEFINE first == m + 1
    <3>1. first \in Nat /\ Len(q) \in Nat /\ first = m + 1
      BY <1>1
    <3> HIDE DEF first
    <3> QED BY <2>1, <3>1, SubSeqProperties
  <2>3. Len(v) = Len(q) - m
    BY <1>1, <2>2
  <2>4. \A i \in 1..Len(v) : m + 1 + i - 1 = m + i
    BY <1>1, <2>3
  <2> HIDE DEF v
  <2> QED BY <2>2, <2>3, <2>4
<1> HIDE DEF u, v
<1>4. /\ Len(u \o v) = Len(u) + Len(v)
      /\ \A i \in 1..(Len(u) + Len(v)) :
           (u \o v)[i] = IF i <= Len(u) THEN u[i] ELSE v[i - Len(u)]
  BY <1>2, <1>3, ConcatProperties
<1>5. Without(q, m) = u \o v
  BY DEF Without, u, v
<1>6. ASSUME NEW i \in 1..(Len(q) - 1)
      PROVE  (u \o v)[i] = IF i < m THEN q[i] ELSE q[i + 1]
  <2>1. (u \o v)[i] = IF i <= Len(u) THEN u[i] ELSE v[i - Len(u)]
    <3>1. i \in 1..(Len(u) + Len(v))
      BY <1>1, <1>2, <1>3
    <3> QED BY <1>4, <3>1
  <2> QED BY <1>1, <1>2, <1>3, <2>1
<1>7. Len(u \o v) = Len(q) - 1
  BY <1>1, <1>2, <1>3, <1>4
<1> QED BY <1>5, <1>6, <1>7

\* The order of the acks on a queue survives the loss or the delivery of one.
LEMMA FinalWithout ==
  ASSUME NEW q \in Seq(ToSenderPackets), OnlyGetsBehindFinal(q), NEW m \in DOMAIN q
  PROVE  OnlyGetsBehindFinal(Without(q, m))
<1> DEFINE r == Without(q, m)
<1>1. /\ Len(r) = Len(q) - 1 /\ r \in Seq(ToSenderPackets)
      /\ \A i \in 1..(Len(q) - 1) : r[i] = IF i < m THEN q[i] ELSE q[i + 1]
  BY WithoutIs, WithoutType
<1>2. DOMAIN r = 1..(Len(q) - 1) /\ DOMAIN q = 1..Len(q) /\ Len(q) \in Nat
  BY <1>1
<1> HIDE DEF r
<1> SUFFICES ASSUME NEW i \in DOMAIN r, NEW j \in DOMAIN r, i < j, r[i] = FINAL
             PROVE  r[j] = GET
  BY DEF OnlyGetsBehindFinal, r
<1> DEFINE k == IF i < m THEN i ELSE i + 1
           l == IF j < m THEN j ELSE j + 1
<1>3. r[i] = q[k] /\ r[j] = q[l]
  BY <1>1, <1>2
<1>4. k \in DOMAIN q /\ l \in DOMAIN q /\ k < l
  BY <1>2
<1> HIDE DEF k, l
<1> QED BY <1>3, <1>4 DEF OnlyGetsBehindFinal

\* ... and a packet that joins the queue: a GET, or anything as long as the
\* last ack is not there.
LEMMA FinalTransmit ==
  ASSUME NEW q \in Seq(ToSenderPackets), OnlyGetsBehindFinal(q),
         NEW p \in ToSenderPackets, p = GET \/ NoFinal(q), NEW status
  PROVE  OnlyGetsBehindFinal(Transmit(q, status, <<p>>))
<1> DEFINE s == q \o <<p>>
           r == Transmit(q, status, <<p>>)
<1>1. /\ s \in Seq(ToSenderPackets) /\ Len(s) = Len(q) + 1
      /\ \A i \in 1..Len(q) : s[i] = q[i]
      /\ s[Len(q) + 1] = p
      /\ DOMAIN q = 1..Len(q) /\ Len(q) \in Nat
  OBVIOUS
<1>2. OnlyGetsBehindFinal(s)
  <2> HIDE DEF s
  <2> SUFFICES ASSUME NEW i \in DOMAIN s, NEW j \in DOMAIN s, i < j, s[i] = FINAL
               PROVE  s[j] = GET
    BY DEF OnlyGetsBehindFinal
  <2>1. i \in 1..Len(q) /\ j \in 1..(Len(q) + 1) /\ q[i] = FINAL
    BY <1>1
  <2>2. CASE j \in 1..Len(q)
    BY <1>1, <2>1, <2>2 DEF OnlyGetsBehindFinal
  <2>3. CASE j = Len(q) + 1
    <3>1. ~NoFinal(q)
      BY <1>1, <2>1, ElementOfSeq DEF NoFinal
    <3> QED BY <1>1, <2>3, <3>1
  <2> QED BY <1>1, <2>1, <2>2, <2>3
<1>3. \/ r = q \/ r = s
      \/ (r = SubSeq(s, 1, QueueMax) /\ QueueMax < Len(s))
  <2>1. Len(<<p>>) = 1
    OBVIOUS
  <2>2. r = q \/ r = enQ(q, <<p>>)
    BY DEF Transmit
  <2>3. enQ(q, <<p>>) = IF Len(q) + 1 <= QueueMax THEN s ELSE SubSeq(s, 1, QueueMax)
    BY <2>1 DEF enQ
  <2>4. Len(q) + 1 <= QueueMax \/ QueueMax < Len(s)
    BY <1>1, HubAssumption
  <2> HIDE DEF r, s
  <2> QED BY <2>2, <2>3, <2>4
<1>4. CASE r = SubSeq(s, 1, QueueMax) /\ QueueMax < Len(s)
  <2> HIDE DEF s
  <2>1. /\ r \in Seq(ToSenderPackets) /\ Len(r) = QueueMax
        /\ \A i \in 1..QueueMax : r[i] = s[i]
    <3>1. \A i \in 1..QueueMax : s[i] \in ToSenderPackets
      BY <1>1, <1>4, HubAssumption, ElementOfSeq
    <3>2. /\ SubSeq(s, 1, QueueMax) \in Seq(ToSenderPackets)
          /\ Len(SubSeq(s, 1, QueueMax)) = IF 1 <= QueueMax THEN QueueMax - 1 + 1 ELSE 0
          /\ \A i \in 1..Len(SubSeq(s, 1, QueueMax)) : SubSeq(s, 1, QueueMax)[i] = s[1 + i - 1]
      BY <1>1, <1>4, <3>1, HubAssumption, SubSeqProperties
    <3> QED BY <1>4, <3>2, HubAssumption
  <2>2. DOMAIN r = 1..QueueMax /\ 1..QueueMax \subseteq DOMAIN s
    BY <1>1, <1>4, <2>1, HubAssumption
  <2> HIDE DEF r
  <2>3. OnlyGetsBehindFinal(r)
    BY <1>2, <2>1, <2>2 DEF OnlyGetsBehindFinal
  <2> QED BY <2>3 DEF r
<1> QED BY <1>2, <1>3, <1>4

\* What a GET leaves of the queue of a network that keeps the order.
LEMMA InOrder ==
  ASSUME Faults \cap {"reorder", "duplicate"} = {},
         NEW S, NEW q \in Seq(S), NEW i \in Deliverable(q), NEW r \in AfterDelivery(q, i)
  PROVE  /\ i = 1 /\ 1 \in DOMAIN q /\ r = Without(q, 1)
         /\ r \in Seq(S)
BY WithoutType DEF Deliverable, AfterDelivery

-----------------------------------------------------------------------------
(* The steps.                                                              *)

\* What a step that leaves the sender's acks alone has to establish.
LEMMA PromptFrame ==
  ASSUME PromptInv, IInv', UNCHANGED sender, last_ack' = last_ack \/ last_ack' = 0,
         NothingForEmptyWindow',
         fetching' => fetching /\ NoFinal(toSender'),
         OnlyGetsBehindFinal(toSender')
  PROVE  PromptInv'
<1>1. last_ack' < FINALACK
  BY TransferAssumption DEF PromptInv
<1>2. sender' # "segv"
  BY DEF PromptInv
<1>3. (OnlyGetsBehindFinal(toSender))' <=> OnlyGetsBehindFinal(toSender')
  BY DEF OnlyGetsBehindFinal
<1>4. (NoFinal(toSender))' <=> NoFinal(toSender')
  BY DEF NoFinal
<1> QED BY <1>1, <1>2, <1>3, <1>4 DEF PromptInv

\* A packet that leaves the queue of the sender leaves it in order.
LEMMA ToSenderShrinks ==
  ASSUME PromptInv, NEW m \in DOMAIN toSender, toSender' = Without(toSender, m)
  PROVE  /\ OnlyGetsBehindFinal(toSender')
         /\ fetching => NoFinal(toSender')
         /\ toSender \in Seq({GET}) => toSender' \in Seq({GET})
<1>1. toSender \in Seq(ToSenderPackets)
  BY DEF PromptInv, IInv, TypeOK
<1>2. OnlyGetsBehindFinal(toSender')
  BY <1>1, FinalWithout DEF PromptInv
<1>3. ASSUME NEW S, toSender \in Seq(S) PROVE toSender' \in Seq(S)
  BY <1>3, WithoutType
<1> QED BY <1>2, <1>3 DEF PromptInv, NoFinal

\* While a request is served, the window is not empty.
LEMMA ServedWindow ==
  ASSUME IInv, his_request
  PROVE  send_buffer # << >>
BY DEF IInv, SomethingToResend

\* get_handler.
LEMMA GetPrompt ==
  ASSUME Faults \cap {"reorder", "duplicate"} = {},
         PromptInv, IInv', GetAccepted \/ GetDenied
  PROVE  PromptInv'
<1>1. PICK i \in DOMAIN toSender : SenderReceives(i)
  BY DEF GetAccepted, GetDenied
<1>2. toSender \in Seq(ToSenderPackets)
  BY DEF PromptInv, IInv, TypeOK
<1>3. 1 \in DOMAIN toSender /\ toSender' = Without(toSender, 1)
  BY <1>1, <1>2, InOrder DEF SenderReceives
<1>4. /\ UNCHANGED <<sender, last_ack, fetching>> /\ his_request'
  BY DEF GetAccepted, GetDenied, receiverVars
<1>5. NothingForEmptyWindow'
  BY <1>4, ServedWindow DEF NothingForEmptyWindow, IInv, SomethingToResend
<1> QED BY <1>3, <1>4, <1>5, ToSenderShrinks, PromptFrame

\* An ack that finds its request served: only the last one empties the window,
\* and nothing else is behind it.
LEMMA AckPrompt ==
  ASSUME Faults \cap {"reorder", "duplicate"} = {},
         PromptInv, IInv', AckHandler
  PROVE  PromptInv'
<1>1. PICK i \in DOMAIN toSender :
        /\ SenderReceives(i) /\ toSender[i].type = "ACK"
        /\ \/ AckIgnored(toSender[i].num)
           \/ FinalAck(toSender[i].num)
           \/ TripleDupack(toSender[i].num)
           \/ AckAdvances(toSender[i].num)
  BY DEF AckHandler
<1>2. /\ toSender \in Seq(ToSenderPackets) /\ IInv /\ last_ack < FINALACK
      /\ last_ack \in 0..FINALACK /\ last_seq \in 0..FINALACK
      /\ FINALACK \in Nat \ {0}
  BY TransferAssumption DEF PromptInv, IInv, TypeOK, SenderTypeOK
<1>3. i = 1 /\ toSender' = Without(toSender, 1)
  BY <1>1, <1>2, InOrder DEF SenderReceives
<1>4. UNCHANGED <<sender, fetching>> /\ send_buffer # << >>
  BY DEF AckHandler, receiverVars
<1>5. PICK ack \in Whole : toSender[1] = ACK(ack)
  <2>1. toSender[1] \in ToSenderPackets
    BY <1>1, <1>2, <1>3, ElementOfSeq
  <2> QED BY <1>1, <1>3, <2>1 DEF ToSenderPackets, GET
<1>6. toSender[1].num = ack /\ ack \in 1..FINALACK
  BY <1>5 DEF ACK, Whole
<1>7. CASE AckIgnored(ack)
  <2>1. UNCHANGED <<send_buffer, last_ack>>
    BY <1>7 DEF AckIgnored
  <2>2. NothingForEmptyWindow'
    BY <1>4, <2>1 DEF NothingForEmptyWindow
  <2> QED BY <1>1, <1>3, <1>4, <2>1, <2>2, ToSenderShrinks, PromptFrame
<1>8. CASE TripleDupack(ack)
  <2>1. UNCHANGED last_ack /\ his_request'
    BY <1>8 DEF TripleDupack
  <2>2. NothingForEmptyWindow'
    BY <2>1 DEF NothingForEmptyWindow, IInv, SomethingToResend
  <2> QED BY <1>1, <1>3, <1>4, <2>1, <2>2, ToSenderShrinks, PromptFrame
<1>9. CASE AckAdvances(ack)
  <2>1. /\ last_ack' = Greatest(last_ack, ack) /\ his_request'
        /\ ack <= Tail1(send_buffer)
        /\ ~(last_seq = FINALACK /\ Greatest(last_ack, ack) = FINALACK)
    BY <1>9 DEF AckAdvances, CountAck
  <2>2. Tail1(send_buffer) = last_seq
    BY <1>2, <1>4 DEF IInv, TailIsLastSent
  <2>3. last_ack' < FINALACK
    BY <1>2, <1>6, <2>1, <2>2 DEF Greatest
  <2>4. NothingForEmptyWindow'
    BY <2>1 DEF NothingForEmptyWindow, IInv, SomethingToResend
  <2>5. OnlyGetsBehindFinal(toSender') /\ (fetching => NoFinal(toSender'))
    BY <1>1, <1>3, ToSenderShrinks
  <2> QED BY <1>4, <2>3, <2>4, <2>5 DEF PromptInv, OnlyGetsBehindFinal, NoFinal
<1>10. CASE FinalAck(ack)
  <2>1. /\ Greatest(last_ack, ack) = FINALACK
        /\ send_buffer' = << >> /\ last_ack' = 0
    BY <1>10 DEF FinalAck, post_send_cleanup, destroy_entries
  <2>2. ack = FINALACK
    BY <1>2, <1>6, <2>1 DEF Greatest
  <2>3. ~fetching
    <3>1. ~NoFinal(toSender)
      BY <1>1, <1>3, <1>5, <2>2, ElementOfSeq DEF NoFinal, FINAL
    <3> QED BY <3>1 DEF PromptInv
  <2>4. toSender' \in Seq({GET})
    <3>1. /\ toSender' \in Seq(ToSenderPackets)
          /\ Len(toSender') = Len(toSender) - 1
          /\ \A j \in 1..(Len(toSender) - 1) : toSender'[j] = toSender[j + 1]
      BY <1>1, <1>2, <1>3, WithoutIs, WithoutType
    <3>2. ASSUME NEW j \in 1..Len(toSender')
          PROVE  toSender'[j] = GET
      <4>1. j + 1 \in DOMAIN toSender /\ 1 < j + 1 /\ 1 \in DOMAIN toSender
        BY <1>2, <3>1
      <4>2. toSender[j + 1] = GET
        BY <1>5, <2>2, <4>1 DEF PromptInv, OnlyGetsBehindFinal, FINAL
      <4> QED BY <1>2, <3>1, <4>2
    <3> QED BY <3>1, <3>2
  <2>5. NothingForEmptyWindow'
    BY <1>4, <2>3, <2>4 DEF NothingForEmptyWindow
  <2> QED BY <1>1, <1>3, <1>4, <2>1, <2>5, ToSenderShrinks, PromptFrame
<1> QED BY <1>1, <1>3, <1>6, <1>7, <1>8, <1>9, <1>10

\* No ack finds the send window empty.
LEMMA WindowForAck ==
  ASSUME Faults \cap {"reorder", "duplicate"} = {}, PromptInv
  PROVE  ~AckWithoutWindow
<1> SUFFICES ASSUME AckWithoutWindow PROVE FALSE
  OBVIOUS
<1>1. PICK i \in DOMAIN toSender : toSender[i].type = "ACK"
  BY DEF AckWithoutWindow, Deliverable
<1>2. toSender \in Seq({GET})
  BY DEF AckWithoutWindow, PromptInv, NothingForEmptyWindow
<1>3. toSender[i] = GET
  BY <1>1, <1>2, ElementOfSeq
<1> QED BY <1>1, <1>3 DEF GET

\* The ack of a data packet is one of the blocks of the chunk.
LEMMA AckOfBlock ==
  ASSUME NEW rb \in SUBSET Whole, NEW seq \in Whole
  PROVE  find_ack(insert_entry(rb, seq)) \in Whole
<1> DEFINE rb2 == insert_entry(rb, seq)
<1>1. rb2 \in SUBSET Whole /\ rb2 # {}
  BY DEF insert_entry
<1> HIDE DEF rb2
<1>2. PICK h \in rb2 : IsHead(rb2, h)
  BY <1>1, HeadExists
<1>3. find_ack(rb2) \in rb2
  BY <1>1, <1>2, FindAck, TransferAssumption DEF Whole
<1> QED BY <1>1, <1>3 DEF rb2

\* data_handler: an ack leaves only for a window that is not empty, and the last
\* one leaves when the receiver is done.
LEMMA DataPrompt ==
  ASSUME Faults \cap {"reorder", "duplicate"} = {},
         PromptInv, IInv', DataHandler
  PROVE  PromptInv'
<1>1. PICK i \in DOMAIN toReceiver :
        /\ ReceiverReceives(i) /\ toReceiver[i].type = "DATA"
        /\ IF fetching
             THEN /\ StoreAndAck(toReceiver[i].num)
                  /\ CompleteWith(toReceiver[i].num)
             ELSE UNCHANGED <<toSender, fetching>>
  BY DEF DataHandler
<1>2. UNCHANGED <<sender, last_ack, send_buffer>>
  BY DEF DataHandler, senderVars
<1>3. /\ toSender \in Seq(ToSenderPackets) /\ toReceiver \in Seq(ToReceiverPackets)
      /\ recv_buffer \in SUBSET Whole
  BY DEF PromptInv, IInv, TypeOK, ReceiverTypeOK
<1>4. i \in Deliverable(toReceiver) /\ toReceiver' \in AfterDelivery(toReceiver, i)
  BY <1>1 DEF ReceiverReceives
<1>5. CASE fetching
  <2>1. send_buffer # << >>
    <3>1. toReceiver \notin Seq({DENIED})
      BY <1>1, ElementOfSeq DEF DENIED
    <3> QED BY <1>5, <3>1 DEF PromptInv, NothingForEmptyWindow
  <2>2. PICK seq \in Whole : toReceiver[i] = DATA(seq)
    <3>1. toReceiver[i] \in ToReceiverPackets
      BY <1>3, ElementOfSeq
    <3> QED BY <1>1, <3>1 DEF ToReceiverPackets, DENIED
  <2>3. PICK f \in Whole : f = find_ack(insert_entry(recv_buffer, seq))
    BY <1>3, AckOfBlock
  <2>4. /\ toSender' = Transmit(toSender, sender, <<ACK(f)>>)
        /\ fetching' = (f # FINALACK)
    BY <1>1, <1>5, <2>2, <2>3 DEF DATA, StoreAndAck, CompleteWith
  <2>5. ACK(f) \in ToSenderPackets /\ NoFinal(toSender)
    BY <1>5 DEF ToSenderPackets, PromptInv
  <2>6. OnlyGetsBehindFinal(toSender')
    BY <1>3, <2>4, <2>5, FinalTransmit DEF PromptInv
  <2>7. fetching' => fetching /\ NoFinal(toSender')
    <3> SUFFICES ASSUME fetching' PROVE NoFinal(toSender')
      BY <1>5
    <3>1. ACK(f) \in ToSenderPackets \ {FINAL}
      <4>1. f # FINALACK
        BY <2>4
      <4>2. ACK(f).num = f /\ ACK(FINALACK).num = FINALACK
        BY DEF ACK
      <4> QED BY <2>5, <4>1, <4>2 DEF FINAL
    <3> QED BY <2>4, <2>5, <3>1, TransmitType, SingletonType DEF NoFinal
  <2>8. NothingForEmptyWindow'
    BY <1>2, <2>1 DEF NothingForEmptyWindow
  <2> QED BY <1>2, <2>6, <2>7, <2>8, PromptFrame
<1>6. CASE ~fetching
  <2>1. UNCHANGED <<toSender, fetching>>
    BY <1>1, <1>6
  <2>2. NothingForEmptyWindow'
    BY <1>2, <1>6, <2>1 DEF PromptInv, NothingForEmptyWindow
  <2>3. OnlyGetsBehindFinal(toSender')
    BY <2>1 DEF PromptInv, OnlyGetsBehindFinal
  <2> QED BY <1>2, <1>6, <2>1, <2>2, <2>3, PromptFrame
<1> QED BY <1>5, <1>6

\* A step that leaves both queues as they are or without a packet, and does not
\* touch the sender.
LEMMA ShrinkPrompt ==
  ASSUME PromptInv, IInv', UNCHANGED senderVars, fetching' => fetching,
         \/ UNCHANGED toSender
         \/ \E m \in DOMAIN toSender : toSender' = Without(toSender, m),
         \/ UNCHANGED toReceiver \/ toReceiver' = << >>
         \/ \E m \in DOMAIN toReceiver : toReceiver' = Without(toReceiver, m)
  PROVE  PromptInv'
<1>1. UNCHANGED <<sender, last_ack, send_buffer>>
  BY DEF senderVars
<1>2. /\ OnlyGetsBehindFinal(toSender')
      /\ fetching => NoFinal(toSender')
      /\ toSender \in Seq({GET}) => toSender' \in Seq({GET})
  BY ToSenderShrinks DEF PromptInv, OnlyGetsBehindFinal, NoFinal
<1>3. toReceiver \in Seq({DENIED}) => toReceiver' \in Seq({DENIED})
  <2>1. CASE toReceiver' = << >>
    <3>1. << >> \in Seq({DENIED})
      OBVIOUS
    <3> QED BY <2>1, <3>1
  <2>3. CASE UNCHANGED toReceiver
    BY <2>3
  <2>2. CASE \E m \in DOMAIN toReceiver : toReceiver' = Without(toReceiver, m)
    BY <2>2, WithoutType
  <2> QED BY <2>1, <2>2, <2>3
<1>4. NothingForEmptyWindow'
  BY <1>1, <1>2, <1>3 DEF PromptInv, NothingForEmptyWindow
<1> QED BY <1>1, <1>2, <1>4, PromptFrame

\* A crash of the sender empties its queue.
LEMMA CrashPrompt ==
  ASSUME PromptInv, IInv', SenderCrash
  PROVE  PromptInv'
<1>1. /\ sender' = "crashed" /\ toSender' = << >>
      /\ UNCHANGED <<send_buffer, last_ack, fetching, toReceiver>>
  BY DEF SenderCrash, receiverVars
<1>2. NothingForEmptyWindow'
  BY <1>1 DEF PromptInv, NothingForEmptyWindow
<1>3. (fetching => NoFinal(toSender))' /\ OnlyGetsBehindFinal(toSender)'
  BY <1>1 DEF NoFinal, OnlyGetsBehindFinal
<1> QED BY <1>1, <1>2, <1>3 DEF PromptInv

\* The timeouts of the sender: it gives up when nothing is on its way, and before
\* that it has a packet to send again.
LEMMA SenderTimersPrompt ==
  ASSUME PromptInv, IInv', Quiet, SenderTimers
  PROVE  PromptInv'
<1>1. curr_to => send_buffer # << >>
  BY DEF PromptInv, IInv, SomethingToResend
<1>2. /\ UNCHANGED <<sender, fetching, toSender>>
      /\ last_ack' = last_ack \/ last_ack' = 0
  <2>1. CASE SenderTimeout
    BY <1>1, <2>1 DEF SenderTimeout, receiverVars
  <2>2. CASE SenderGivesUp \/ SenderForgets
    BY <2>2 DEF SenderGivesUp, SenderForgets, forget_receiver, receiverVars
  <2> QED BY <2>1, <2>2 DEF SenderTimers
<1>3. NothingForEmptyWindow'
  <2>1. CASE SenderTimeout
    BY <1>1, <2>1 DEF SenderTimeout, NothingForEmptyWindow
  <2>2. CASE SenderGivesUp
    BY <2>2 DEF SenderGivesUp, Quiet, NothingForEmptyWindow
  <2>3. CASE SenderForgets
    BY <1>1, <1>2, <2>3 DEF SenderForgets, PromptInv, NothingForEmptyWindow
  <2> QED BY <2>1, <2>2, <2>3 DEF SenderTimers
<1>4. OnlyGetsBehindFinal(toSender') /\ (fetching => NoFinal(toSender'))
  BY <1>2 DEF PromptInv, OnlyGetsBehindFinal, NoFinal
<1> QED BY <1>2, <1>3, <1>4, PromptFrame

\* The timeouts of the receiver add nothing but a GET.
LEMMA ReceiverTimersPrompt ==
  ASSUME PromptInv, IInv', ReceiverTimers
  PROVE  PromptInv'
<1>1. /\ UNCHANGED <<senderVars, toReceiver>> /\ (fetching' => fetching)
      /\ \/ UNCHANGED toSender
         \/ toSender' = Transmit(toSender, sender, <<GET>>)
  <2>1. CASE ReceiverTimeout
    BY <2>1 DEF ReceiverTimeout
  <2>2. CASE ReceiverGivesUp
    BY <2>2 DEF ReceiverGivesUp, forget_sender
  <2>3. CASE ReceiverForgets
    BY <2>3 DEF ReceiverForgets, forget_sender
  <2> QED BY <2>1, <2>2, <2>3 DEF ReceiverTimers
<1>2. CASE UNCHANGED toSender
  BY <1>1, <1>2, ShrinkPrompt
<1>3. CASE toSender' = Transmit(toSender, sender, <<GET>>)
  <2>1. toSender \in Seq(ToSenderPackets) /\ GET \in ToSenderPackets \ {FINAL}
    BY DEF PromptInv, IInv, TypeOK, ToSenderPackets, GET, FINAL, ACK
  <2>2. OnlyGetsBehindFinal(toSender')
    BY <1>3, <2>1, FinalTransmit DEF PromptInv
  <2>3. ASSUME NEW S, GET \in S, toSender \in Seq(S) PROVE toSender' \in Seq(S)
    BY <1>3, <2>3, TransmitType, SingletonType
  <2>4. fetching => NoFinal(toSender')
    BY <2>1, <2>3 DEF PromptInv, NoFinal
  <2>5. NothingForEmptyWindow'
    BY <1>1, <2>3 DEF senderVars, PromptInv, NothingForEmptyWindow
  <2> QED BY <1>1, <2>2, <2>4, <2>5, PromptFrame DEF senderVars
<1> QED BY <1>1, <1>2, <1>3

-----------------------------------------------------------------------------
(* The invariant.                                                          *)

\* The initial states satisfy the invariant: a GET is the only packet.
LEMMA PromptInitInv == PromptInit => PromptInv
<1> SUFFICES ASSUME PromptInit PROVE PromptInv
  OBVIOUS
<1>1. IInv
  BY InitInv DEF PromptInit
<1>2. /\ sender = "up" /\ last_ack = 0 /\ toSender = <<GET>> /\ toReceiver = << >>
  BY DEF PromptInit, Init
<1>3. GET \in ToSenderPackets \ {FINAL}
  BY DEF ToSenderPackets, GET, FINAL, ACK
<1> QED BY <1>1, <1>2, <1>3, TransferAssumption
        DEF PromptInv, NothingForEmptyWindow, NoFinal, OnlyGetsBehindFinal

\* Every step of the system keeps the invariant.
LEMMA PromptNextInv ==
  ASSUME Faults \cap {"reorder", "duplicate"} = {},
         PromptInv, [PromptNext]_promptVars
  PROVE  PromptInv'
<1>1. [Next]_vars
  BY DEF PromptNext, PromptHandle, PromptSenderTimers, PromptReceiverTimers,
         PromptFaults, SenderTimers, ReceiverTimers, promptVars, Next
<1>2. IInv'
  BY <1>1, NextInv DEF PromptInv
<1>3. CASE GetAccepted \/ GetDenied
  BY <1>2, <1>3, GetPrompt
<1>4. CASE AckHandler
  BY <1>2, <1>4, AckPrompt
<1>5. CASE DataHandler
  BY <1>2, <1>5, DataPrompt
<1>6. CASE DeniedHandler
  <2>1. /\ UNCHANGED <<senderVars, fetching, toSender>>
        /\ toReceiver \in Seq(ToReceiverPackets)
    BY <1>6 DEF DeniedHandler, PromptInv, IInv, TypeOK
  <2>2. PICK i \in DOMAIN toReceiver : ReceiverReceives(i)
    BY <1>6 DEF DeniedHandler
  <2>3. 1 \in DOMAIN toReceiver /\ toReceiver' = Without(toReceiver, 1)
    BY <2>1, <2>2, InOrder DEF ReceiverReceives
  <2> QED BY <1>2, <2>1, <2>3, ShrinkPrompt
<1>7. CASE Quiet /\ SenderTimers
  BY <1>2, <1>7, SenderTimersPrompt
<1>8. CASE ReceiverTimers
  BY <1>2, <1>8, ReceiverTimersPrompt
<1>9. CASE Lose \/ ReceiverCrash
  BY <1>2, <1>9, ShrinkPrompt DEF Lose, ReceiverCrash, receiverVars
<1>10. CASE SenderCrash
  BY <1>2, <1>10, CrashPrompt
<1>11. CASE UNCHANGED vars
  BY <1>2, <1>11, ShrinkPrompt DEF vars, receiverVars
<1> QED
  BY <1>3, <1>4, <1>5, <1>6, <1>7, <1>8, <1>9, <1>10, <1>11, WindowForAck
  DEF PromptNext, PromptHandle, PromptSenderTimers, PromptReceiverTimers,
      PromptFaults, Handle, promptVars

\* The sender never reads through the head or tail of an empty send window
\* (ack_handler, retransmit_data), whatever is lost and whoever crashes, on a
\* network that is fast compared with the timeouts and keeps the packets in
\* order.  LateAck.cfg shows that a slow one is enough to make it fail.
THEOREM PromptSenderSafe ==
  ASSUME Faults \cap {"reorder", "duplicate"} = {}
  PROVE  PromptSpec => []NoSegv
<1>1. PromptInv /\ [PromptNext]_promptVars => PromptInv'
  BY PromptNextInv
<1>2. PromptInv => NoSegv
  BY DEF PromptInv, NoSegv
<1> QED BY PromptInitInv, <1>1, <1>2, PTL DEF PromptSpec
=============================================================================
