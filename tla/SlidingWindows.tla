--------------------------- MODULE SlidingWindows ---------------------------
(***************************************************************************)
(* What sliding_buffer.c promises its callers: the two kinds of window as  *)
(* the values of SlidingBuffer, with one step per call.                    *)
(***************************************************************************)
EXTENDS SlidingBuffer

CONSTANT SeqNums   \* the sequence numbers a packet may have

VARIABLES sb,   \* a send window, a sequence
          rb,   \* a receive window, a set
          ack   \* what find_ack returned last

vars == <<sb, rb, ack>>

Init == sb = << >> /\ rb = {} /\ ack = -1

SendAppend == \E seq \in SeqNums :
  sb' = append_entry(sb, seq) /\ UNCHANGED <<rb, ack>>

SendDestroyUpto == \E upto \in SeqNums \cup {0} :
  sb' = destroy_upto_ack(sb, upto) /\ UNCHANGED <<rb, ack>>

SendDestroy == sb' = destroy_entries /\ UNCHANGED <<rb, ack>>

ReceiveInsert == \E seq \in SeqNums :
  rb' = insert_entry(rb, seq) /\ UNCHANGED <<sb, ack>>

ReceiveFindAck ==
  rb' = after_find_ack(rb) /\ ack' = find_ack(rb) /\ UNCHANGED sb

ReceiveDestroy == rb' = {} /\ UNCHANGED <<sb, ack>>

Next == \/ SendAppend \/ SendDestroyUpto \/ SendDestroy
        \/ ReceiveInsert \/ ReceiveFindAck \/ ReceiveDestroy

Spec == Init /\ [][Next]_vars
=============================================================================
