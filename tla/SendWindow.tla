----------------------------- MODULE SendWindow ------------------------------
(***************************************************************************)
(* How many packets one call of send_next_data sends, given the congestion *)
(* window, the next sequence number, the last ack and the packets that are *)
(* in the send window already.                                             *)
(***************************************************************************)
EXTENDS SlidingBuffer, CongestionAvoidance

CONSTANT FINALACK   \* packets in a chunk, 354 in constants.h

\* The loop stops at the end of the chunk, at the edge of the window past the
\* last ack, or when the buffer holds exactly a window of packets.
SendCount(cwnd, seqnum, ack, entries) ==
  LET Stops(n) == \/ seqnum + n > FINALACK
                  \/ seqnum + n > ack + cwnd
                  \/ entries + n = cwnd
  IN  CHOOSE n \in 0..FINALACK : Stops(n) /\ \A m \in 0..(n - 1) : ~Stops(m)

Burst(seqnum, n) == [i \in 1..n |-> seqnum + i - 1]
=============================================================================
