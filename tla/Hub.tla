-------------------------------- MODULE Hub ---------------------------------
(***************************************************************************)
(* One direction of a link between two peers: the packet queue of the      *)
(* network simulator (NSQueue in hupsim.pl), and what UDP may do to the    *)
(* packets on it.                                                          *)
(*                                                                         *)
(* A queue is a sequence of packets, the head leaves first, and a packet   *)
(* that finds QueueMax packets waiting is dropped.  Faults names what the  *)
(* network may do beyond that: "lose" any packet, "duplicate" one when it  *)
(* is delivered, "reorder" them.  Delay needs no name: nothing bounds the  *)
(* time a packet stays on its queue.                                       *)
(***************************************************************************)
EXTENDS Integers, Sequences

CONSTANTS QueueMax,   \* 'max' of a queue, a column of the topology file
          Faults      \* a subset of {"lose", "duplicate", "reorder", "crash"}

ASSUME HubAssumption ==
  /\ QueueMax \in Nat \ {0}
  /\ Faults \subseteq {"lose", "duplicate", "reorder", "crash"}

\* Mutant: a packet is dropped only when the queue is over its limit.
enQOneMore(q, ps) ==
  IF Len(q) + Len(ps) <= QueueMax + 1 THEN q \o ps
  ELSE SubSeq(q \o ps, 1, QueueMax + 1)

\* enQ for the packets ps, one after the other: what does not fit is dropped.
enQ(q, ps) ==
  IF Len(q) + Len(ps) <= QueueMax THEN q \o ps
  ELSE SubSeq(q \o ps, 1, QueueMax)

\* spiffy_sendto to a peer that runs or does not.
Transmit(q, status, ps) == IF status = "up" THEN enQ(q, ps) ELSE q

\* The positions of the packets that may be delivered next (run).
Deliverable(q) == {i \in DOMAIN q : i = 1 \/ "reorder" \in Faults}

Without(q, i) == SubSeq(q, 1, i - 1) \o SubSeq(q, i + 1, Len(q))

\* The queues a delivery of packet i may leave behind.
AfterDelivery(q, i) ==
  {Without(q, i)} \cup (IF "duplicate" \in Faults THEN {q} ELSE {})
=============================================================================
