---------------------------- MODULE SlidingBuffer ----------------------------
(***************************************************************************)
(* The sliding windows of sliding_buffer.c, as values.                     *)
(*                                                                         *)
(* A packet is its sequence number.  The send window is only ever appended *)
(* to, so it is a sequence: stale entries may make it unordered, and the   *)
(* code then looks at its head and its tail.  The receive window is built  *)
(* by insert_entry alone, which keeps the list ascending and without       *)
(* duplicates: it is the set of its entries, its head is the least one.    *)
(* SlidingList models the linked list itself and is checked against the    *)
(* operators of this module.                                               *)
(***************************************************************************)
EXTENDS Integers, Sequences

-----------------------------------------------------------------------------
(* The send window.                                                        *)

Head1(sb) == sb[1]
Tail1(sb) == sb[Len(sb)]

append_entry(sb, seq) == Append(sb, seq)

destroy_entries == << >>

\* Mutant: the entry equal to the ack is kept, as in `ack <= seq_num'.
KeepAcked(sb, ack) ==
  IF \A k \in DOMAIN sb : sb[k] < ack
    THEN << >>
    ELSE LET first == CHOOSE k \in DOMAIN sb :
                        /\ ack <= sb[k]
                        /\ \A j \in 1..(k - 1) : sb[j] < ack
         IN  SubSeq(sb, first, Len(sb))

\* Entries are freed from the head on, up to the first one past the ack.
destroy_upto_ack(sb, ack) ==
  IF \A k \in DOMAIN sb : sb[k] <= ack
    THEN << >>
    ELSE LET first == CHOOSE k \in DOMAIN sb :
                        /\ ack < sb[k]
                        /\ \A j \in 1..(k - 1) : sb[j] <= ack
         IN  SubSeq(sb, first, Len(sb))

-----------------------------------------------------------------------------
(* The receive window.                                                     *)

\* Mutant: an entry below the head is inserted in front of it.
InsertAnywhere(rb, seq) == rb \cup {seq}

\* An entry smaller than the head is dropped, one that is there already is
\* not inserted again.
insert_entry(rb, seq) ==
  IF rb # {} /\ \A m \in rb : seq < m THEN rb ELSE rb \cup {seq}

\* h is the entry at the head of the list.
IsHead(rb, h) == h \in rb /\ \A m \in rb : h <= m

\* Mutant: the greatest entry, whether or not the run reaches it.
AckGreatest(rb) ==
  IF rb = {} THEN -1 ELSE CHOOSE a \in rb : \A m \in rb : m <= a

\* The last entry of the run of consecutive numbers that starts at the head.
find_ack(rb) ==
  IF rb = {} THEN -1
  ELSE CHOOSE a \in rb : /\ \E h \in rb : IsHead(rb, h) /\ h..a \subseteq rb
                         /\ a + 1 \notin rb

\* What find_ack leaves: the entries it walked over are freed, the one it
\* returns stays at the head.
after_find_ack(rb) == {m \in rb : m >= find_ack(rb)}
=============================================================================
