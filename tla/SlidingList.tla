----------------------------- MODULE SlidingList -----------------------------
(***************************************************************************)
(* The linked lists of sliding_buffer.c, cell by cell: one that is used as *)
(* a send window and one that is used as a receive window, on one heap.    *)
(* A cell is a buffer_entry_t with the sequence number of its packet; a    *)
(* list is a sliding_buffer_t.  The calls that loop along the list are     *)
(* written over the path of cells the loop visits.                         *)
(*                                                                         *)
(* remove_head is not here: nothing calls it.                              *)
(***************************************************************************)
EXTENDS Integers, Sequences, FiniteSets, Functions

CONSTANTS SeqNums,   \* the sequence numbers a packet may have
          Address,   \* where malloc may put a cell
          NULL

ASSUME ListAssumption == SeqNums \subseteq Nat \ {0} /\ NULL \notin Address

VARIABLES cells,   \* the cells that are allocated, by address
          send,    \* send_buffer
          recv,    \* peer->recv_buffer
          ack      \* what find_ack returned last

vars == <<cells, send, recv, ack>>

EmptyList == [num_entry |-> 0, head |-> NULL, tail |-> NULL]

\* The addresses a loop visits that starts at a and follows next, for every a.
Walks(heap) ==
  LET from[a \in DOMAIN heap] ==
        IF heap[a].next = NULL THEN <<a>> ELSE <<a>> \o from[heap[a].next]
  IN  from

Path(heap, list) == IF list.head = NULL THEN << >> ELSE Walks(heap)[list.head]

malloc(heap, new, seq) ==
  [a \in DOMAIN heap \cup {new} |->
     IF a = new THEN [seq |-> seq, next |-> NULL] ELSE heap[a]]

free(heap, freed) == Restrict(heap, DOMAIN heap \ freed)

\* A call gives the heap and the list it leaves.
Result(heap, list) == [cells |-> heap, list |-> list]

\* Mutant: the tail stays at the cell the new one is linked behind.
AppendKeepsTail(heap, list, new, seq) ==
  LET with == malloc(heap, new, seq)
      longer == [list EXCEPT !.num_entry = @ + 1]
  IN  IF list.head = NULL
        THEN Result(with, [longer EXCEPT !.head = new, !.tail = new])
      ELSE Result([with EXCEPT ![list.tail].next = new], longer)

append_entry(heap, list, new, seq) ==
  LET with == malloc(heap, new, seq)
      longer == [list EXCEPT !.num_entry = @ + 1, !.tail = new]
  IN  IF list.head = NULL THEN Result(with, [longer EXCEPT !.head = new])
      ELSE Result([with EXCEPT ![list.tail].next = new], longer)

\* Mutant: a data packet joins the receive window at its end.
InsertAtTail(heap, list, new, seq) == append_entry(heap, list, new, seq)

\* The new cell goes behind the first one that is smaller and whose successor
\* is larger or missing.  There is none when the packet is below the head or on
\* the list already: the cell is freed again.
insert_entry(heap, list, new, seq) ==
  LET path == Path(heap, list)
      Place(k) == /\ heap[path[k]].seq < seq
                  /\ k = Len(path) \/ seq < heap[path[k + 1]].seq
      linked(prev) ==
        [malloc(heap, new, seq) EXCEPT ![prev].next = new,
                                       ![new].next = heap[prev].next]
  IN  IF list.head = NULL
        THEN Result(malloc(heap, new, seq),
               [num_entry |-> list.num_entry + 1, head |-> new, tail |-> new])
      ELSE IF \A k \in DOMAIN path : ~Place(k) THEN Result(heap, list)
      ELSE LET k == CHOOSE k \in DOMAIN path : Place(k)
           IN  Result(linked(path[k]),
                 [list EXCEPT !.num_entry = @ + 1,
                              !.tail = IF k = Len(path) THEN new ELSE @])

destroy_entries(heap, list) ==
  IF list.head = NULL THEN Result(heap, list)
  ELSE Result(free(heap, Range(Path(heap, list))), EmptyList)

\* Mutant: only the end of the list stops the loop.
GapAtEnd(heap, path, k) == k = Len(path)

\* Where the loop of find_ack returns.
Gap(heap, path, k) ==
  k = Len(path) \/ heap[path[k + 1]].seq # heap[path[k]].seq + 1

\* The loop frees a cell once it has seen that the next one follows it.
find_ack(heap, list) ==
  LET path == Path(heap, list)
      last == CHOOSE k \in DOMAIN path :
                /\ Gap(heap, path, k)
                /\ \A j \in 1..(k - 1) : ~Gap(heap, path, j)
  IN  Result(free(heap, {path[j] : j \in 1..(last - 1)}),
        [list EXCEPT !.num_entry = @ - (last - 1), !.head = path[last]])

\* The loop returns at the first cell past the ack.
destroy_upto_ack(heap, list, upto) ==
  LET path == Path(heap, list)
      gone == {k \in DOMAIN path :
                 \A j \in 1..k : ~(upto < heap[path[j]].seq)}
      count == Cardinality(gone)
  IN  Result(free(heap, {path[k] : k \in gone}),
        [num_entry |-> list.num_entry - count,
         head |-> IF count = Len(path) THEN NULL ELSE path[count + 1],
         tail |-> IF count = Len(path) THEN NULL ELSE list.tail])

-----------------------------------------------------------------------------
Init == /\ cells = << >>
        /\ send = EmptyList /\ recv = EmptyList
        /\ ack = -1

SendAppend ==
  /\ \E seq \in SeqNums, new \in Address \ DOMAIN cells :
       LET r == append_entry(cells, send, new, seq)
       IN  cells' = r.cells /\ send' = r.list
  /\ UNCHANGED <<recv, ack>>

SendDestroyUpto ==
  /\ send.head # NULL
  /\ \E upto \in SeqNums \cup {0} :
       LET r == destroy_upto_ack(cells, send, upto)
       IN  cells' = r.cells /\ send' = r.list
  /\ UNCHANGED <<recv, ack>>

SendDestroy ==
  /\ LET r == destroy_entries(cells, send)
     IN  cells' = r.cells /\ send' = r.list
  /\ UNCHANGED <<recv, ack>>

ReceiveInsert ==
  /\ \E seq \in SeqNums, new \in Address \ DOMAIN cells :
       LET r == insert_entry(cells, recv, new, seq)
       IN  cells' = r.cells /\ recv' = r.list
  /\ UNCHANGED <<send, ack>>

ReceiveFindAck ==
  /\ IF recv.head = NULL
       THEN ack' = -1 /\ UNCHANGED <<cells, recv>>
       ELSE LET r == find_ack(cells, recv)
            IN  /\ cells' = r.cells /\ recv' = r.list
                /\ ack' = r.cells[r.list.head].seq
  /\ UNCHANGED send

ReceiveDestroy ==
  /\ LET r == destroy_entries(cells, recv)
     IN  cells' = r.cells /\ recv' = r.list
  /\ UNCHANGED <<send, ack>>

Next == \/ SendAppend \/ SendDestroyUpto \/ SendDestroy
        \/ ReceiveInsert \/ ReceiveFindAck \/ ReceiveDestroy

Spec == Init /\ [][Next]_vars

-----------------------------------------------------------------------------
(* Properties.                                                             *)

\* A list of cells is sound: the tail is the last cell that next leads to from
\* the head, or null with it, and num_entry is the number of cells.  append_entry
\* writes through the tail, ack_handler reads it, send_next_data compares
\* num_entry with the window.
SoundList(list) ==
  LET path == Path(cells, list)
  IN  /\ list.num_entry = Len(path)
      /\ list.tail = IF path = << >> THEN NULL ELSE path[Len(path)]

\* After every sequence of calls both lists are sound, share no cell, and no
\* cell is allocated that neither of them holds.
ListsAreSound ==
  /\ SoundList(send) /\ SoundList(recv)
  /\ Range(Path(cells, send)) \cap Range(Path(cells, recv)) = {}
  /\ DOMAIN cells = Range(Path(cells, send)) \cup Range(Path(cells, recv))

SeqNumsOf(list) ==
  LET path == Path(cells, list) IN [k \in DOMAIN path |-> cells[path[k]].seq]

Windows == INSTANCE SlidingWindows WITH
             sb <- SeqNumsOf(send), rb <- Range(SeqNumsOf(recv))

\* The lists implement the windows: every call changes the sequence, or the set,
\* that its list stands for as SlidingBuffer says.
ImplementsWindows == Windows!Spec

\* A receive window is in strictly ascending order after any calls, which
\* SlidingBuffer takes for granted when it keeps the window as a set: insert_entry
\* finds the place of a packet and drops one that is there, through every gap and
\* removal.  (That find_ack leaves the ack at the head is in ImplementsWindows.)
ReceiveAscends ==
  LET seqs == SeqNumsOf(recv)
  IN  \A j, k \in DOMAIN seqs : j < k => seqs[j] < seqs[k]
=============================================================================
