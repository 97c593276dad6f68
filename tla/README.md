# A TLA+ model of the 15-441 congestion-control BitTorrent peer

The program (`../src`) is a peer of a small BitTorrent-like system on UDP. A
user asks a peer for a file; the peer asks the others which chunks they have
(WHOHAS/IHAVE), asks for chunks one by one (GET) and receives each chunk of
512 KB as a train of DATA packets under a sliding window with TCP-like
congestion control. Everything runs in one thread: `peer_run` selects on one
socket and on stdin with a timeout of three seconds; a packet runs one handler,
a timeout runs the retransmissions. There is no shared memory between peers:
the hard parts are what the network does to the packets of two such loops, and
state that survives from one exchange into the next.

## Inventory

| Component | State | Operations | Modules |
|---|---|---|---|
| Sliding windows (`sliding_buffer.c`) | a linked list with head, tail and count | `append_entry`, `insert_entry`, `find_ack`, `destroy_upto_ack`, `destroy_entries` | `SlidingBuffer`, `SlidingWindows`, `SlidingList` |
| Congestion control (`congestion_avoidance.c`) | `congestion_state_t` | `init_congestion_state`, `slow_start`, `mult_decrease`, `add_increase` | `CongestionAvoidance` |
| Transfer of a chunk (`packet_handler.c`, `peer.c`) | `send_buffer`, `state`, `me`, the record of the other peer, the file | `get_handler`, `data_handler`, `ack_handler`, `denied_handler`, `send_next_data`, the cleanups, the timeouts of `peer_run` | `SendWindow`, `ChunkTransfer`, `PromptTransfer`, `ReliableDelivery`, and `Swarm` for many peers |
| Discovery and scheduling (`packet_handler.c`) | queues of WHOHAS, lists of chunks a peer has, the list of chunks fetching or fetched, counters | `init_whohas`, `send_next_whohas`, `whohas_handler`, `ihave_handler`, `get_next_chunk` | `Swarm`, `PromptSwarm`, `Download` |
| File arithmetic (`packet_handler.c`, `peer.c`) | the list of the master file; otherwise none | `master_chunks_init`, `get_hash_id_master`, `get_hash_id_request`, the division in `init_whohas`, the offsets in `send_next_data` and `data_handler` | `DataPath`, `Console` |
| Event loop (`peer.c`) | the timers, `me->curr_to` | `peer_run`, `process_inbound_udp`, `handle_user_input`, `process_cmd` | timeouts and dispatch in `ChunkTransfer` and `Swarm`, commands in `Swarm` and `Console` |
| Line input (`input_buffer.c`) | the buffer of the current line and its count | `create_userbuf`, `process_user_input` | `LineInput`, `Console` |
| Network simulator (`hupsim.pl`) | the routing tables; a packet queue per link and direction | `createTable`, `enQ`, `recv`, `run` | `Hub`, `Router`, `LossyFifo` |
| Configuration (`bt_parse.c`) | the peer records | start-up, lookup by address | a fresh record (`NewPeer`, and what `malloc` left in it) in `Swarm` |
| Packet formats (`packets.h`, `macros.h`) | none | the packets' fields | records in `ChunkTransfer` and `Swarm` |
| Hash conversion, `spiffy.c`, SHA-1 and chunk tools, debug output, test programs | | | not modelled |

How they interact. A GET starts a transfer: `get_handler` resets the congestion
controller and calls `send_next_data`, which appends to the send window, counts
in the controller and sends. `data_handler` writes the block, inserts the packet
in the receive window and answers with `find_ack`. `ack_handler` counts the ack,
removes from the send window and either retransmits its head (third duplicate)
or calls `slow_start` and `send_next_data`. The timeout branch of `peer_run`
retransmits the head of the send window to `me->curr_to` and the pending
WHOHAS, IHAVE or GET of every peer, and counts; at a limit it forgets the peer
(`peer_total_cleanup`). A line of standard input goes through the line buffer to
`process_cmd`, which opens the request file and the output file and calls
`init_whohas`. A chunk has an id in the request file, which places its data in
the output file, and another in the master file of the peer that serves it. In
the course's network all packets pass `hupsim.pl`, which routes them.

What makes it hard: packets lost, repeated, reordered or late between two
peers; three retransmission counters that are not reset in the same places;
state of an earlier exchange (send window, `last_seq`, counters) that is still
there in the next; a data packet that does not say which chunk it belongs to;
one send window and one `me` for all peers; a second command that finds what the
first left; lines that come in pieces; routers that share queues and each make
a table of their own.

What makes each component correct:

- windows: the list is what its callers think it is after any sequence of
  calls; the send window is exactly what is unacknowledged; the receive window
  and the file agree.
- congestion control: the window stays between 1 and `MAXWIN`, and slow start
  does not step over its threshold. (The round counter of congestion avoidance
  does step over the window, see below.)
- transfer: acks never cover a missing block; a finished transfer is whole; an
  old ack undoes nothing; nobody serves or waits for ever; a timeout always has
  something to send.
- discovery: every chunk is asked for once at a time, a chunk that fails is
  asked for again or the download ends, a block goes to its own chunk, and a
  download is reported complete when it is, for every command.
- file arithmetic: every hash of a request is in one WHOHAS; the sender's
  packets, the receiver's offsets and FINALACK, a constant of its own, agree.
- line input: the lines handled are the lines typed, and only a line that is too
  long ends the program.
- network: a flow is neither reordered nor repeated, and packets do not go round
  in circles.

## Modules

**`SlidingBuffer`** is the data type: a packet is its sequence number, a send
window is a sequence, a receive window is a set. The set is enough because
`insert_entry` keeps the list ascending and without duplicates, which
`SlidingList` shows. **`SlidingWindows`** gives the type one step per call.
**`SlidingList`** has the cells themselves: a heap, `head`, `tail`,
`num_entry`, `malloc` at any free address, and the loops of the C functions
written over the path of cells they visit. It is checked against
`SlidingWindows` by refinement (`Windows == INSTANCE SlidingWindows WITH ...`).
`remove_head` is left out: nothing calls it. **`MCSlidingList`** adds the
symmetry of the addresses.

**`CongestionAvoidance`** has the four functions of the C file on a record with
the fields of `congestion_state_t`.

**`Hub`** is one direction of a link. `enQ` appends and drops what exceeds
`QueueMax`, as the queue of `hupsim.pl` does, for the models of the peers. The constant `Faults` says what
else may happen: lose, duplicate, reorder, crash. Delay is always possible.

**`SendWindow`** is what window and controller do together in
`send_next_data`: how many packets go out (`SendCount`) and what counting them
does to the controller (`Burst`). Both systems below use it.

**`ChunkTransfer`** composes these: one sender, one receiver, one chunk,
from the GET the receiver has just sent. Each handler is an action that
receives one packet (`GetAccepted`, `GetDenied`, `AckHandler`, `DataHandler`,
`DeniedHandler`); the branches of `ack_handler` are its disjuncts
(`AckIgnored`, `FinalAck`, `TripleDupack`, `AckAdvances`). The timeout branch of
`peer_run` is an action per outcome and side: `SenderTimeout`, `SenderGivesUp`,
`SenderForgets`, `ReceiverTimeout`, `ReceiverGivesUp`, `ReceiverForgets`. A read
through the null head or tail of an empty send window is a state of its own
(`sender = "segv"`), reached by `AckWithoutWindow` and by `SenderTimeout`.
`Lose`, `SenderCrash` and `ReceiverCrash` are the environment. The names of
variables are those of the C fields; `his_request` stands for both
`me->his_request` and `peer->his_request`, which are set and reset together
when only one peer asks; `fetching` is `get_hash_id != PSUEDO_INF`; `written` is
the set of blocks in the file.

What it leaves to `Swarm`: the chunk is the last one of the receiver's list, so
`get_next_chunk` has nothing to ask for afterwards, and no WHOHAS or IHAVE is
pending. What earlier exchanges leave behind is in the constants
`SenderResidue` and `ReceiverResidue`: the values `num_retransmits` may have at
the start, since nothing resets it on success.

**`PromptTransfer`** restricts `ChunkTransfer` to a network that is fast
compared with the three-second timer: a timeout happens only when no packet is
on its way, and the two timers, being equally long, alternate. Whether the
network has faults is chosen at the start (`calm`), so that one run shows what
holds with faults and what holds without.

**`ReliableDelivery`** is the abstract promise: blocks are gathered in any
order, the sender's belief is a prefix of what the receiver has, completion
needs every block. `ChunkTransfer` implements it (`ImplementsDelivery`).

**`Swarm`** is the whole protocol between any number of peers, each in both
roles, with short chunks. A peer's globals are `me[n]`, `send_buffer[n]` and
`state[n]`; `peer[n][p]` is n's record of p, with the fields of `bt_peer_t` that
the handlers use. There is an action per handler and, for the ones that do
different things, per branch: `UserAsks` (`process_cmd`, `init_whohas`),
`WhohasHandler`, `IhaveNothing`, `IhaveHandler`, `GetDenied`, `GetAccepted`,
`DataIgnored`, `DataHandler`, `ChunkFetched` (the last packet of a chunk: the
cleanup, the next GET or WHOHAS, and the test for a complete download in one
step), `AckHandler`, `DeniedHandler`. What the code does to one record
(`get_next_chunk`, `Answered`, `Listed`, `peer_total_cleanup`) is a function
from record to record. `setup` says who has and who asks for what, and is one of
`Setups`; a user has a sequence of commands, each with a request file of its
own. The timeout first deals with `me->curr_to`
(`TimeoutIdle`, `TimeoutResends`, `TimeoutGivesUp`) and then visits the records
one after the other; each visit is a step (`PeerForgotten`, `PeerWaits`,
`PeerGivenUp`), and `scan[n]` keeps n from anything else until the loop is
through. Others may act in between, which is right: they are other processes.

A data packet carries the chunk its data belongs to, which the code's does not;
no handler looks at it. It only goes into `file`, whose places are those of the
output files: a command, an id of its request file and a block. Chunks are named
by their hashes in packets; `get_hash_id_request` turns a hash into an id
of the request file of the last command, and what no longer has one is
`NotFound`, as in the code.

`bt_parse_peer_list` leaves five fields of a record as `malloc` gave them:
`num_chunks`, `chunks_fetched`, `hehas`, `last_ack` and `num_dupacks`. A fresh
record (`NewPeer`) has the setup's `leftover` in them (`Leftovers`: any numbers,
and a `hehas` that is null or `wild`). The counters are read and counted on as
they are. A wild `hehas` is a pointer to anywhere: the three places that follow
it (the first IHAVE with chunks, and the two cleanups that free the list) end the
process in the model, which stands for whatever a wild read or `free` does
(`IhaveFollowsWild`, `TimeoutFollowsWild`, `ScanFollowsWild`). `data_handler` cannot
meet one: data comes after a GET and a GET after the list is set. The cleanups
that survive set all five fields (`Cleared`).

**`PromptSwarm`** lets a peer time out only when nothing is on its way to it or
from it, and lets the users wait until a download is reported before they type
the next command. **`Download`** is the abstract promise to the users: blocks
gather in their places, none is damaged, a finished command stays as it is, and
a download is reported when it is whole. `PromptSwarm` implements it
(`ImplementsDownload`). **`MCSwarm`** has the setups.

**`Router`** is the network simulator with all its routers: `Visit` is a step of
`createTable`'s Dijkstra, `createTable` the walk back, `recv` and `run` what the
main loop does with a packet. The clock is abstracted: the head of a queue may
leave at any time. **`LossyFifo`** is what a flow may rely on, and `Router`
implements it per flow (`ImplementsLink`): `Hub` with the fault `lose` is a
fair picture of a route, and `duplicate` and `reorder` stand for networks other
than the simulator. `RouterAssumption` asks for what the code takes for granted:
links between two routers, connected topologies, and fewer routers than
`$INFINITY`. **`MCRouter`** has the topologies and the flows.

**`LineInput`** is the line buffer byte by byte: `Read` is a call of `read` that
gives k characters, any number of those that are there; `TakeLine` is a turn of
the loop over lines. What stays behind the contents is part of `buf`, and `cur`
is an unsigned int that wraps (`% UINT`). `crowded` is auxiliary: it records that
some read left several lines in more than half of the buffer, and only
properties look at it. **`DataPath`** is the arithmetic of the files and the
request, as operators; the offsets are ints of `INT` values on each side of zero,
which wrap (`AsInt`), and `fseek` fails on a negative one (`WriteAt`). **`Console`** composes the two: keys are typed, a line
names a request file, its hashes go into WHOHAS packets, and data packets of the
chunks named arrive in any order and again and are written to the output file.
What `Swarm` has between WHOHAS and DATA is left out. A command is one letter.
**`MCConsole`** has the files.

The theorems. **`NumberProofs`** has the arithmetic (least and greatest elements,
division, induction up to a number), **`OperatorProofs`** what the operators of
the windows, the controller, the link and `SendWindow` return. On them rest
**`ChunkTransferProofs`** (the invariants of a transfer and its refinement),
**`PromptProofs`** (a transfer on a prompt network), **`SwarmProofs`** (the swarm),
**`SlidingListProofs`** (the linked lists), **`RouterProofs`** (the simulator) and
**`ConsoleProofs`** (the line buffer, the files, and `Console`).

## What TLC checks

| Run | Instance | Shows |
|---|---|---|
| `transfer` | 4 packets, `MAXWIN` 3, queues of 2; loss, duplication, reordering and crashes, timeouts at any moment, counters left over | types and limits; acks are sound and exact; a complete download is whole; `FirstBlockFirst`; a timeout has a packet; a request ended by an ack is stored; acks are never undone; refinement of `ReliableDelivery` |
| `prompt` | 10 packets, `MAXWIN` 6, queues of 2, with no fault but full queues, or with loss and crashes | without faults the chunk arrives and the sender is free at the end; with faults nobody reads an empty send window, the window is exactly the unacknowledged packets and never longer than `MAXWIN`, the controller is bounded, and neither side serves or waits for ever |
| `sliding_list` | 5 cells, sequence numbers 1 to 4 | the lists are sound, leak no cell, and implement the windows |
| `swarm_lossy` | 2 peers; 2 chunks of 2 packets in 2 WHOHAS, or one chunk with records from used memory, a wild list in the requester's or the server's; loss and crashes, timeouts at any moment, fair | types and limits; a pending WHOHAS is the head of its queue; every exchange ends |
| `swarm_prompt` | 3 peers, chunks of 3 packets; three chunks from two peers that have two each, one of them both; or two users who ask the same peer, so that a GET may be denied; or two commands of one user, whose ids name other chunks in the second | no chunk is fetched from both at once; the window never mixes two services; a second request is denied; blocks are in their own place; the swarm implements `Download`; every command of a user who is alone is reported complete; everybody comes to rest |
| `router` | 5 routers in 64 connected topologies, 4 flows of 2 packets, queues of 2 | packets are on shortest paths; each flow is a lossy FIFO; queues drain |
| `console` | a line buffer of 6, 7 characters typed, 3 chunks of 3 bytes in packets of 2, 2 hashes per WHOHAS | lines are handled as typed until the count wraps; it wraps, and a line that fits is given up, only after a crowded read; every byte of the output file is the right one; a command is carried out |

Why the bounds are enough. Four packets with reordering reach gaps on both sides
of the head of the receive window, three duplicate acks and stale packets of an
earlier service in the send window; `MAXWIN` 3 lets slow start send bursts that
queues of two drop in part. Limits of two retransmissions are reached in every
combination of the two counters; nothing in the code distinguishes two from five
or ten except how long it takes. Ten packets with `MAXWIN` 6 take the controller
through slow start and a loss into congestion avoidance. Five
cells let one list grow to five or both to two and three. The theorems cover what
the bounds do not for one transfer.
For the swarm, two peers are enough for a repeated or overtaken WHOHAS, IHAVE or
GET, and for a chunk that follows another; three are the first number at which a
requester can be denied, or two peers can offer one chunk. Limits of one
(`swarm_lossy`) make a peer be forgotten in the middle of every exchange. Five
routers have rings, branches and shortest paths that tie; the 64 topologies are
the chain with any further links. Three
hashes with two to a packet give a full WHOHAS and a last one, three bytes in
packets of two a full packet and a short one; a line buffer of six takes a
line and the beginning of the next, and one that is too long, and seven
characters refill it after lines were taken and can make `cur` wrap; `long_lines`
types nine, and eight are the fewest that end in the exit. `console` counts `cur` modulo 64
where an unsigned int has 2^32 values: a count below zero is far above the
buffer in both.

`WindowIsExact` and `WindowBounded` are checked with counters left over that are
below the limit: a sender that starts at the limit forgets the receiver at its
first timeout and leaves its packets in the send window, where the next service
finds them. The weaker `SomethingToResend` holds then too (`transfer`), and all
three are proved, for networks of any speed.

Fairness (`prompt`): weak fairness of the handlers and of the timers of each
side, taken separately. `peer_run` handles whatever `select` reports, and
`select` returns after three seconds without a packet. A sender that crashed has
no duties. The liveness of one transfer is checked on the prompt network only:
with reordering and duplication it does not hold, since an old ack that is
repeated for ever resets the count of timeouts for ever. With timeouts at any
moment the end of every exchange is `Settles` of `swarm_lossy`. In `Swarm`
each peer's timeout and loop are weakly fair, and so is the handling of what
comes from each other peer: one socket gives the packets of all in turn.
Nothing makes a user ask. In `Router` every queue is run again and again, as the
main loop of `hupsim.pl` does. In `Console` the loop of `peer_run` reads what is
there and handles lines, and data packets that have not come yet come: that they
do is what the transfer runs show. Deadlock is not checked:
the system stops when the chunk is transferred or given up and no packet is
left.

Runs whose claim TLC refutes, each a disagreement between the code and a text of
the repository:

| Run | Claim | What happens |
|---|---|---|
| `late_ack` | an ack without a request is ignored (`packet_handler.c:568`) | an ack that comes after the request ended reads the null tail of the send window |
| `wrong_place` | data is written at the offset of the received data (`packet_handler.c:481`) | a WHOHAS that a timeout repeats brings a second IHAVE; it makes the requester expect the next chunk while the first arrives, and its data is written into the place of the other |
| `whohas_stuck` | when all chunks are retrieved the next WHOHAS goes out (`packet_handler.c:525`) | without any fault: the last chunks of a peer are skipped because another peer delivers them, and the second WHOHAS to this peer stays in the queue |
| `two_served` | a peer that serves denies a new request (`packet_handler.c:419`) | two requesters and a loss: the server repeats an IHAVE to one of them until it takes it for dead, while it serves the other; that clears the flag (`peer.c:419`), and the next GET is accepted beside the first |
| `long_lines` | the program exits when a line is too long (`input_buffer.c:35`) | two short lines in one read leave a newline behind the contents; later input reaches up to it, it ends a line nobody typed, `cur` wraps below zero, and the next call exits |

Three more disagreements between a text and the code are no errors of the code,
and are listed as findings beside the passing run that shows what it does:

- `readme.txt:31` says that the send window is emptied "up to and not including
  the final ack received"; `destroy_upto_ack` frees the packet of the ack as
  well, and so it must: with the text's version (the mutant `KeepAcked`)
  `WindowIsExact` fails (`prompt`).
- `sliding_buffer.c:203` says that `find_ack` removes all nodes that are visited;
  it keeps the last, which carries the ack, and the next call starts from it
  (`after_find_ack`, `sliding_list`).
- `vulnerabilities.txt:26` and `tests.txt:36` give up a peer after three packets
  that are not data; `constants.h:15` says five. The models have the limit as a
  parameter (`MAX_RETRANSMITS`).

`OwnPlace`, `ImplementsDownload`, `ServesOne` and `WindowOfChunk` do not hold of
every instance. The first two need a prompt network without crashes: with
timeouts at any moment they fail as soon as one IHAVE names two chunks
(`wrong_place`). The other two fail when a timeout ends a service on account of
another peer (`two_served`), or leaves its packets in the window; the theorems
below say that nothing else breaks them. The setups with leftover fields are in
`swarm_lossy` only, for a similar reason: on a prompt network a leftover
`last_ack` makes the first ack of a transfer look old or repeated, and the peer
that serves can end in a read of an empty window. The setups name a hash once in
a request: with `<<1, 2, 1>>` TLC finds `Reported` violated, since the second line
is skipped as fetched and never counted. Users wait for a download before they
type the next command; a command that comes into a download is outside the
checked instances for their size.

The line buffer. Take a buffer of six, `aa\naa\n` in one read and `aa` after it:
the move that removes the first line leaves the newline of the second at the end
of the buffer. Later input reaches up to it, it ends a line nobody typed, the
unsigned count wraps below zero, and the next call exits because a line is too
long (`input_buffer.c:34-51`, the run `long_lines`). A terminal, whose reads end at
the first newline, is safe from it (`TerminalLines`, proved); a pipe or a file is
not. So the properties say what
they say until `cur` wraps (`LinesAsTyped`) or of an input that never crowds the
buffer (`OnlyLongLines`); in `console` the buffer is crowded and `cur` wraps among
the rest. The input has no NUL.

The offsets. With the constants of the code an int counts the bytes of the ids up
to 4094 (`Fits`). Chunk 4095 has an end that is negative as an int, and
`send_next_data` finds nothing to send; the offsets of the ids from 4096 to 8191
are negative, `fseek` fails, and `data_handler` writes every packet to the
beginning of the output file. `BytesInPlace` is about ids that fit;
`LargeIdsOverflow` proves what happens to the others.

Two behaviours of the code that no run has. The round counter of congestion
avoidance is compared with the window by `=` (`congestion_avoidance.c:106`), and a
burst after a cumulative ack counts several packets at once: when an ack is lost
it steps over the window, which then stays as it is until the next loss or
request. TLC finds this on `PromptTransfer` with a chunk of 14 packets, `MAXWIN` 5
and queues of 5, as a violation of
`state.ca_state = "IN_CA" => state.curr_round < state.cwnd`. And two peers that
fetch from each other can retransmit for ever: one gives up its own download and
with it forgets the other's request, but not that it serves, and every ack resets
the count (`packet_handler.c:558`) before it is ignored; `Settles` is violated
then, although a node is "assumed to be down after 10 data packet
retramissions" (`vulnerabilities.txt:26`).

## What TLAPS proves

### The transfer

For every value of the constants that satisfies `TransferAssumption`,
`HubAssumption` and `MAXWINAssumption`, that is for every chunk length, window,
queue, limit, residue and set of faults:

- `TypeCorrect`, `AcksAreSound`, `CompleteMeansWhole`, `AcksAreLargest`,
  `TimeoutHasPacket`, `CongestionControlled`, `BlockOneFirst`: the invariants of
  the runs;
- `WindowExact` and `WindowNeverOverrun`, if no transfer starts with the
  retransmissions of the receiver's record used up
  (`MAX_RETRANSMITS \notin SenderResidue`);
- `FinishedMeansStored`, `AcksStay`: the two action properties;
- `TransferDelivers`: `ChunkTransfer` implements `ReliableDelivery`.

The argument. `AckSound` and `CompleteIsWhole` are not inductive. An ack is
`find_ack` of the receive window, so the window has to agree with the file
(`WindowMatchesFile`: up to the head everything is written, past it exactly what
the window holds). `find_ack` starts at the head of the list whatever it is, so
on an empty window it is right only if the first packet to arrive is block 1:
`FirstBlockFirst` says that block 1 is all the send window and the link can hold
until then. It holds because a service starts with a window of one packet, only
an ack makes it grow, and no ack exists while the file is empty (`NoAckYet`,
from `AckSound`). On the sender's side `SomethingToResend` needs
`TailIsLastSent` and `CongestionControlOK`: when an ack empties the window it is
the last packet sent, and a window that is open sends the next one. `IInv` is
the conjunction; `ChunkTransferProofs` has one lemma per action, two frame
lemmas for the side a step does not touch, and the lemmas on the operators
(`SendCountFact`, `AppendFact`, `RestFact`, `StoreFact`, and those of
`OperatorProofs`). The refinement
has one lemma per kind of step, and `AcksStay` follows from it.

`WindowIsExact` and `WindowBounded` need `ExactInv`: together they are inductive
if the sender's counter is never at its limit, since `SenderForgets` is the only
step that ends a request and leaves its packets. A send window that is exact is
a run of numbers that ends at `last_seq`, so freeing a prefix leaves such a run
(`FreedPrefix`, `DestroyUptoAck`), and `send_next_data` appends to it what the
controller allows, counted from the length of that run.

On a prompt network `PromptSenderSafe` says that nobody reads an empty send
window (`NoSegv`), whatever is lost and whoever crashes, provided the network
neither reorders nor duplicates (`Faults \cap {"reorder", "duplicate"} = {}`,
which is what `hupsim.pl` does to a flow). The window is emptied by the last ack
and by a sender that gives up. Nothing but GETs is behind the last ack on its
queue, because the receiver is done when it sends it (`OnlyGetsBehindFinal`); a
sender gives up only when nothing is on its way. Hence `NothingForEmptyWindow`:
when the window is empty no ack is on its way, nor a data packet that would be
acknowledged. `late_ack` shows what a slow network does; a last ack that
arrives twice, or an ack it overtakes, does the same on a prompt one.

### The swarm

For any number of peers and of chunks, any setups, limits and faults, under
`SwarmAssumption` and the assumptions of its parts:

- `SwarmTypeCorrect`: the types and limits (`SwarmTypeOK`);
- `WhohasAlwaysQueued`: a pending WHOHAS is the head of a queue that is not
  empty (`WhohasQueued`), so that neither the timeout nor `send_next_whohas`
  reads a null head;
- `OneService`, as long as no timeout ends half of a service
  (`[][~StraysFromService]_vars`): the flag that denies requests and the records
  agree, however many ask, and at most one peer is served (`ServesOne`);
- `WindowFollowsService`, under the same condition and as long as the peer served
  is not forgotten (`ForgetsServed`): the send window holds data of the chunk that
  is served and nothing else (`WindowOfChunk`);
- `ChunksServedOnce`, for any number of peers and until the list of chunks
  fetched and fetching starts over (`[][~StartsOver]_vars`): no two peers serve
  one chunk to the same requester (`FetchedOnce`).

The argument. The types of a record and of the packets that reach it hold only
together, because a handler stores what came in a packet and sends what it finds
in a record. The conjuncts of `SwarmInv` are the types of all of them, with the
packets and records typed by who has given a command: `get_hash_id_request`
looks a chunk up in the request of the last command, and has one to look in only
because an IHAVE goes to a peer that sent a WHOHAS, and a WHOHAS comes from a
command (`Packets(a, b)`, `Records(a, b)`). A peer that is served has a chunk
(`his_request => send_hash_id \in Chunks`), for the data packets are made of it.
There is one lemma per action, and lemmas for what the code does to a record,
a window and a link.

`me->his_request` and the record of the peer served change together in
`get_handler` and `post_send_cleanup`, for which `FlagAgrees` is inductive:
the flag is set exactly if some record is, and no two are. The timeouts are
different. `StraysFromService` names the steps that touch one of the two without
the other: giving up the target of the data timeout when it is not the peer
served (a denied GET had made it the target), forgetting a peer while another is
served (`peer.c:417-419`), and giving up, for want of data, a peer that is served
at the same time. Each is a step of the code, and `two_served` shows what follows
from the second. Every other timeout, loss, repetition, late packet and crash
keeps the two in step, whatever number of peers ask and whatever the memory of
the records held.

`WindowAgrees` adds to it that the window is empty without a service, so that a
service begins with an empty one. Of the remaining steps only one that ends a
service does not keep this: the loop over the records forgets the peer served
after five retransmissions, clears the flag, and leaves the window. With that
step `WindowOfChunk` is false: on an instance like that of `swarm_lossy` TLC finds
a service of the second chunk that begins with packets of the first.

For `FetchedOnce` it is not enough to look at services: a GET that is late or
repeated starts one. `Requested` says that a peer serves the chunk, that a GET
for it is on its way or that a GET for it is pending, and `AskedOnce` that what
is requested of one peer is requested of no other and has its id on the
requester's list. `get_next_chunk` keeps this because it skips what is on the
list (`NextChunkIsNew`) and the ids of `hehas` are those of the last command
(`WellNamed`); every other step asks for nothing (`QuietStep`: a GET that is sent
is the pending one, a record lists and serves no more than it did), but for
`get_handler`, which serves what was asked (`GetAsksOnce`). `StartsOver` names
the steps after which the list says less than was asked: a download that is
complete and a peer that is given up empty it while an old service may still
run, and a second command gives the ids to other chunks. Each of the three has
to be excluded: in an instance with three peers and lost packets, TLC finds two
peers that serve one chunk as soon as one of them is allowed.

### The line buffer

For every size of the buffer, alphabet and text, and whatever a read returns,
under `LineInputAssumption`: `InputTypeCorrect`, `LinesAreAsTyped` and
`ExitsForLongLines`; and `TerminalLines`, for reads that end at the first newline
(`[][ReadsOneLine]_inputVars`): then `cur` never wraps, the lines handled are the
lines typed, and only a line that is too long ends the program. `LinesAsTyped` is
not inductive: the search for a newline runs over the whole buffer, and a newline
that is found behind the contents makes `cur` wrap (`ShiftLowers`), which nothing
repairs: no more is read, and lines are taken until none is left or the program
exits (`WrapsByLess` bounds by how much `cur` goes down meanwhile). As long as the
buffer was never crowded no newline is behind the contents (`Tidy`). Taking a line
moves `USERBUF_SIZE - i` bytes, and leaves what was behind them: a newline at p
stays there and behind the new contents, unless the move reaches it. `Uncrowded`
says that it does, for any two newlines of the contents, and is what a read that
is not `Crowded` establishes. `FullAtExit` ties the exit to a full buffer without
a line. `IInv` is the conjunction; `ReadKeeps` and `ShiftKeeps` are the lemmas
that carry the weight.
`ConsoleHandlesLines` takes the result to `Console`, whose other steps leave the
buffer alone.

### The arithmetic

For every chunk length, packet length and number of hashes, under
`DataPathAssumption`: for an id that fits (`Fits`), `LastPacketIsFinalAck` (the
packets the sender counts by their offsets are those up to FINALACK, which the
receiver waits for) and `PacketsMakeChunk` (they carry each byte of the chunk once
and nothing else); for one that does not, `LargeIdsOverflow`; and
`HashesAreDivided` (every hash is in exactly one WHOHAS packet). They rest on
two lemmas about division (`Division`, `Ceiling`).

### The files

`BytesArePlaced`: for every size of chunks and packets, every master and request
file that `ConsoleAssumption` allows, and every order and repetition of the data
packets, a byte of an output file that was written is the byte the request file
wants there, if the ids fit an int (`BytesInPlace`). Three things have to fit: the sender's id of a
chunk in its master file (`MasterByteFact`, with `FirstIdFact` for the search of
a hash in a list), the receiver's id of the same chunk in its request file
(`WrittenBytes`), and that the chunks of data packets are those of the current
request (`AskedHashes`, `DownloadInv`).

### The linked lists

For every set of addresses and of sequence numbers, under `ListAssumption`:
`ListsImplementWindows` (every call on the cells is a call on the values of
`SlidingWindows`), `ListsStaySound` and `ReceiveStaysAscending`. The invariant
(`Lists`) says that there are two sequences p and q of addresses, without
repetition and without a common cell, that the lists follow and that make up the
heap. The walk along `next` is a recursive function on the heap; that it is p
for the first cell of p is shown by induction on the distance from the end
(`WalksAreUnique`, `FromCell`, `PathIs`). A call then does one of two things to
p: it drops a prefix (`Drop`: `destroy_upto_ack`, `destroy_entries`,
`find_ack`) or links one new cell in (`LinkIn`: `append_entry`, and
`insert_entry` at the head, at the tail or between two cells).

### The simulator

For every set of routers and every connected topology, under `RouterAssumption`
and `HubAssumption`:

- `TablesLeadNearer`: the table a router makes for itself leads one hop nearer;
- `SimulatorTypeCorrect`, `PathsAreShortest`: the limits of the queues, and
  `OnShortestPath`;
- `FlowsKeepOrder`: `Router` implements `LossyFifo`.

The argument. `Distance` is defined by balls that grow hop by hop, and in a
connected topology they reach everybody (`WithinAll`). During the visits of
`createTable` every distance entered is the right one, the predecessor entered
with it is one hop nearer to the source, and all neighbours of a visited router
have one (`Searched`, kept by `VisitStep`, because whatever is nearer than the
router visited next was found before: `NearerIsFound`). So after all visits every
predecessor is right (`PredecessorFact`), and the walk back gives the first hop
(`RoutesExist`: the walk has a value, `TablesLeadNearer`: which). The tables of
different routers break ties differently, but each leads nearer to the
destination: so the packets of a flow follow one trail of routers, the place on
it being the distance from the source (`OnTrail`). Along this trail, and within
each queue, those ahead were sent first (`FlowOK`). That is inductive: taking the
head of a queue and putting it at the end of the next, which only packets of
the flow that are farther on can share, keeps it (`FlowTaken`, `FlowSplit`,
`FlowPut`). A packet that arrives is then the first of those on their way, and
every step maps to `Send`, `Lose`, `Arrive` or a stutter (`InsertStep`,
`RunStep`).

### Only model-checked

- Liveness (`ServingEnds`, `ChunkArrives`, `Reported`, `Settles`, `QueuesDrain` and
  the others of the runs): the prover treats neither fairness nor ENABLED.
- `OwnPlace` and `ImplementsDownload` of `PromptSwarm`: they hold under the bounds
  described above, on networks that are prompt, and for the setups of the run; an
  inductive invariant would have to name those setups.
  `ServesOne` and `WindowOfChunk` are proved up to the timeouts named above, and
  `FetchedOnce` up to the end of a download; that the setups of the run do not
  come to that, and a second command, the same run checks.

## What is not modelled, and the plan

Still worth doing: a command that is typed into a download, in an instance small
enough, and runs of their own for the two behaviours described above that have
none.

Not modelled:

- Packet layout and byte order, the conversion of hashes to and from text,
  `spiffy.c`, SHA-1 and the chunk tools, debug output and the stand-alone test
  programs: pure computation or I/O, with no state of the protocol.
- Options and the configuration files, and the lookup of a peer by address: all
  packets come from configured peers.
- Failures of the file system, and data files that end within a chunk.
- The end of the standard input, after which `select` never times out.
- The clock of `hupsim.pl`, and topologies that are not connected, on which the
  walk in `createTable` does not end.

Hazards that no property covers are listed in `PROJECT.json` with the reason:
descriptors that are opened and never closed, a hash named twice in a request, a
file name without a dot, a data file that ends within a chunk, an unknown
sender, the end of the input, and a topology that is not connected.
