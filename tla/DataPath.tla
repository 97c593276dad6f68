------------------------------- MODULE DataPath -------------------------------
(***************************************************************************)
(* The arithmetic between a request file and the output file               *)
(* (packet_handler.c): how the hashes of a request are divided among       *)
(* WHOHAS packets, which line of a file a hash stands on, and which bytes  *)
(* of a file a data packet carries.                                        *)
(*                                                                         *)
(* Assumed of the files: a data file is a whole number of chunks long, as  *)
(* those under tmp/ are.                                                   *)
(***************************************************************************)
EXTENDS Integers, Sequences

CONSTANTS CHUNKLEN,             \* bytes of a chunk
          BUFLEN,               \* bytes of a full data packet
          FINALACK,             \* the last packet of a chunk
          MAX_CHUNKS_PER_PACK,  \* hashes in a full WHOHAS packet
          INT                   \* an int is at least -INT and below INT

ASSUME DataPathAssumption ==
  /\ {CHUNKLEN, BUFLEN, FINALACK, MAX_CHUNKS_PER_PACK, INT} \subseteq Nat \ {0}
  /\ (FINALACK - 1) * BUFLEN < CHUNKLEN /\ CHUNKLEN <= FINALACK * BUFLEN

NotFound == -1

\* get_hash_id_master and get_hash_id_request: the id on the first line, a
\* record [id, hash], with that hash.
FirstId(lines, hash) ==
  IF \E i \in DOMAIN lines : lines[i].hash = hash
    THEN LET i == CHOOSE i \in DOMAIN lines :
                    /\ lines[i].hash = hash
                    /\ \A j \in 1..(i - 1) : lines[j].hash # hash
         IN  lines[i].id
    ELSE NotFound

\* master_chunks_init: the first two lines of a master file are no chunks.
master_chunks(masterFile) == SubSeq(masterFile, 3, Len(masterFile))

-----------------------------------------------------------------------------
(* A request of n hashes.                                                  *)

\* How many WHOHAS packets it takes: the ceiling of the quotient.
Iterations(n) == (n + MAX_CHUNKS_PER_PACK - 1) \div MAX_CHUNKS_PER_PACK

\* Mutant: the last packet of several is one hash short.
SendCountShort(n, i) ==
  IF Iterations(n) = 1 THEN n
  ELSE IF i = Iterations(n) - 1 THEN n - i * MAX_CHUNKS_PER_PACK - 1
  ELSE MAX_CHUNKS_PER_PACK

\* How many hashes the i-th packet names, i from 0.
SendCount(n, i) ==
  IF Iterations(n) = 1 THEN n
  ELSE IF i = Iterations(n) - 1 THEN n - i * MAX_CHUNKS_PER_PACK
  ELSE MAX_CHUNKS_PER_PACK

\* Which of the n hashes these are.
Named(n, i) ==
  (i * MAX_CHUNKS_PER_PACK + 1)..(i * MAX_CHUNKS_PER_PACK + SendCount(n, i))

-----------------------------------------------------------------------------
(* The data packets of the chunk with some id in a file.  The offsets are   *)
(* ints, which wrap (the Makefile asks for no optimisation).               *)

AsInt(x) == ((x + INT) % (2 * INT)) - INT

\* Where packet seqnum begins.
Start(id, seqnum) == id * CHUNKLEN + (seqnum - 1) * BUFLEN

\* The same as an int, and the end of the chunk as one.
Offset(id, seqnum) == AsInt(Start(id, seqnum))
Limit(id) == AsInt(id * CHUNKLEN + CHUNKLEN)

\* The packets send_next_data sends: one after the other while they begin in the
\* chunk.
Numbers(id) == {seqnum \in 1..CHUNKLEN : \A s \in 1..seqnum : Offset(id, s) < Limit(id)}

\* Mutant: the last packet is as long as the others.
BytesToReadFull(id, seqnum) == BUFLEN

BytesToRead(id, seqnum) ==
  LET rest == AsInt(id * CHUNKLEN + CHUNKLEN - Offset(id, seqnum))
  IN  IF rest < BUFLEN THEN rest ELSE BUFLEN

\* The bytes of the master data file that are in the packet: the sender seeks in
\* steps that do not wrap.
Bytes(id, seqnum) ==
  Start(id, seqnum)..(Start(id, seqnum) + BytesToRead(id, seqnum) - 1)

\* Where data_handler writes it: fseek fails below zero, and the file is rewound.
WriteAt(id, seqnum) == IF Offset(id, seqnum) < 0 THEN 0 ELSE Offset(id, seqnum)

\* The bytes of the chunk.
ChunkBytes(id) == (id * CHUNKLEN)..(id * CHUNKLEN + CHUNKLEN - 1)

\* No offset of the chunk wraps.
Fits(id) == id * CHUNKLEN + FINALACK * BUFLEN < INT
=============================================================================
