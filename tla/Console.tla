------------------------------- MODULE Console --------------------------------
(***************************************************************************)
(* From the command line to the bytes of the output file: what the user    *)
(* types goes through the line buffer of LineInput, a line that is a       *)
(* command names a request file, its hashes go into WHOHAS packets, and    *)
(* the data packets of the chunks named in them are written to the output  *)
(* file, with the arithmetic of DataPath.                                  *)
(*                                                                         *)
(* What Swarm models is abstracted: any data packet of a chunk that was    *)
(* asked for and is not complete may arrive at any time, and again.  A     *)
(* command "GET <chunk file> <output file>" is one letter.                 *)
(***************************************************************************)
EXTENDS LineInput, DataPath, FiniteSets

CONSTANTS RequestFiles,   \* by the letter of the command: its [id, hash] lines
          MasterFile      \* of the peers that have the chunks

None == "none"

VARIABLES command,    \* the one whose download is under way, or None
          asked,      \* the hashes in WHOHAS packets, packet by packet
          received,   \* <<hash, number>> of the data packets of the download
          files       \* by command: the bytes of its output file by position

vars == <<inputVars, command, asked, received, files>>

Commands == DOMAIN RequestFiles
Hashes(c) == {RequestFiles[c][i].hash : i \in DOMAIN RequestFiles[c]}
AllHashes == UNION {Hashes(c) : c \in Commands}

\* The files are well formed: a line has an id and a hash, no two chunks of the
\* data file have the same id, and the chunks asked for are in it (the sender
\* answered the WHOHAS with an IHAVE).
ASSUME ConsoleAssumption ==
  /\ None \notin Commands
  /\ \A c \in Commands : RequestFiles[c] \in Seq([id : Nat, hash : AllHashes])
  /\ LET chunks == master_chunks(MasterFile)
         hashes == {chunks[i].hash : i \in DOMAIN chunks}
     IN  /\ chunks \in Seq([id : Nat, hash : hashes])
         /\ \A i, j \in DOMAIN chunks : chunks[i].id = chunks[j].id => i = j
         /\ AllHashes \subseteq hashes

Init ==
  /\ InputInit
  /\ command = None /\ asked = << >> /\ received = {}
  /\ files = [c \in Commands |-> << >>]

\* What is typed and not yet handled.
Unhandled == SubSeq(typed, Len(handled) + 1, Len(typed))

\* The line before position k of s, which is a newline, is the command c.
CommandAt(s, k, c) ==
  s[k] = NL /\ k > 1 /\ s[k - 1] = c /\ (k > 2 => s[k - 2] = NL)

Waiting(c) == \E k \in DOMAIN Unhandled : CommandAt(Unhandled, k, c)

\* The user types, but not while a download is under way, and no second command
\* before the first is handled.  (A command that the line buffer handles twice
\* starts its download again.)
UserTypes(char) ==
  /\ Type(char) /\ command = None
  /\ \A c \in Commands :
       CommandAt(typed', Len(typed'), c) => \A other \in Commands : ~Waiting(other)
  /\ UNCHANGED <<command, asked, received, files>>

\* handle_user_input, process_cmd and init_whohas: a line that is no command, or
\* names no request file, does nothing.
process_cmd(line) ==
  \/ /\ line \in {<<c>> : c \in Commands}
     /\ LET lines == RequestFiles[line[1]]
            n == Len(lines)
        IN  /\ command' = line[1] /\ received' = {}
            /\ asked' = [i \in 1..Iterations(n) |->
                           {lines[k].hash : k \in Named(n, i - 1)}]
  \/ /\ line \notin {<<c>> : c \in Commands}
     /\ UNCHANGED <<command, asked, received>>

HandleLine ==
  /\ \E i \in Places : TakeLine(i) /\ process_cmd(LineTo(i))
  /\ UNCHANGED files

\* A byte of the master data file: the chunk it belongs to and its place there.
MasterByte(position) ==
  LET lines == master_chunks(MasterFile)
      i == CHOOSE i \in DOMAIN lines : lines[i].id = position \div CHUNKLEN
  IN  <<lines[i].hash, position % CHUNKLEN>>

\* What the sender reads for a packet.
MasterId(hash) == FirstId(master_chunks(MasterFile), hash)

DataRead(hash, seqnum) ==
  LET id == MasterId(hash)
  IN  [k \in 0..(BytesToRead(id, seqnum) - 1) |-> MasterByte(Start(id, seqnum) + k)]

\* fseek and fwrite: the file with data written over it from start on.
Write(file, start, data) ==
  LET written == {start + k : k \in DOMAIN data}
  IN  [p \in written \cup DOMAIN file |->
         IF p \in written THEN data[p - start] ELSE file[p]]

IsComplete(hash, got) == {<<hash, seqnum>> : seqnum \in 1..FINALACK} \subseteq got

\* data_handler: the bytes are written at their place, and the download is over
\* when as many chunks are complete as the request has lines.
DataArrives(hash, seqnum) ==
  LET lines == RequestFiles[command]
      start == WriteAt(FirstId(lines, hash), seqnum)
      got == received \cup {<<hash, seqnum>>}
      isOver == Cardinality({h \in Hashes(command) : IsComplete(h, got)}) = Len(lines)
  IN  /\ command # None /\ status = "running" /\ strchr = {}
      /\ hash \in UNION {asked[i] : i \in DOMAIN asked}
      /\ ~IsComplete(hash, received)
      /\ \E data \in {DataRead(hash, seqnum)} :
           files' = [files EXCEPT ![command] = Write(@, start, data)]
      /\ received' = IF isOver THEN {} ELSE got
      /\ command' = IF isOver THEN None ELSE command
      /\ asked' = IF isOver THEN << >> ELSE asked
      /\ UNCHANGED inputVars

Next ==
  \/ \E char \in Letters \cup {NL} : UserTypes(char)
  \/ (ReadInput \/ LineTooLong) /\ UNCHANGED <<command, asked, received, files>>
  \/ HandleLine
  \/ \E hash \in AllHashes : \E seqnum \in Numbers(MasterId(hash)) : DataArrives(hash, seqnum)

\* The loop of peer_run serves the input and the network, and every packet of a
\* chunk arrives if it is sent often enough.
Spec ==
  /\ Init /\ [][Next]_vars
  /\ WF_vars((ReadInput \/ LineTooLong) /\ UNCHANGED <<command, asked, received, files>>)
  /\ WF_vars(HandleLine)
  /\ WF_vars(\E hash \in AllHashes : \E seqnum \in Numbers(MasterId(hash)) :
               <<hash, seqnum>> \notin received /\ DataArrives(hash, seqnum))

-----------------------------------------------------------------------------
(* Properties.                                                             *)

\* The ids of the request files and of the master file are small enough for an
\* int to count the bytes up to their chunks.
IdsFit ==
  /\ \A c \in Commands : \A i \in DOMAIN RequestFiles[c] : Fits(RequestFiles[c][i].id)
  /\ \A hash \in AllHashes : Fits(MasterId(hash))

\* If the ids fit, every byte of an output file is the byte the request file asks
\* for at that place, though the chunk has another id in the sender's master file
\* and data packets come in any order and again (send_next_data, data_handler).
BytesInPlace ==
  IdsFit =>
    \A c \in Commands : \A p \in DOMAIN files[c] :
      \E i \in DOMAIN RequestFiles[c] :
        /\ RequestFiles[c][i].id = p \div CHUNKLEN
        /\ files[c][p] = <<RequestFiles[c][i].hash, p % CHUNKLEN>>

IsWhole(c) ==
  DOMAIN files[c] =
    UNION {ChunkBytes(RequestFiles[c][i].id) : i \in DOMAIN RequestFiles[c]}

\* A command that was typed is carried out: its output file gets all its bytes,
\* through the pieces the line is read in, the division into WHOHAS packets and
\* that of the chunks into data packets.
CommandCarriedOut ==
  \A c \in Commands : Waiting(c) ~> (IsWhole(c) \/ status = "exited")
=============================================================================
