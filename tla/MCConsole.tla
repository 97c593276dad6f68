------------------------------ MODULE MCConsole ------------------------------
(* A command "a" for three chunks, in two WHOHAS packets, listed in another *)
(* order than in the master file; a letter that is no command.              *)
EXTENDS Console

Line(chunkId, chunkHash) == [id |-> chunkId, hash |-> chunkHash]
Header == Line(NotFound, "no hash")

MCMasterFile == <<Header, Header, Line(0, "h0"), Line(1, "h1"), Line(2, "h2")>>
MCRequestFiles == [c \in {"a"} |-> <<Line(0, "h2"), Line(1, "h0"), Line(2, "h1")>>]
=============================================================================
