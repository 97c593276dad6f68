------------------------------- MODULE Download -------------------------------
(***************************************************************************)
(* What every user is promised of the commands typed one after the other:  *)
(* the output file of a command gathers the blocks of the chunks of its    *)
(* request file, each in its place, none is ever damaged, and the download *)
(* is reported complete only when the file is.  How the blocks are found   *)
(* and fetched is the business of Swarm.                                   *)
(***************************************************************************)
EXTENDS Integers, Sequences

CONSTANTS Users,
          Blocks      \* the blocks of a chunk

VARIABLES requests,   \* the chunks of every command, in the order of the file
          asked,      \* how many commands were typed
          stored,     \* the places that hold what belongs there
          reported    \* the commands whose download was reported complete

vars == <<requests, asked, stored, reported>>

PlacesOf(u, k) == {k} \X {i - 1 : i \in DOMAIN requests[u][k]} \X Blocks

Init ==
  /\ asked = [u \in Users |-> 0]
  /\ stored = [u \in Users |-> {}] /\ reported = [u \in Users |-> {}]

Ask(u) ==
  /\ asked[u] < Len(requests[u])
  /\ asked' = [asked EXCEPT ![u] = @ + 1]
  /\ UNCHANGED <<requests, stored, reported>>

\* A block of the last command is stored, and with the last one the download
\* may be reported.
Store(u) ==
  LET places == PlacesOf(u, asked[u]) IN
  /\ asked[u] > 0
  /\ \E b \in places : stored' = [stored EXCEPT ![u] = @ \cup {b}]
  /\ \/ reported' = reported
     \/ /\ places \subseteq stored'[u]
        /\ reported' = [reported EXCEPT ![u] = @ \cup {asked[u]}]
  /\ UNCHANGED <<requests, asked>>

Next == \E u \in Users : Ask(u) \/ Store(u)

Spec == Init /\ [][Next]_vars
=============================================================================
