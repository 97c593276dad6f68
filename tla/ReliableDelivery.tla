-------------------------- MODULE ReliableDelivery --------------------------
(***************************************************************************)
(* What the transfer of a chunk promises, whatever the network does: the   *)
(* receiver gathers blocks in any order while it is fetching, reports the  *)
(* chunk complete only when it has every block, and the sender takes as    *)
(* confirmed only a prefix of what the receiver has.                       *)
(***************************************************************************)
EXTENDS Integers

CONSTANT LastBlock

VARIABLES have,        \* blocks the receiver has
          confirmed,   \* the sender believes the receiver has 1..confirmed
          serving,     \* the sender is serving the chunk
          fetching,    \* the receiver is waiting for the chunk
          complete     \* the receiver reported the chunk complete

vars == <<have, confirmed, serving, fetching, complete>>

Blocks == 1..LastBlock

Init == /\ have = {} /\ confirmed = 0
        /\ serving = FALSE /\ fetching = TRUE /\ complete = FALSE

Serve == /\ ~serving
         /\ serving' = TRUE
         /\ UNCHANGED <<have, confirmed, fetching, complete>>

Store(n) == /\ fetching
            /\ have' = have \cup {n}
            /\ UNCHANGED <<confirmed, serving, fetching, complete>>

StoreLast(n) == /\ fetching
                /\ have' = have \cup {n} /\ have' = Blocks
                /\ fetching' = FALSE /\ complete' = TRUE
                /\ UNCHANGED <<confirmed, serving>>

Confirm(n) == /\ serving
              /\ n > confirmed /\ 1..n \subseteq have
              /\ confirmed' = n
              /\ UNCHANGED <<have, serving, fetching, complete>>

\* The sender is done with the chunk or gives up; either way it forgets what
\* was confirmed.
StopServing == /\ serving
               /\ serving' = FALSE /\ confirmed' = 0
               /\ UNCHANGED <<have, fetching, complete>>

StopFetching == /\ fetching
                /\ fetching' = FALSE
                /\ UNCHANGED <<have, confirmed, serving, complete>>

Next == \/ Serve \/ StopServing \/ StopFetching
        \/ \E n \in Blocks : Store(n) \/ StoreLast(n) \/ Confirm(n)

Spec == Init /\ [][Next]_vars
=============================================================================
