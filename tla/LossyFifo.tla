------------------------------ MODULE LossyFifo -------------------------------
(***************************************************************************)
(* What the network promises of every flow, the packets one node sends to  *)
(* another: they may be lost anywhere on their way, but what arrives was   *)
(* sent, arrives once and in the order it was sent.                        *)
(***************************************************************************)
EXTENDS Integers

CONSTANT Flows

VARIABLES sent,       \* how many packets of a flow were sent; their numbers
          inFlight,   \* the numbers of those on their way
          arrived     \* the last that arrived

vars == <<sent, inFlight, arrived>>

Init ==
  /\ sent = [f \in Flows |-> 0]
  /\ inFlight = [f \in Flows |-> {}]
  /\ arrived = [f \in Flows |-> 0]

Send(f) ==
  /\ sent' = [sent EXCEPT ![f] = @ + 1]
  /\ inFlight' \in {inFlight, [inFlight EXCEPT ![f] = @ \cup {sent[f] + 1}]}
  /\ UNCHANGED arrived

Lose(f) ==
  /\ \E n \in inFlight[f] : inFlight' = [inFlight EXCEPT ![f] = @ \ {n}]
  /\ UNCHANGED <<sent, arrived>>

\* Only the first that was sent of those on their way can arrive.
Arrive(f) ==
  /\ \E n \in inFlight[f] :
       /\ \A m \in inFlight[f] : n <= m
       /\ arrived' = [arrived EXCEPT ![f] = n]
       /\ inFlight' = [inFlight EXCEPT ![f] = @ \ {n}]
  /\ UNCHANGED sent

Next == \E f \in Flows : Send(f) \/ Lose(f) \/ Arrive(f)

Spec == Init /\ [][Next]_vars
=============================================================================
