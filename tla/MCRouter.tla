------------------------------- MODULE MCRouter -------------------------------
(* A chain of five routers with any further links between them: 64 networks, *)
(* among them the ring and the complete one.                                *)
EXTENDS Router

FiveRouters == 1..5
Chain == {{v, v + 1} : v \in 1..4}
OtherLinks == {{v, w} : v \in 1..3, w \in 3..5} \ (Chain \cup {{3}})
ChainTopologies == {Chain \cup more : more \in SUBSET OtherLinks}

\* Two flows to one destination, one against them, one to nobody.
FourFlows == {<<1, 4>>, <<2, 4>>, <<4, 1>>, <<3, 6>>}
=============================================================================
