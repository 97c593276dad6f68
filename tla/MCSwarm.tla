------------------------------- MODULE MCSwarm --------------------------------
(* Instances of Swarm: one peer and another, or one peer and two others.    *)
EXTENDS PromptSwarm, TLC

CONSTANTS nodeA, nodeB, nodeR

Pair == <<nodeA, nodeR>>
Trio == <<nodeB, nodeA, nodeR>>

\* Something for nodeR, nodeA and nodeB each.
Give(ofR, ofA, ofB) == (nodeR :> ofR) @@ (nodeA :> ofA) @@ (nodeB :> ofB)
Nothing == << >>
Left(counts, wild) ==
  [num_chunks |-> counts, chunks_fetched |-> counts, wild |-> wild,
   last_ack |-> counts, num_dupacks |-> counts]
InEveryRecord(left) == [n \in Nodes |-> [p \in OtherNodes(n) |-> left]]
Setup(local, requests) ==
  [local |-> local, requests |-> requests, leftover |-> InEveryRecord(Left(0, FALSE))]

\* nodeR asks for the chunks of nodeA.
TwoOfOne == Setup(Give({}, {1, 2}, {}), Give(<< <<1, 2>> >>, Nothing, Nothing))

\* The records come from memory that was used before, and in one of them the
\* pointer to the list of chunks is not null: in the one nodeR has of nodeA, which
\* it asks, or in the one nodeA has of nodeR, which it follows only to give up.
OneOfOne == Setup(Give({}, {1}, {}), Give(<< <<1>> >>, Nothing, Nothing))
UsedMemory == [OneOfOne EXCEPT !.leftover = InEveryRecord(Left(2, FALSE))]
WildIn(n) ==
  [UsedMemory EXCEPT !.leftover[n] = [p \in OtherNodes(n) |-> Left(2, TRUE)]]

\* nodeA and nodeB have two chunks each, one of them both.
Overlapping ==
  Setup(Give({}, {1, 2}, {2, 3}), Give(<< <<1, 2, 3>> >>, Nothing, Nothing))

\* Two users ask nodeA, which serves one at a time.
Contention == Setup(Give({}, {1, 2}, {}), Give(<< <<1>> >>, Nothing, << <<2>> >>))

\* nodeB lacks the last chunk.
Different ==
  Setup(Give({}, {1, 2, 3}, {1, 2}), Give(<< <<1, 2, 3>> >>, Nothing, Nothing))

\* Two commands of one user: the ids of the first name other chunks in the
\* second.
Again == Setup(Give({}, {1, 2}, {3}), Give(<< <<1>>, <<3, 2>> >>, Nothing, Nothing))

LossySetups == {TwoOfOne, WildIn(nodeR), WildIn(nodeA)}
PromptSetups == {Overlapping, Contention, Again}
UnevenSetups == {Different}
ContentionSetups == {Contention}
OneToOneSetups == {TwoOfOne}
=============================================================================
