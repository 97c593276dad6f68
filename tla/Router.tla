-------------------------------- MODULE Router --------------------------------
(***************************************************************************)
(* The network simulator with several routers (hupsim.pl): every router    *)
(* computes a table of next hops at the start, and forwards packets from   *)
(* queue to queue.  The clock of a queue is abstracted: the packet at its  *)
(* head may leave at any time, none before it.                             *)
(*                                                                         *)
(* A packet is [flow |-> <<source, destination>>, num |-> its number in    *)
(* the flow]; the number is for the properties only.                       *)
(***************************************************************************)
EXTENDS Hub, FiniteSets

CONSTANTS Routers,      \* the ids, natural numbers
          Topologies,   \* sets of links, a link is a set of two routers
          Flows,        \* pairs of nodes; the nodes file has those with a router
          MaxSent       \* bound on the packets of a flow

INFINITY == 65535

\* Every topology is connected: a set of routers no link leads out of is the set
\* of all.  On another one createTable does not end.
ASSUME RouterAssumption ==
  /\ Routers \subseteq Nat /\ IsFiniteSet(Routers) /\ Cardinality(Routers) < INFINITY
  /\ \A g \in Topologies :
       /\ \A l \in g : l \subseteq Routers /\ Cardinality(l) = 2
       /\ \A S \in (SUBSET Routers) \ {{}} :
            (\A l \in g : l \cap S # {} => l \subseteq S) => S = Routers
  /\ Flows \subseteq {f \in Nat \X Nat : f[1] # f[2]} /\ MaxSent \in Nat

VARIABLES links,
          routingTable,   \* routingTable[v][d], the next hop from v to d
          queue,          \* queue[v][w], the packets v has for its neighbour w
          sent,           \* how many packets of a flow were inserted
          arrived         \* the last that left at its destination

vars == <<links, routingTable, queue, sent, arrived>>

Neighbours(g, v) == {w \in Routers : {v, w} \in g}

-----------------------------------------------------------------------------
(* The routing tables.                                                     *)

\* The router to visit next: the nearest, of those the one with the least id.
Nearest(d) ==
  CHOOSE v \in Routers \ d.done :
    \A w \in Routers \ d.done :
      d.distance[v] < d.distance[w] \/ (d.distance[v] = d.distance[w] /\ v <= w)

\* Mutant: an edge has no weight.
VisitWeightless(g, d) ==
  LET next == Nearest(d)
      relaxed == {w \in Neighbours(g, next) : d.distance[w] > d.distance[next]}
  IN  [done |-> d.done \cup {next},
       distance |-> [w \in Routers |->
                       d.distance[IF w \in relaxed THEN next ELSE w]],
       predecessor |->
         [w \in Routers |-> IF w \in relaxed THEN next ELSE d.predecessor[w]]]

\* One step of the algorithm: the edges of the nearest router are relaxed.
Visit(g, d) ==
  LET next == Nearest(d)
      weight == d.distance[next] + 1
      relaxed == {w \in Neighbours(g, next) : d.distance[w] > weight}
  IN  [done |-> d.done \cup {next},
       distance |-> [w \in Routers |-> IF w \in relaxed THEN weight ELSE d.distance[w]],
       predecessor |->
         [w \in Routers |-> IF w \in relaxed THEN next ELSE d.predecessor[w]]]

\* Dijkstra's algorithm for router v.
Visited(g, v) ==
  LET start == [done |-> {},
                distance |-> [w \in Routers |-> IF w = v THEN 0 ELSE INFINITY],
                predecessor |-> [w \in Routers |-> w]]
      visits[k \in 0..Cardinality(Routers)] ==
        IF k = 0 THEN start ELSE Visit(g, visits[k - 1])
  IN  visits[Cardinality(Routers)]

\* The walk back from a destination to the router next to v.
createTable(g, v) ==
  LET predecessor == Visited(g, v).predecessor
      startRoute[w \in Routers \ {v}] ==
        IF predecessor[w] = v THEN w ELSE startRoute[predecessor[w]]
  IN  startRoute

-----------------------------------------------------------------------------
Init ==
  /\ links \in Topologies
  /\ routingTable = [v \in Routers |-> createTable(links, v)]
  /\ queue = [v \in Routers |-> [w \in Neighbours(links, v) |-> << >>]]
  /\ sent = [f \in Flows |-> 0] /\ arrived = [f \in Flows |-> 0]

\* Mutant: the packet goes to the front of the queue.
recvFront(q, v, pk) ==
  LET dest == pk.flow[2]
      next == routingTable[v][dest]
  IN  IF dest = v
        THEN queue' = q /\ arrived' = [arrived EXCEPT ![pk.flow] = pk.num]
        ELSE queue' = [q EXCEPT ![v][next] = enQ(<<pk>>, @)] /\ UNCHANGED arrived

\* Router v has a packet, and the queues are q: it goes to the node of v, or on
\* the queue towards its destination.
recv(q, v, pk) ==
  LET dest == pk.flow[2]
      next == routingTable[v][dest]
  IN  IF dest = v
        THEN queue' = q /\ arrived' = [arrived EXCEPT ![pk.flow] = pk.num]
        ELSE queue' = [q EXCEPT ![v][next] = enQ(@, <<pk>>)] /\ UNCHANGED arrived

\* The main loop takes a packet from the socket.  One from or to an unknown node
\* is dropped.
Insert(f) ==
  /\ sent[f] < MaxSent
  /\ sent' = [sent EXCEPT ![f] = @ + 1]
  /\ IF f[1] \in Routers /\ f[2] \in Routers
       THEN recv(queue, f[1], [flow |-> f, num |-> sent[f] + 1])
       ELSE UNCHANGED <<queue, arrived>>
  /\ UNCHANGED <<links, routingTable>>

\* Mutant: the packet is forwarded and stays on the queue.
runKeeps(v, w) ==
  /\ w \in Neighbours(links, v) /\ queue[v][w] # << >>
  /\ recv(queue, w, Head(queue[v][w]))
  /\ UNCHANGED <<links, routingTable, sent>>

\* The head of a queue of v leaves for the router w.
run(v, w) ==
  /\ w \in Neighbours(links, v) /\ queue[v][w] # << >>
  /\ recv([queue EXCEPT ![v][w] = Tail(@)], w, Head(queue[v][w]))
  /\ UNCHANGED <<links, routingTable, sent>>

Next == (\E f \in Flows : Insert(f)) \/ (\E v, w \in Routers : run(v, w))

\* The main loop sleeps until the first packet is due, and runs every router.
Spec ==
  /\ Init /\ [][Next]_vars
  /\ \A v, w \in Routers : WF_vars(run(v, w))

-----------------------------------------------------------------------------
(* Properties.                                                             *)

\* The type invariant: links and queues keep to the topology and to the limit of
\* a queue, and nothing arrives that was not sent.
TypeOK ==
  /\ links \in Topologies
  /\ \A v \in Routers : \A w \in Neighbours(links, v) :
       /\ Len(queue[v][w]) <= QueueMax
       /\ \A i \in DOMAIN queue[v][w] : queue[v][w][i].flow \in Flows
  /\ \A f \in Flows : sent[f] \in 0..MaxSent /\ arrived[f] \in 0..sent[f]

\* The routers k hops or fewer from v, for the reference distance.
Within(g, v) ==
  LET ball[k \in 0..Cardinality(Routers)] ==
        IF k = 0 THEN {v}
        ELSE ball[k - 1] \cup UNION {Neighbours(g, w) : w \in ball[k - 1]}
  IN  ball

Distance(g, v, w) ==
  LET ball == Within(g, v)
  IN  CHOOSE k \in 0..Cardinality(Routers) :
        w \in ball[k] /\ \A j \in 0..(k - 1) : w \notin ball[j]

\* A packet on its way is on a shortest path from its source to its
\* destination, though every router made its table for itself and the tables
\* break ties differently: no packet loops, none takes a detour (createTable).
OnShortestPath ==
  \A v \in Routers : \A w \in Neighbours(links, v) : \A i \in DOMAIN queue[v][w] :
    LET f == queue[v][w][i].flow
    IN  Distance(links, f[1], v) + 1 + Distance(links, w, f[2])
          = Distance(links, f[1], f[2])

\* The numbers of the packets of a flow on their way.
OnWay(f) ==
  LET own(q) == {q[i].num : i \in {i \in DOMAIN q : q[i].flow = f}}
  IN  UNION {UNION {own(queue[v][w]) : w \in DOMAIN queue[v]} : v \in Routers}

Link == INSTANCE LossyFifo WITH inFlight <- [f \in Flows |-> OnWay(f)]

\* Every pair of nodes has a link that loses packets but never repeats or
\* reorders them, whatever the topology and whatever shares the queues (enQ,
\* recv, run).
ImplementsLink == Link!Spec

\* Every packet arrives or is dropped: the queues are empty again and again.
QueuesDrain ==
  []<>(\A v \in Routers : \A w \in Neighbours(links, v) : queue[v][w] = << >>)
=============================================================================
