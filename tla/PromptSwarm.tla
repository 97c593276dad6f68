---------------------------- MODULE PromptSwarm ------------------------------
(***************************************************************************)
(* Swarm over a network that is fast compared with the three seconds of    *)
(* select in peer_run: a peer's timeout happens only when no packet is on  *)
(* its way to it or from it.  Others may be exchanging packets meanwhile.  *)
(* The users wait for a download to be reported before they type the next  *)
(* command.                                                                *)
(***************************************************************************)
EXTENDS Swarm

\* Nothing is on its way to n or from n.
Silent(n) == \A p \in OtherNodes(n) : link[n][p] = << >> /\ link[p][n] = << >>

PromptTimeout(n) == Silent(n) /\ Timeout(n)

PatientAsks(n) == asked[n] \in {0} \cup reported[n] /\ UserAsks(n)

PromptTurn(n) == Scan(n) \/ \E p \in OtherNodes(n) : Handle(n, p)

PromptNext ==
  \E n \in Nodes :
    PatientAsks(n) \/ PromptTurn(n) \/ PromptTimeout(n) \/ Environment(n)

PromptFairness ==
  \A n \in Nodes : /\ WF_vars(PromptTimeout(n) \/ Scan(n))
                   /\ \A p \in OtherNodes(n) : WF_vars(Handle(n, p))

PromptSpec == Init /\ [][PromptNext]_vars /\ PromptFairness

\* What the users see of it.
Promised ==
  INSTANCE Download WITH
    Users <- Nodes, requests <- setup.requests,
    stored <- [n \in Nodes |->
                 {b \in Places : /\ b[1] \in DOMAIN setup.requests[n]
                                /\ b[2] < Len(setup.requests[n][b[1]])
                                /\ file[n][b] = setup.requests[n][b[1]][b[2] + 1]}]

\* The swarm keeps the promise to every user: what is stored in its place stays
\* there, nothing is stored for another command than the last, and a download
\* is reported only when it is whole (data_handler, post_receive_cleanup).
ImplementsDownload == Promised!Spec
=============================================================================
