--------------------------- MODULE PromptTransfer ---------------------------
(***************************************************************************)
(* The transfer of a chunk over a network that is fast compared with the   *)
(* three seconds of select in peer_run: a timeout happens only when no     *)
(* packet is on its way, and the two peers, whose timers have the same     *)
(* length, take turns at it.  ChunkTransfer without these two assumptions  *)
(* lets a packet stay on the link through any number of timeouts.  Whether  *)
(* Faults happen at all is settled at the start.                           *)
(***************************************************************************)
EXTENDS ChunkTransfer

VARIABLES timer,   \* whose timeout was the last event of the system
          calm     \* no packet is lost and no peer crashes

promptVars == <<vars, timer, calm>>

Quiet == toSender = << >> /\ toReceiver = << >>

SenderWaits == sender = "up" /\ curr_to
ReceiverWaits == receiver = "up" /\ fetching

PromptInit == Init /\ timer = "none" /\ calm \in BOOLEAN

PromptSenderTimers ==
  /\ Quiet
  /\ timer # "sender" \/ ~ReceiverWaits
  /\ SenderTimers
  /\ timer' = "sender" /\ UNCHANGED calm

PromptReceiverTimers ==
  /\ Quiet
  /\ timer # "receiver" \/ ~SenderWaits
  /\ ReceiverTimers
  /\ timer' = "receiver" /\ UNCHANGED calm

PromptHandle == Handle /\ timer' = "none" /\ UNCHANGED calm

PromptFaults ==
  /\ ~calm
  /\ Lose \/ SenderCrash \/ ReceiverCrash
  /\ UNCHANGED <<timer, calm>>

PromptNext == \/ PromptHandle \/ PromptSenderTimers \/ PromptReceiverTimers
              \/ PromptFaults

PromptSpec ==
  /\ PromptInit /\ [][PromptNext]_promptVars
  /\ WF_promptVars(PromptHandle)
  /\ WF_promptVars(PromptSenderTimers) /\ WF_promptVars(PromptReceiverTimers)

\* On a network that drops a packet only when a queue is full the chunk
\* arrives: neither the losses the window provokes nor the timeouts that
\* repair them make the receiver give up.
ChunkArrives == calm ~> complete

\* ... and the sender is free for the next request at the end (his_request is
\* what makes it deny one).
SenderFreed == <>[](calm => ~his_request)
=============================================================================
