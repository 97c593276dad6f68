------------------------ MODULE CongestionAvoidance -------------------------
(***************************************************************************)
(* The congestion controller of congestion_avoidance.c: the record         *)
(* congestion_state_t and the four functions that update it.               *)
(***************************************************************************)
EXTENDS Integers

CONSTANT MAXWIN   \* the largest congestion window, 64 in constants.h

ASSUME MAXWINAssumption == MAXWIN \in Nat /\ MAXWIN >= 2

CongestionStates ==
  [ca_state: {"IN_SS", "IN_CA"}, cwnd: Nat, ssthresh: Nat, curr_round: Nat]

Least(m, n) == IF m <= n THEN m ELSE n
Greatest(m, n) == IF m >= n THEN m ELSE n

\* Mutant: a request starts with a window of two packets.
InitWithTwo ==
  [ca_state |-> "IN_SS", cwnd |-> 2, ssthresh |-> MAXWIN, curr_round |-> 0]

init_congestion_state ==
  [ca_state |-> "IN_SS", cwnd |-> 1, ssthresh |-> MAXWIN, curr_round |-> 0]

\* One packet more per ack; at the threshold the controller enters congestion
\* avoidance, where the window starts again at one.
slow_start(s) ==
  LET grown == Least(s.cwnd + 1, s.ssthresh)
  IN  IF s.ca_state # "IN_SS" THEN s
      ELSE IF grown = s.ssthresh
        THEN [ca_state |-> "IN_CA", cwnd |-> 1,
              ssthresh |-> s.ssthresh \div 2, curr_round |-> 0]
        ELSE [s EXCEPT !.cwnd = grown]

\* Mutant: the lower bound of two on the threshold is forgotten.
MultDecreaseNoFloor(s) ==
  [ca_state |-> "IN_SS", cwnd |-> 1,
   ssthresh |-> Least(s.cwnd \div 2, MAXWIN), curr_round |-> 0]

mult_decrease(s) ==
  [ca_state |-> "IN_SS", cwnd |-> 1,
   ssthresh |-> Least(Greatest(2, s.cwnd \div 2), MAXWIN), curr_round |-> 0]

\* One packet more per round, a round being exactly cwnd packets sent: a burst
\* that takes the count past cwnd leaves the window as it is from then on.
add_increase(s) ==
  IF s.ca_state # "IN_CA" \/ s.curr_round # s.cwnd THEN s
  ELSE [ca_state |-> s.ca_state,
        cwnd |-> IF s.cwnd = MAXWIN THEN MAXWIN ELSE s.cwnd + 1,
        ssthresh |-> s.ssthresh, curr_round |-> 0]

\* The window is never closed and never above MAXWIN, and slow start always
\* has a threshold it has not reached yet: the equality test of slow_start
\* cannot be stepped over.
CongestionOK(s) ==
  /\ s.cwnd \in 1..MAXWIN
  /\ s.ca_state = "IN_SS" => s.ssthresh \in 2..MAXWIN /\ s.cwnd < s.ssthresh
=============================================================================
