------------------------------ MODULE MCTempo ------------------------------
(* Tempo on a small clock: 4 percent points to a tick instead of 100, and  *)
(* 3 units of ramp time per service instead of 83.  The ratio keeps the    *)
(* code's situation, a service slightly shorter than a tick at 100%.       *)
(* The jump from 4 to 15 in 1 ms is too steep for the period's division.   *)
EXTENDS Tempo

MCTempos == {0, 2, 6, 15}
MCGrads == {0, 1, 2}
============================================================================
