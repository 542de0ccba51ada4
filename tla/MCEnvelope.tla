----------------------------- MODULE MCEnvelope ----------------------------
(* Sixty-four levels, a three-bit clock and rates up to five, the slow ones*)
(* below two: the ranges keep the code's order (a step is at most half the *)
(* silent band and fits in a sustain step; the clock outlasts the slowest  *)
(* rate).  One patch per way through the envelope.                         *)
EXTENDS Envelope

Patch(ar, dr, sl, rr, hold, ksr) ==
  [ar |-> ar, dr |-> dr, sl |-> sl, rr |-> rr, hold |-> hold, ksr |-> ksr]

MCPatches ==
  { Patch(5, 3, 2, 4, FALSE, FALSE),   \* struck at once, decays through
    Patch(1, 1, 1, 1, TRUE, TRUE),     \* slow everywhere, held
    Patch(4, 5, 7, 0, FALSE, TRUE),    \* no release; bends reach the highest rate
    Patch(0, 2, 0, 2, TRUE, FALSE) }   \* never attacks
MCKeyScales == {1, 6}
============================================================================
