---------------------------- MODULE MCVoices -------------------------------
(* One pair and one single voice, and as many slots as voices. *)
EXTENDS ChipVoices

MCop4_voice == [i \in 0 .. NUM_PAIRS - 1 |-> i]

(* A two-operator algorithm, and four-operator timbres whose two           *)
(* connection bits agree.                                                  *)
AgreeingTimbres == {<<2, 1>>, <<4, 0>>, <<4, 3>>}
============================================================================
