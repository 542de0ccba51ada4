--------------------------- MODULE MCTimbreCache ---------------------------
(* TimbreCache with two melodic timbres that differ in their bank and two  *)
(* drums, of one or two units each.  The last entry of the table is beyond *)
(* what a signed index reaches.                                            *)
EXTENDS TimbreCache

MCBanks == {0, 1}
MCPrograms == {0}
MCMelodic == {<<0, 0>>, <<1, 0>>}
MCDrums == {<<127, 0>>, <<127, 1>>}
MCLength == [t \in Timbres |-> IF t = <<1, 0>> THEN 2 ELSE 1]
MCSlots == {0}
============================================================================
