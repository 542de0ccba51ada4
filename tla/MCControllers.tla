--------------------------- MODULE MCControllers ---------------------------
(* Two channels; volume, modulation and sustain.  Volume on a channel      *)
(* shares its cell with modulation on the channel below.                   *)
EXTENDS Controllers

MCctrl_default == [i \in 0 .. 2 |-> IF i = 0 THEN 127 ELSE 0]
MCValues == [i \in 0 .. 2 |-> IF i = 0 THEN {100} ELSE {127}]
MCctrl_ptr == <<127>>

(* The nine controllers with their defaults, for the sixteen channels.     *)
Nine == 0 .. 8
Nine_default == [i \in Nine |-> CASE i \in {0, 3} -> 127 [] i = 2 -> 64 [] OTHER -> 0]
NineValues == [i \in Nine |-> {100}]
============================================================================
