----------------------------- MODULE VoicePool -----------------------------
(***************************************************************************)
(* What a voice allocator promises: units are granted to clients in        *)
(* certain shapes, never two clients a unit at the same time, and a client *)
(* gives back all its units at once.  How units are searched, and what     *)
(* else an allocator does at the same time, is left open.                  *)
(***************************************************************************)
CONSTANTS
  Clients,
  Units,
  Shapes   \* the sets of Units that may be granted together

VARIABLE held   \* client -> the units it holds

InUse == UNION {held[c] : c \in Clients}

Init == held = [c \in Clients |-> {}]

Grant(c) ==
  /\ held[c] = {}
  /\ \E U \in Shapes :
       /\ U \cap InUse = {}
       /\ held' = [held EXCEPT ![c] = U]

Return(C) == held' = [c \in Clients |-> IF c \in C THEN {} ELSE held[c]]

Next == (\E c \in Clients : Grant(c)) \/ (\E C \in SUBSET Clients : Return(C))

Spec == Init /\ [][Next]_held
============================================================================
