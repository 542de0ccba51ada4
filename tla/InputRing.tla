----------------------------- MODULE InputRing -----------------------------
(***************************************************************************)
(* The ring between the interrupt handler of the MIDI interface and the    *)
(* main loop, as both MIDIREC and MIDIECHO keep it (glib/MIDIREC.C 139-180,*)
(* glib/MIDIECHO.C 530-557).  Nothing tests for a full ring: the handler   *)
(* runs over what has not been read, and a ring that is just full looks    *)
(* empty.                                                                  *)
(***************************************************************************)
EXTENDS Integers, Sequences

CONSTANTS QLEN, Unwritten

ASSUME RingAssumption == QLEN \in Nat \ {0, 1}

VARIABLES queue, head, tail, overrun

ring == <<queue, head, tail, overrun>>

init_queue ==
  /\ queue = [i \in 0 .. QLEN - 1 |-> Unwritten]
  /\ head = 0 /\ tail = 0
  /\ overrun = FALSE                   \* history: the ring was once full

check_queue == head # tail

write_queue(x) ==
  /\ queue' = [queue EXCEPT ![head] = x]
  /\ head' = (head + 1) % QLEN
  /\ overrun' = (overrun \/ head' = tail)
  /\ UNCHANGED tail

watch_queue == queue[tail]

read_queue ==
  /\ tail' = (tail + 1) % QLEN
  /\ UNCHANGED <<queue, head, overrun>>

(* What waits to be read. *)
Pending == [i \in 1 .. (head - tail) % QLEN |-> queue[(tail + i - 1) % QLEN]]
============================================================================
