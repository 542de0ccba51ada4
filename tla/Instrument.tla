----------------------------- MODULE Instrument -----------------------------
(***************************************************************************)
(* An instrument at the other end of the MIDI cable of MIDIREC or MIDIECHO:*)
(* it sends legal MIDI, and the cable may be plugged in in the middle of a *)
(* message.                                                                *)
(***************************************************************************)
EXTENDS InputRing

VARIABLES
  sending,       \* bytes left of the message being sent
  running,       \* its running status
  arrived,       \* number of bytes that arrived
  played,        \* history: the messages sent
  broken         \* history: what arrived is not taken as it is, see MPU_isr

device == <<sending, running, arrived, played, broken>>

Byte == 0 .. 255

(* Messages are complete: data bytes follow a status, an exclusive message *)
(* has an end, real-time messages are single bytes, also within an         *)
(* exclusive one.                                                          *)
Complete(m) ==
  /\ m \in Seq(Byte) /\ m # <<>>
  /\ m[1] >= 128 /\ m[1] # 247
  /\ m[1] < 240 => Len(m) = IF m[1] \in 192 .. 223 THEN 2 ELSE 3
  /\ m[1] = 240 => m[Len(m)] = 247
  /\ m[1] >= 248 => Len(m) = 1
  /\ \A i \in 2 .. Len(m) :
       m[i] < 128 \/ (m[1] = 240 /\ (m[i] >= 248 \/ (m[i] = 247 /\ i = Len(m))))

(* The last bytes of one of the messages M may be all that arrives of it.  *)
Plugged(M) ==
  /\ sending \in {<<>>} \cup {Tail(m) : m \in M}
  /\ arrived = 0 /\ played = <<>> /\ broken = FALSE

(* What is sent next, and the message it begins, if it begins one: with    *)
(* the status of the last message still running, it may be left out.       *)
NextBytes(M) ==
  IF sending # <<>> THEN {<<sending, <<>> >>}
  ELSE {<<m, m>> : m \in M}
         \cup {<<Tail(m), m>> : m \in {x \in M : running # 0 /\ x[1] = running}}
=============================================================================
