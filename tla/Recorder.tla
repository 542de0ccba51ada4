------------------------------ MODULE Recorder ------------------------------
(***************************************************************************)
(* MIDIREC (glib/MIDIREC.C): it records what an instrument plays into a    *)
(* MIDI file.  The interrupt handler queues the bytes with the time since  *)
(* the last one, a timer counts that time, and the main loop turns the     *)
(* bytes into events.                                                      *)
(***************************************************************************)
EXTENDS MidiLog, Instrument

CONSTANTS
  RecMessages, \* what the instrument sends: sequences of bytes
  TopDelta,    \* 65535, what a delta is cut off at
  SBUF,        \* 1024, the room for an exclusive message
  RecBytes,    \* bound: bytes that arrive
  MaxTime      \* bound: ticks of the timer while recording

(* The messages are complete, and no real-time byte is within another one: *)
(* it would be dropped and change nothing, see MIDIREC_isr.  Three digits  *)
(* are enough for a delta and for the length of an exclusive message.      *)
ASSUME RecorderAssumption ==
  /\ TopDelta \in Nat /\ TopDelta < Radix * Radix * Radix
  /\ SBUF \in Nat \ {0} /\ SBUF + 1 < Radix * Radix * Radix
  /\ \A m \in RecMessages : Complete(m) /\ \A i \in 2 .. Len(m) : m[i] < 248

VARIABLES
  phase,                       \* "waiting", "recording", "stopped" or "aborted"
  delta_time,
  status, expect_bytes, accum_delta, sysex_active, sysex_buff, out,
  time                         \* ticks of the timer

writer  == <<status, expect_bytes, accum_delta, sysex_active, sysex_buff, out>>
recvars == <<phase, delta_time, writer, time>>

event_type(b) == CASE b < 128 -> 0 [] b \in 128 .. 239 -> 1 [] b = 240 -> 2
                   [] b = 247 -> 3 [] OTHER -> 0
data_bytes(s) == IF s \in 192 .. 223 THEN 1 ELSE IF s \in 128 .. 239 THEN 2 ELSE 0

(* A delta as MIDIREC writes it: at most three digits. *)
Digit(d, n) == (d \div n) % Radix
write_VLN(d) ==
  LET high == <<Digit(d, Radix * Radix) + 128, Digit(d, Radix) + 128, Digit(d, 1)>>
  IN IF high[1] > 128 THEN high
     ELSE IF high[2] > 128 THEN Tail(high) ELSE <<high[3]>>

(* The track of a new file: its time signature and tempo. *)
MIDI_header  == <<0, 255, 88, 4, 4, 2, 24, 8, 0, 255, 81, 3, 7, 161, 32>>
EndOfTrack  == <<0, 255, 47, 0>>

RecInit ==
  /\ init_queue
  /\ phase = "waiting" /\ delta_time = 0
  /\ status = 0 /\ expect_bytes = 0 /\ accum_delta = 0
  /\ sysex_active = FALSE /\ sysex_buff = <<>> /\ out = <<>>
  /\ time = 0

(* The status that runs behind message m. *)
StatusLeft(m) == IF isvalrst(m[1]) THEN m[1] ELSE 0

(* The instrument before it: it may have been playing for a while. *)
RecPlugged ==
  /\ Plugged(RecMessages)
  /\ IF sending = <<>> THEN running \in {0} \cup {StatusLeft(m) : m \in RecMessages}
     ELSE \E m \in RecMessages : sending = Tail(m) /\ running = StatusLeft(m)

----------------------------------------------------------------------------
(* The instrument and the interrupt handler. *)

Kept(b) == b < 240 \/ b \in {240, 247}

(* played has, per message, its bytes with the status spelled out, the     *)
(* time it began and the number of bytes queued when it is complete.  A    *)
(* message of the system that is not exclusive leaves data in the queue    *)
(* without their status, and an exclusive one may be longer than SBUF:     *)
(* broken.  Real-time messages are dropped and change nothing.             *)
MIDIREC_isr ==
  /\ phase \in {"waiting", "recording"} /\ arrived < RecBytes
  /\ \E s \in NextBytes(RecMessages) :
       LET b == s[1][1]
           m == s[2]
       IN /\ sending' = Tail(s[1])
          /\ IF Kept(b) THEN write_queue([byte |-> b, delta |->
                               IF delta_time > TopDelta THEN TopDelta ELSE delta_time])
             ELSE UNCHANGED ring
          /\ delta_time' = IF Kept(b) THEN 0 ELSE delta_time
          /\ arrived' = IF Kept(b) THEN arrived + 1 ELSE arrived
          /\ running' = IF m = <<>> \/ m[1] >= 248 THEN running ELSE StatusLeft(m)
          /\ played' = IF m = <<>> \/ ~Kept(m[1]) THEN played
                       ELSE Append(played, [bytes |-> m, at |-> time,
                              upto |-> arrived + Len(s[1])])
          /\ broken' = (broken \/ (m # <<>> /\ ((m[1] \in 241 .. 246 /\ Len(m) > 1)
                                     \/ (m[1] = 240 /\ Len(m) - 2 > SBUF))))
  /\ UNCHANGED <<phase, writer, time>>

delta_update ==
  /\ phase = "recording" /\ time < MaxTime
  /\ delta_time' = delta_time + 1 /\ time' = time + 1
  /\ UNCHANGED <<ring, phase, device, writer>>

----------------------------------------------------------------------------
(* The main program. *)

(* It waits for a status byte to be the next in the ring, and takes none   *)
(* out: behind a data byte nothing is ever recorded.                       *)
begin ==
  /\ phase = "waiting" /\ check_queue /\ event_type(watch_queue.byte) # 0
  /\ phase' = "recording" /\ delta_time' = 0
  /\ out' = MIDI_header
  /\ UNCHANGED <<ring, device, status, expect_bytes, accum_delta, sysex_active,
                 sysex_buff, time>>

abort ==
  /\ phase = "waiting" /\ phase' = "aborted"
  /\ UNCHANGED <<ring, delta_time, device, writer, time>>

CutOff(d) == IF d >= TopDelta THEN TopDelta ELSE d

(* Mutant of EventBegins: the time counted up to the event is not taken away. *)
event_keeps_time(b, total) ==
  /\ out' = out \o write_VLN(total) \o <<b>>
  /\ accum_delta' = total

(* An event begins with b: the time up to it, and the byte. *)
EventBegins(b, total) ==
  /\ out' = out \o write_VLN(total) \o <<b>>
  /\ accum_delta' = 0

(* One turn of the main loop. *)
data_byte_rec(b, total) ==
  \/ /\ sysex_active /\ Len(sysex_buff) < SBUF
     /\ sysex_buff' = Append(sysex_buff, b)
     /\ accum_delta' = total
     /\ UNCHANGED <<status, expect_bytes, sysex_active, out>>
  \/ /\ ~(sysex_active /\ Len(sysex_buff) < SBUF) /\ expect_bytes # 0
     /\ expect_bytes' = expect_bytes - 1
     /\ out' = Append(out, b)
     /\ accum_delta' = total
     /\ UNCHANGED <<status, sysex_active, sysex_buff>>

(* A channel message, or a data byte that is not expected: one of a        *)
(* message with running status.                                            *)
ChannelMessage(b, total) ==
  LET s == IF b >= 128 THEN b ELSE status IN
  /\ event_type(b) = 1
       \/ (event_type(b) = 0 /\ expect_bytes = 0 /\ ~(sysex_active /\ Len(sysex_buff) < SBUF))
  /\ sysex_active' = FALSE /\ status' = s
  /\ \/ /\ s >= 128
        /\ EventBegins(b, total)
        /\ expect_bytes' = data_bytes(s) - (IF b < 128 THEN 1 ELSE 0)
     \/ /\ s < 128
        /\ accum_delta' = total
        /\ UNCHANGED <<out, expect_bytes>>
  /\ UNCHANGED sysex_buff

ExclusiveBegin(b, total) ==
  /\ event_type(b) = 2
  /\ EventBegins(b, total)
  /\ status' = 0 /\ sysex_buff' = <<>> /\ sysex_active' = TRUE
  /\ UNCHANGED expect_bytes

(* The end writes the length of what was gathered, and that. *)
ExclusiveEnd(b, total) ==
  /\ event_type(b) = 3
  /\ accum_delta' = total
  /\ \/ /\ sysex_active
        /\ out' = out \o write_VLN(Len(sysex_buff) + 1) \o sysex_buff \o <<b>>
        /\ sysex_active' = FALSE
        /\ UNCHANGED status
     \/ /\ ~sysex_active
        /\ status' = 0
        /\ UNCHANGED <<out, sysex_active>>
  /\ UNCHANGED <<expect_bytes, sysex_buff>>

record_byte ==
  /\ phase = "recording" /\ check_queue
  /\ read_queue
  /\ LET b     == watch_queue.byte
         total == CutOff(accum_delta + watch_queue.delta)
     IN \/ event_type(b) = 0 /\ data_byte_rec(b, total)
        \/ ChannelMessage(b, total)
        \/ ExclusiveBegin(b, total)
        \/ ExclusiveEnd(b, total)
  /\ UNCHANGED <<phase, delta_time, device, time>>

(* A key is pressed: what is still in the ring is not recorded. *)
stop ==
  /\ phase = "recording" /\ phase' = "stopped"
  /\ out' = out \o EndOfTrack
  /\ UNCHANGED <<ring, delta_time, device, status, expect_bytes, accum_delta,
                 sysex_active, sysex_buff, time>>

----------------------------------------------------------------------------
(* Properties. *)

(* Between two events. *)
Whole == phase \in {"recording", "stopped"} /\ expect_bytes = 0 /\ ~sysex_active

(* The events that the messages make: the time since the last one, cut     *)
(* off, and the bytes, an exclusive message with its length.               *)
AsEvent(m) ==
  IF m[1] = 240 THEN <<240>> \o write_VLN(Len(m) - 1) \o Tail(m) ELSE m
Heard == {i \in DOMAIN played : played[i].upto <= arrived - Len(Pending)}
Score ==
  [i \in Heard |->
     [delta |-> CutOff(played[i].at - (IF i = 1 THEN 0 ELSE played[i - 1].at)),
      bytes |-> AsEvent(played[i].bytes)]]

(* The track recorded so far, read back: behind the signature and the      *)
(* tempo, before the end.                                                  *)
TrackEvents ==
  LET all == EventsOf(IF phase = "stopped" THEN out ELSE out \o EndOfTrack, 1, 0)
  IN SubSeq(all, 3, Len(all) - 1)

(* What is recorded is what was played: unless the ring was once full or   *)
(* broken holds, every message read from the ring is an event of the file, *)
(* in order, with the time that went by since the one before it, however   *)
(* the bytes, the ticks and the main loop interleave and whatever status   *)
(* is left out (MIDIREC.C 172-226, 375-432).                               *)
RecordedAsPlayed == Whole /\ ~overrun /\ ~broken => TrackEvents = Score
=============================================================================
