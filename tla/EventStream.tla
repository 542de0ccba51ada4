---------------------------- MODULE EventStream ----------------------------
(***************************************************************************)
(* How a sequence moves through its EVNT chunk: the event loop of the      *)
(* timer service (xmidi32_serve_driver), the loop controllers FOR and NEXT *)
(* (xmidi32_XMIDI_control), branches to the markers of the RBRN chunk      *)
(* (xmidi32_branch_index) and the beat and measure counters that every     *)
(* tick and the meta events move (xmidi32_XMIDI_meta, check_beat).         *)
(*                                                                         *)
(* The chunk is a sequence of cells, one per byte, because the code keeps  *)
(* a byte pointer and adds the size of each event to it.  The first byte   *)
(* of an event is a cell of its kind; the bytes after it are cells of kind *)
(* "interval", which is how the loop reads any byte below 128 that it      *)
(* finds at the pointer.                                                   *)
(*                                                                         *)
(* A callback interrupts the event loop in the middle of its own event, so *)
(* the application's calls are enabled there as well as between ticks.     *)
(*                                                                         *)
(* History: played, the notes since the last start or branch; origin, the  *)
(* cell they began at; strayed, set when the pointer is moved by a size    *)
(* that is not the size of the event it points at.  Of the meter: base,    *)
(* the measure it is counted from; denom, its denominator as a power of 2, *)
(* -1 before the first time signature; beats and ticks, what was counted   *)
(* since; and elapsed, the time of those ticks minus the time those beats  *)
(* take when they are the notes that the signature says.                   *)
(***************************************************************************)
EXTENDS Integers, Sequences, SequencesExt

CONSTANTS
  Songs,      \* see Song below
  FOR_NEST,   \* loop counters of a sequence
  Fraction,   \* QUANT_TIME_16: time that passes per tick
  PerBeat,    \* the default of time_per_beat
  Numerator,  \* the default of time_numerator
  Calls,      \* calls the application makes: a subset of CallKinds
  MaxCalls    \* bound: how many it makes

CallKinds == {"start", "stop", "resume", "branch"}

(* A song is its cells, the cells its events start at, and the cells its   *)
(* branch markers stand for.  An event is followed by another unless it is *)
(* the end of the track, and a FOR or a NEXT takes three bytes.            *)
Song(s) ==
  /\ Len(s.cell) \in Nat /\ DOMAIN s.cell = 1 .. Len(s.cell)
  /\ s.starts \subseteq DOMAIN s.cell /\ 1 \in s.starts
  /\ s.cell[1].kind # "end"
  /\ \A p \in DOMAIN s.cell \ s.starts :
       s.cell[p].kind = "interval" /\ s.cell[p].size = 1 /\ s.cell[p].val \in 0 .. 127
  /\ \A p \in s.starts :
       LET e == s.cell[p] IN
       /\ e.size \in Nat \ {0}
       /\ e.kind # "end" => p + e.size \in s.starts
       /\ e.kind = "end" => p + e.size = Len(s.cell) + 1
       /\ e.kind \in {"for", "next", "callback"} => e.size = 3
       /\ e.kind \in {"interval", "note", "for", "next"} => e.val \in 0 .. 127
       /\ e.kind \in {"signature", "tempo"} => e.val \in Nat \ {0}
       /\ e.kind = "signature" => e.denom \in Nat
  /\ \A m \in DOMAIN s.marks : s.marks[m] \in s.starts /\ s.cell[s.marks[m]].kind # "end"

ASSUME StreamAssumption ==
  /\ \A s \in Songs : Song(s)
  /\ FOR_NEST \in Nat \ {0}
  /\ Fraction \in Nat /\ Fraction >= 4
  /\ PerBeat \in Nat \ {0}
  /\ Numerator \in Nat \ {0}
  /\ Calls \subseteq CallKinds
  /\ MaxCalls \in Nat

VARIABLES
  song,
  EVNT_ptr,       \* the number of a cell
  interval_cnt,
  status,         \* "stopped", "playing" or "done"
  seq_started,
  FOR_loop_cnt,   \* -1: unused
  FOR_ptrs,
  beat,           \* the meter: count, measure, frac, fraction, per_beat, numer
  pc,             \* "idle", "events" (in the event loop) or "callback"
  calls,
  played, origin, strayed, base, denom, beats, ticks, elapsed

loops   == <<FOR_loop_cnt, FOR_ptrs>>
place   == <<EVNT_ptr, interval_cnt, loops>>
history == <<played, origin, strayed>>
meter   == <<beat, base, denom, beats, ticks, elapsed>>
vars    == <<song, place, status, seq_started, meter, pc, calls, history>>

Depths == 0 .. FOR_NEST - 1

(* The event whose first byte is at the pointer, or the interval that the  *)
(* loop takes any other byte for.                                          *)
Event == song.cell[EVNT_ptr]
InChunk == EVNT_ptr \in DOMAIN song.cell

----------------------------------------------------------------------------
(* What a tick takes when a quarter note is counted as 2^d, which makes    *)
(* the note of a meter with the denominator 2^d the same for every d: 4    *)
(* times time_per_beat, the time of a quarter note.                        *)
TickTime(d) == IF d = -1 THEN 0 ELSE Fraction * 2 ^ d

(* The history of the meter begins anew: the driver counts the next tick   *)
(* as the first of the beat.                                               *)
NewMeter(measure, d) ==
  base' = measure /\ denom' = d /\ beats' = 0 /\ ticks' = 0 /\ elapsed' = -TickTime(d)

NoLoops == [d \in Depths |-> -1]

(* The part of rewind_seq that concerns position and meter.  FOR_ptrs is   *)
(* left as it is.                                                          *)
rewind_seq ==
  /\ FOR_loop_cnt' = NoLoops
  /\ interval_cnt' = 0
  /\ beat' = [count |-> 0, measure |-> -1, frac |-> 0, fraction |-> 0,
              per_beat |-> PerBeat, numer |-> Numerator]
  /\ NewMeter(-1, -1)
  /\ UNCHANGED FOR_ptrs

Init ==
  /\ song \in Songs
  /\ EVNT_ptr = 1
  /\ interval_cnt = 0
  /\ status = "stopped"
  /\ seq_started = FALSE
  /\ FOR_loop_cnt = NoLoops
  /\ FOR_ptrs = [d \in Depths |-> 1]
  /\ beat = [count |-> 0, measure |-> -1, frac |-> 0, fraction |-> 0,
             per_beat |-> PerBeat, numer |-> Numerator]
  /\ pc = "idle"
  /\ calls = 0
  /\ played = <<>> /\ origin = 1 /\ strayed = FALSE
  /\ base = -1 /\ denom = -1 /\ beats = 0 /\ ticks = 0 /\ elapsed = 0

----------------------------------------------------------------------------
(* The application's calls. *)

Call(c) ==
  /\ c \in Calls
  /\ pc \in {"idle", "callback"}
  /\ calls < MaxCalls /\ calls' = calls + 1
  /\ UNCHANGED <<song, pc>>

(* A move of the pointer to cell p; a new history begins there. *)
MoveTo(p) ==
  /\ EVNT_ptr' = p
  /\ played' = <<>> /\ origin' = p /\ strayed' = FALSE

start_seq ==
  /\ Call("start")
  /\ rewind_seq
  /\ MoveTo(1)
  /\ status' = "playing" /\ seq_started' = TRUE

stop_seq ==
  /\ Call("stop")
  /\ status = "playing" /\ status' = "stopped"
  /\ UNCHANGED <<place, seq_started, meter, history>>

resume_seq ==
  /\ Call("resume")
  /\ status = "stopped" /\ seq_started
  /\ status' = "playing"
  /\ UNCHANGED <<place, seq_started, meter, history>>

(* A marker the RBRN chunk does not hold, or a song without the chunk,     *)
(* changes nothing.                                                        *)
branch_index ==
  /\ Call("branch")
  /\ \E m \in DOMAIN song.marks : MoveTo(song.marks[m])
  /\ interval_cnt' = 0
  /\ FOR_loop_cnt' = NoLoops
  /\ UNCHANGED <<FOR_ptrs, status, seq_started, meter>>

----------------------------------------------------------------------------
(* The meter. *)

(* A beat is counted when frac, with the time of this tick, reaches        *)
(* time_per_beat: one beat per tick at most.                               *)
NewBeat == beat.frac + beat.fraction >= beat.per_beat

Advanced ==
  IF ~NewBeat THEN [beat EXCEPT !.frac = @ + beat.fraction]
  ELSE LET full == beat.count + 1 >= beat.numer IN
       [beat EXCEPT !.frac = @ + beat.fraction - beat.per_beat,
                    !.count = IF full THEN 0 ELSE @ + 1,
                    !.measure = IF full THEN @ + 1 ELSE @]

check_beat ==
  /\ beat' = Advanced
  /\ beats' = IF NewBeat THEN beats + 1 ELSE beats
  /\ ticks' = IF denom = -1 THEN ticks ELSE ticks + 1
  /\ elapsed' = elapsed + TickTime(denom) - (IF NewBeat THEN 4 * beat.per_beat ELSE 0)
  /\ UNCHANGED <<base, denom>>

(* What the application is told: the counters one tick ahead. *)
get_beat_count ==
  IF ~NewBeat THEN beat.count
  ELSE IF beat.count + 1 >= beat.numer THEN 0 ELSE beat.count + 1
get_bar_count ==
  IF NewBeat /\ beat.count + 1 >= beat.numer THEN beat.measure + 1 ELSE beat.measure

----------------------------------------------------------------------------
(* The service. *)

(* One tick of a playing sequence.  An interval that has not passed ends   *)
(* it; else the loop reads events until the next interval byte.            *)
process_tick ==
  /\ pc = "idle" /\ status = "playing"
  /\ interval_cnt' = interval_cnt - 1
  /\ \/ /\ interval_cnt - 1 > 0
        /\ check_beat
        /\ UNCHANGED pc
     \/ /\ interval_cnt - 1 <= 0
        /\ pc' = "events"
        /\ UNCHANGED meter
  /\ UNCHANGED <<song, EVNT_ptr, loops, status, seq_started, calls, history>>

(* The loop is at an event of this kind. *)
At(kind) == pc = "events" /\ InChunk /\ Event.kind = kind

(* Past the event, to stay in the loop. *)
Skip == EVNT_ptr' = EVNT_ptr + Event.size
Stay == UNCHANGED <<song, interval_cnt, status, seq_started, pc, calls, origin, strayed>>

interval ==
  /\ At("interval")
  /\ interval_cnt' = Event.val
  /\ Skip
  /\ check_beat
  /\ pc' = "idle"
  /\ UNCHANGED <<song, loops, status, seq_started, calls, history>>

(* A note and its duration. *)
note_on ==
  /\ At("note")
  /\ Skip /\ Stay
  /\ played' = Append(played, Event.val)
  /\ UNCHANGED <<loops, meter>>

(* Program, pitch, pressure, other controllers and other meta events. *)
other_event ==
  /\ At("other")
  /\ Skip /\ Stay
  /\ UNCHANGED <<loops, meter, played>>

(* The size that xmidi32_XMIDI_sysex returns counts the length and the     *)
(* data and leaves out the status byte: the pointer stays on the last byte *)
(* of the data.                                                            *)
XMIDI_sysex ==
  /\ At("sysex")
  /\ EVNT_ptr' = EVNT_ptr + Event.size - 1
  /\ strayed' = TRUE
  /\ UNCHANGED <<song, interval_cnt, status, seq_started, pc, calls, origin,
                 loops, meter, played>>

Unused == {d \in Depths : FOR_loop_cnt[d] = -1}

(* FOR takes the first unused slot and remembers its own place; with all   *)
(* slots in use it is ignored.                                             *)
FOR_LOOP ==
  /\ At("for") /\ Skip /\ Stay
  /\ \/ Unused = {} /\ UNCHANGED loops
     \/ \E d \in Unused :
          /\ \A f \in Unused : d <= f
          /\ FOR_loop_cnt' = [FOR_loop_cnt EXCEPT ![d] = Event.val]
          /\ FOR_ptrs' = [FOR_ptrs EXCEPT ![d] = EVNT_ptr]
  /\ UNCHANGED <<meter, played>>

(* Mutant of NEXT_LOOP: the slot of a finished loop is not given back. *)
next_keeps_slot ==
  /\ At("next") /\ Stay
  /\ \E d \in Depths \ Unused :
       /\ \A f \in Depths \ Unused : d >= f
       /\ FOR_loop_cnt' = [FOR_loop_cnt EXCEPT ![d] = IF @ <= 1 THEN 0 ELSE @ - 1]
       /\ EVNT_ptr' = IF FOR_loop_cnt[d] <= 1 THEN EVNT_ptr + Event.size
                      ELSE FOR_ptrs[d] + Event.size
  /\ UNCHANGED <<FOR_ptrs, meter, played>>

(* Mutant of NEXT_LOOP: a loop that is done goes on. *)
next_never_ends ==
  /\ At("next") /\ Stay
  /\ \/ /\ Event.val < 64 \/ Unused = Depths
        /\ Skip
     \/ /\ Event.val >= 64
        /\ \E d \in Depths \ Unused :
             /\ \A f \in Depths \ Unused : d >= f
             /\ EVNT_ptr' = FOR_ptrs[d] + Event.size
  /\ UNCHANGED <<loops, meter, played>>

(* NEXT counts the innermost loop down and either gives its slot back or   *)
(* returns to the FOR, which the loop then steps over as it would have     *)
(* stepped over the NEXT.  A break (value below 64) does nothing.          *)
NEXT_LOOP ==
  /\ At("next") /\ Stay
  /\ \/ /\ Event.val < 64 \/ Unused = Depths
        /\ Skip /\ UNCHANGED FOR_loop_cnt
     \/ /\ Event.val >= 64
        /\ \E d \in Depths \ Unused :
             /\ \A f \in Depths \ Unused : d >= f
             /\ \/ /\ FOR_loop_cnt[d] <= 1
                   /\ FOR_loop_cnt' = [FOR_loop_cnt EXCEPT ![d] = -1]
                   /\ Skip
                \/ /\ FOR_loop_cnt[d] > 1
                   /\ FOR_loop_cnt' = [FOR_loop_cnt EXCEPT ![d] = @ - 1]
                   /\ EVNT_ptr' = FOR_ptrs[d] + Event.size
  /\ UNCHANGED <<FOR_ptrs, meter, played>>

(* Mutant of SignatureFraction: shifted left for half and whole notes. *)
signature_multiplies(d) ==
  IF d >= 2 THEN Fraction \div (2 ^ (d - 2)) ELSE Fraction * 2 ^ (2 - d)

(* A time signature: base is shifted right for every denominator exponent  *)
(* away from the quarter, on either side of it.                            *)
SignatureFraction(d) ==
  LET exp == IF d >= 2 THEN d - 2 ELSE 2 - d
      scaled == Fraction \div (2 ^ exp)
  IN IF scaled = 0 THEN 1 ELSE scaled

time_signature ==
  /\ At("signature") /\ Skip /\ Stay
  /\ LET f == SignatureFraction(Event.denom) IN
     beat' = [beat EXCEPT !.numer = Event.val, !.fraction = f, !.frac = -f,
                          !.count = 0, !.measure = @ + 1]
  /\ NewMeter(beat.measure + 1, Event.denom)
  /\ UNCHANGED <<loops, played>>

set_tempo ==
  /\ At("tempo") /\ Skip /\ Stay
  /\ beat' = [beat EXCEPT !.per_beat = Event.val]
  /\ UNCHANGED <<loops, played, base, denom, beats, ticks, elapsed>>

CLEAR_BEAT_BAR ==
  /\ At("clear") /\ Skip /\ Stay
  /\ beat' = [beat EXCEPT !.count = 0, !.measure = 0, !.frac = -beat.fraction]
  /\ NewMeter(0, denom)
  /\ UNCHANGED <<loops, played>>

(* A call made in the callback has moved the pointer. *)
Moved == Event.kind # "callback"

(* The application's function is called with the pointer still at the      *)
(* event.                                                                  *)
CALLBACK_TRIG ==
  /\ At("callback")
  /\ pc' = "callback"
  /\ UNCHANGED <<song, place, status, seq_started, calls, meter, history>>

(* Mutant of callback_returns: the sizes of both events are added when a   *)
(* call has moved the pointer.                                             *)
return_skips_twice ==
  /\ pc = "callback"
  /\ EVNT_ptr' = EVNT_ptr + (IF Moved THEN 4 ELSE 3)
  /\ origin' = IF Moved THEN EVNT_ptr + 3 ELSE origin
  /\ strayed' = (strayed \/ Event.size # 3)
  /\ pc' = IF status = "playing" THEN "events" ELSE "idle"
  /\ UNCHANGED <<song, interval_cnt, loops, status, seq_started, calls, meter, played>>

(* The loop adds the size of a controller to wherever the pointer is now,  *)
(* and leaves the sequence if it no longer plays.                          *)
callback_returns ==
  /\ pc = "callback"
  /\ EVNT_ptr' = EVNT_ptr + 3
  /\ origin' = IF Moved THEN EVNT_ptr + 3 ELSE origin
  /\ strayed' = (strayed \/ Event.size # 3)
  /\ pc' = IF status = "playing" THEN "events" ELSE "idle"
  /\ UNCHANGED <<song, interval_cnt, loops, status, seq_started, calls, meter, played>>

end_of_track ==
  /\ At("end")
  /\ Skip
  /\ status' = "done"
  /\ pc' = "idle"
  /\ UNCHANGED <<song, interval_cnt, loops, seq_started, calls, meter, history>>

Service ==
  \/ process_tick \/ interval \/ note_on \/ other_event \/ XMIDI_sysex
  \/ FOR_LOOP \/ NEXT_LOOP \/ time_signature \/ set_tempo \/ CLEAR_BEAT_BAR
  \/ CALLBACK_TRIG \/ callback_returns \/ end_of_track

Next == start_seq \/ stop_seq \/ resume_seq \/ branch_index \/ Service

Spec == Init /\ [][Next]_vars

(* The timer interrupt keeps coming, and the loop and the callback return. *)
FairSpec == Spec /\ WF_vars(Service)

----------------------------------------------------------------------------
(* Properties. *)

TypeOK ==
  /\ song \in Songs
  /\ EVNT_ptr \in Int /\ origin \in Int
  /\ interval_cnt \in Int
  /\ status \in {"stopped", "playing", "done"}
  /\ pc \in {"idle", "events", "callback"}
  /\ pc = "events" => status = "playing"
  /\ seq_started \in BOOLEAN /\ strayed \in BOOLEAN
  /\ FOR_loop_cnt \in [Depths -> -1 .. 127]
  /\ FOR_ptrs \in [Depths -> Int]
  /\ calls \in 0 .. MaxCalls

(* The loops in use are a stack: they fill the slots from 0, and each one  *)
(* remembers a FOR and has at most that FOR's number of rounds left        *)
(* (control.c 46-72), whatever breaks, branches and full stacks came       *)
(* before.                                                                 *)
LoopStack ==
  \A d \in Depths : FOR_loop_cnt[d] # -1 =>
    /\ \A f \in 0 .. d : FOR_loop_cnt[f] # -1
    /\ FOR_ptrs[d] \in song.starts
    /\ song.cell[FOR_ptrs[d]].kind = "for"
    /\ FOR_loop_cnt[d] <= song.cell[FOR_ptrs[d]].val

(* The loop only ever looks at the first byte of an event: the sizes that  *)
(* the handlers return (serve.c 63-155) keep the pointer on the borders of *)
(* events, through loops, branches and calls from callbacks, except where  *)
(* strayed says that a size was wrong; and so do the pointers of the loops. *)
Aligned ==
  /\ strayed \/ status = "done" \/ EVNT_ptr \in song.starts
  /\ LoopStack

(* The notes of a loop's body, n times over. *)
Repeat(n, notes) ==
  LET times[i \in 0 .. 127] == IF i = 0 THEN <<>> ELSE notes \o times[i - 1]
  IN times[n]

(* The loops that the driver plays as documented: none of 0 rounds, which  *)
(* are to go on for ever, and no break, which is to leave the loop.        *)
PlainLoops(s) ==
  \A p \in s.starts :
    /\ s.cell[p].kind = "for" => s.cell[p].val # 0
    /\ s.cell[p].kind = "next" => s.cell[p].val >= 64

(* What song s plays from the event at p, for each number of loops that    *)
(* may be open there: the notes up to the NEXT that closes the innermost   *)
(* of them, every loop between written out, and the place of that NEXT, 0  *)
(* when the track ends first.  A loop that is never closed is played once, *)
(* and a FOR inside FOR_NEST loops is no loop.  text holds the same for    *)
(* the events after p.                                                     *)
TextAt(s, text, p) ==
  LET e == s.cell[p]
      After(q) == q + s.cell[q].size
      looped(loop, rest) ==
        [notes |-> Repeat(e.val, loop.notes) \o rest.notes, close |-> rest.close]
  IN [d \in 0 .. FOR_NEST |->
       IF e.kind = "end" THEN [notes |-> <<>>, close |-> 0]
       ELSE IF e.kind = "next" /\ d > 0 THEN [notes |-> <<>>, close |-> p]
       ELSE IF e.kind = "for" /\ d < FOR_NEST
       THEN LET loop == text[After(p)][d + 1] IN
            IF loop.close = 0 THEN loop ELSE looped(loop, text[After(loop.close)][d])
       ELSE LET rest == text[After(p)][d] IN
            [notes |-> (IF e.kind = "note" THEN <<e.val>> ELSE <<>>) \o rest.notes,
             close |-> rest.close]]

Text(s) == LET text[p \in s.starts] == TextAt(s, text, p) IN text

(* The notes of the song from an event on, with every loop written out. *)
Unrolled(from) == Text(song)[from][0].notes

(* What is heard since the last start or branch is the unrolled text from  *)
(* there, up to the event reached, and all of it once the track has ended: *)
(* no loop of a song with plain loops runs a round more or less than its   *)
(* FOR says.                                                               *)
PlaysUnrolled ==
  (PlainLoops(song) /\ ~strayed /\ pc # "callback") =>
     /\ IsPrefix(played, Unrolled(origin))
     /\ ~InChunk => played = Unrolled(origin)

(* The beats that a meter counts from the measure b on. *)
BeatsSince(m, b) == m.count + m.numer * (m.measure - b)

(* What the driver drops of each tick's time when the beat is no quarter.  *)
Lost(d) == TickTime(d) % 4

(* The times of a quarter note in a song. *)
Tempos(s) ==
  {PerBeat} \cup {s.cell[p].val : p \in {q \in s.starts : s.cell[q].kind = "tempo"}}

(* The counters the application reads (meta.c 25-45, serve.c 168-181) are  *)
(* right: measures and beats are the beats that went by; and in a meter of *)
(* whole, half or quarter notes those beats are, note for note, the time   *)
(* of the ticks, but for what each tick drops, through every change of     *)
(* tempo and Clear Beat/Bar.  No beat is counted before its time, and,     *)
(* when no quarter note is shorter than a tick, none a beat too late.      *)
MeterExact ==
  /\ beat.count < beat.numer
  /\ BeatsSince(beat, base) = beats
  /\ denom \in 0 .. 2 =>
       /\ elapsed = 4 * beat.frac + (ticks - 1) * Lost(denom)
       /\ -beat.fraction <= beat.frac
       /\ (\A t \in Tempos(song) : t >= Fraction) => \E t \in Tempos(song) : beat.frac < t

(* A song with plain loops ends, however they are nested, left open or cut *)
(* by branches, once the application no longer interferes: FOR and NEXT    *)
(* cannot keep a service in the event loop or a song in its chunk for ever. *)
SongEnds == PlainLoops(song) => <>[](status # "playing" \/ strayed)
============================================================================
