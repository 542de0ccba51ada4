------------------------------- MODULE Tempo -------------------------------
(***************************************************************************)
(* The clock of one sequence: the tempo accumulator of the timer service   *)
(* (xmidi32_serve_driver) and the tempo ramp that AIL_set_relative_tempo   *)
(* starts (xmidi32_set_rel_tempo).                                         *)
(*                                                                         *)
(* Each call of the timer service adds tempo_percent to tempo_error and    *)
(* runs one sequencer tick for every Unit (100) it holds.  A tick may run  *)
(* the application's callback, and the callback may call the library:      *)
(* the service is therefore cut at the ticks, and the API actions are      *)
(* enabled inside a tick as well as between two services.                  *)
(*                                                                         *)
(* Three history variables record what the code does not: left, the time   *)
(* the ramp was given and has not used yet; served and ran, the services   *)
(* since the tempo last changed and the ticks they ran; base, the error    *)
(* that window began with.                                                 *)
(***************************************************************************)
EXTENDS Integers

CONSTANTS
  Unit,       \* 100: percent points that make a tick
  QuantStep,  \* QUANT_TIME / 100: ramp time that passes per service
  Tempos,     \* tempo percentages the application asks for
  Grads,      \* ramp durations it asks for, in milliseconds
  MaxCalls,   \* bound: library calls the application makes
  Uninit      \* content of a field of the caller's state block never written

ASSUME ClockAssumption ==
  /\ Unit \in Nat \ {0}
  /\ QuantStep \in Nat \ {0}
  /\ Tempos \subseteq Nat
  /\ Grads \subseteq Nat
  /\ MaxCalls \in Nat
  /\ Uninit \notin Int

VARIABLES
  status,         \* "free" (no handle), "stopped", "playing" or "done"
  seq_started,
  tempo_error,
  tempo_percent,
  tempo_target,
  tempo_accum,
  tempo_period,
  pc,             \* "tick" while the service is in the event loop of a tick, else "idle"
  calls,          \* library calls made so far
  left,
  served,
  ran,
  base

ramp    == <<tempo_target, tempo_accum, tempo_period, left>>
window  == <<served, ran, base>>
vars    == <<status, seq_started, tempo_error, tempo_percent, ramp, pc,
             calls, window>>

Larger(a, b) == IF a >= b THEN a ELSE b
Distance(a, b) == IF a >= b THEN a - b ELSE b - a

----------------------------------------------------------------------------
(* A window of history starts over when the tempo or the error is set. *)
NewWindow(err) == served' = 0 /\ ran' = 0 /\ base' = err

(* The part of rewind_seq that concerns the clock.  tempo_period and       *)
(* tempo_accum keep whatever the caller's block held.                      *)
rewind_seq ==
  /\ tempo_percent' = Unit
  /\ tempo_target' = Unit
  /\ tempo_error' = 0
  /\ left' = 0
  /\ NewWindow(0)

Init ==
  /\ status = "free"
  /\ seq_started = 0
  /\ tempo_error = 0
  /\ tempo_percent = Unit
  /\ tempo_target = Unit
  /\ tempo_accum = Uninit
  /\ tempo_period = Uninit
  /\ pc = "idle"
  /\ calls = 0
  /\ left = 0
  /\ served = 0 /\ ran = 0 /\ base = 0

Call == calls < MaxCalls /\ calls' = calls + 1

(* The caller hands over a fresh block: the ramp fields are not written. *)
register_seq ==
  /\ Call
  /\ status = "free"
  /\ status' = "stopped"
  /\ seq_started' = 0
  /\ rewind_seq
  /\ tempo_accum' = Uninit
  /\ tempo_period' = Uninit
  /\ UNCHANGED pc

start_seq ==
  /\ Call
  /\ status # "free"
  /\ status' = "playing"
  /\ seq_started' = 1
  /\ rewind_seq
  /\ UNCHANGED <<tempo_accum, tempo_period, pc>>

stop_seq ==
  /\ Call
  /\ status = "playing"
  /\ status' = "stopped"
  /\ UNCHANGED <<seq_started, tempo_error, tempo_percent, ramp, pc, window>>

resume_seq ==
  /\ Call
  /\ status = "stopped" /\ seq_started # 0
  /\ status' = "playing"
  /\ NewWindow(tempo_error)
  /\ UNCHANGED <<seq_started, tempo_error, tempo_percent, ramp, pc>>

(* Releasing a playing sequence only marks it: its clock is not touched. *)
release_seq ==
  /\ Call
  /\ status \in {"stopped", "done"}
  /\ status' = "free"
  /\ UNCHANGED <<seq_started, tempo_error, tempo_percent, ramp, pc, window>>

period_rounded_up(grad, delta) == (10 * grad) \div delta + 1

RampPeriod(grad, delta) == Larger((10 * grad) \div delta, 1)

set_rel_tempo ==
  \E tempo \in Tempos, grad \in Grads :
    LET delta == Distance(tempo, tempo_percent) IN
    /\ Call
    /\ status # "free"
    /\ tempo_target' = tempo
    /\ \/ /\ grad = 0
          /\ tempo_percent' = tempo
          /\ left' = 0
          /\ NewWindow(tempo_error)
          /\ UNCHANGED <<tempo_accum, tempo_period>>
       \/ /\ grad # 0 /\ delta = 0
          /\ left' = 0
          /\ UNCHANGED <<tempo_percent, tempo_accum, tempo_period, window>>
       \/ /\ grad # 0 /\ delta # 0
          /\ tempo_period' = RampPeriod(grad, delta)
          /\ tempo_accum' = 0
          /\ left' = Larger(10 * grad, delta)
          /\ UNCHANGED <<tempo_percent, window>>
    /\ UNCHANGED <<status, seq_started, tempo_error, pc>>

----------------------------------------------------------------------------
(* check_gradients: whole ramp steps for the time that has passed, without *)
(* going past the target.                                                  *)
Toward(percent, target, steps) ==
  IF percent < target
    THEN IF percent + steps > target THEN target ELSE percent + steps
    ELSE IF percent - steps < target THEN target ELSE percent - steps

check_gradients ==
  IF tempo_percent = tempo_target
    THEN UNCHANGED <<tempo_percent, tempo_accum>> /\ left' = left
    ELSE LET rem == tempo_accum + QuantStep IN
         /\ tempo_accum' = rem % tempo_period
         /\ tempo_percent' =
              Toward(tempo_percent, tempo_target, rem \div tempo_period)
         /\ left' = left - QuantStep

(* A ramp step that changes the tempo ends the window. *)
KeepWindow(err) ==
  IF tempo_percent' = tempo_percent THEN UNCHANGED window ELSE NewWindow(err)

(* Adding tempo_percent to tempo_error counts a service. *)
CountService(ticks) ==
  IF served = Unit
    THEN served' = 1 /\ ran' = ticks /\ base' = tempo_error
    ELSE served' = served + 1 /\ ran' = ran + ticks /\ base' = base

(* Mutant of serve_no_tick: a service without a tick does not ramp. *)
serve_no_tick_no_ramp ==
  /\ pc = "idle"
  /\ status = "playing"
  /\ tempo_error + tempo_percent < Unit
  /\ tempo_error' = tempo_error + tempo_percent
  /\ CountService(0)
  /\ UNCHANGED <<status, seq_started, tempo_percent, ramp, pc, calls>>

(* The service reaches this sequence.  Short of a tick, it only ramps. *)
serve_no_tick ==
  /\ pc = "idle"
  /\ status = "playing"
  /\ tempo_error + tempo_percent < Unit
  /\ tempo_error' = tempo_error + tempo_percent
  /\ check_gradients
  /\ IF tempo_percent' = tempo_percent THEN CountService(0) ELSE NewWindow(tempo_error')
  /\ UNCHANGED <<status, seq_started, tempo_target, tempo_period, pc, calls>>

serve_tick ==
  /\ pc = "idle"
  /\ status = "playing"
  /\ tempo_error + tempo_percent >= Unit
  /\ tempo_error' = tempo_error + tempo_percent - Unit
  /\ pc' = "tick"
  /\ CountService(1)
  /\ UNCHANGED <<status, seq_started, tempo_percent, ramp, calls>>

(* Mutant of process_tick: further ticks of a service are forgotten. *)
process_tick_clears_error ==
  /\ pc = "tick"
  /\ status = "playing"
  /\ tempo_error >= Unit
  /\ tempo_error' = 0
  /\ ran' = ran + 1
  /\ UNCHANGED <<status, seq_started, tempo_percent, ramp, pc, calls, served, base>>

(* A tick ends and the accumulator still holds one more. *)
process_tick ==
  /\ pc = "tick"
  /\ status = "playing"
  /\ tempo_error >= Unit
  /\ tempo_error' = tempo_error - Unit
  /\ ran' = ran + 1
  /\ UNCHANGED <<status, seq_started, tempo_percent, ramp, pc, calls, served, base>>

(* The last tick of this service ends. *)
end_service ==
  /\ pc = "tick"
  /\ status = "playing"
  /\ tempo_error < Unit
  /\ pc' = "idle"
  /\ check_gradients
  /\ KeepWindow(tempo_error)
  /\ UNCHANGED <<status, seq_started, tempo_error, tempo_target, tempo_period, calls>>

(* The stream's end-of-track event (goto next_seq: no ramp step). *)
end_of_track ==
  /\ pc = "tick"
  /\ status = "playing"
  /\ status' = "done"
  /\ pc' = "idle"
  /\ UNCHANGED <<seq_started, tempo_error, tempo_percent, ramp, calls, window>>

(* The callback stopped or released the sequence: the event loop sees it. *)
next_seq ==
  /\ pc = "tick"
  /\ status # "playing"
  /\ pc' = "idle"
  /\ UNCHANGED <<status, seq_started, tempo_error, tempo_percent, ramp, calls, window>>

Serve == serve_no_tick \/ serve_tick \/ process_tick \/ end_service \/ next_seq

Next ==
  \/ register_seq \/ start_seq \/ stop_seq \/ resume_seq \/ release_seq
  \/ set_rel_tempo
  \/ serve_no_tick \/ serve_tick \/ process_tick \/ end_service
  \/ end_of_track \/ next_seq

Spec == Init /\ [][Next]_vars

(* The audio thread calls the service at a fixed rate, and every tick's    *)
(* events end.                                                             *)
FairSpec == Spec /\ WF_vars(Serve)

----------------------------------------------------------------------------
(* Types.  A period is written before it is used, so Uninit is a value of  *)
(* the two ramp fields only.                                               *)
TypeOK ==
  /\ status \in {"free", "stopped", "playing", "done"}
  /\ seq_started \in {0, 1}
  /\ tempo_error \in Nat
  /\ tempo_percent \in Nat
  /\ tempo_target \in Nat
  /\ tempo_accum \in Nat \cup {Uninit}
  /\ tempo_period \in (Nat \ {0}) \cup {Uninit}
  /\ pc \in {"idle", "tick"}
  /\ calls \in 0 .. MaxCalls
  /\ left \in Int
  /\ served \in 0 .. Unit /\ ran \in Nat /\ base \in Nat

(* Whenever a ramp is under way its period and remainder are numbers that  *)
(* set_rel_tempo wrote, the period is at least 1 and the remainder below   *)
(* it: the step-counting loop of check_gradients reads no field that       *)
(* rewind_seq left unset, and ends.                                        *)
RampReady ==
  tempo_percent # tempo_target =>
    /\ tempo_period \in Nat \ {0}
    /\ tempo_accum \in 0 .. (tempo_period - 1)

(* A ramp that is still under way has service time left of the duration it *)
(* was asked to take: truncating the period makes a ramp early, never      *)
(* late, except that it never moves faster than a point per 1/10 ms.  And  *)
(* the fields it goes by are ready.                                        *)
RampOnTime == RampReady /\ (tempo_percent # tempo_target => left > 0)

(* Whatever the target, the tempo only moves towards it: no ramp step      *)
(* overshoots or turns back, and a change of target moves nothing by       *)
(* itself.                                                                 *)
RampMonotone ==
  [][ \/ tempo_percent' = tempo_percent
      \/ tempo_percent' = tempo_target'
      \/ tempo_percent < tempo_percent' /\ tempo_percent' < tempo_target'
      \/ tempo_target' < tempo_percent' /\ tempo_percent' < tempo_percent ]_vars

(* The accumulator loses nothing: over Unit services at a steady tempo the *)
(* sequence runs exactly tempo_percent ticks, however the fractions fall,  *)
(* and whatever the callback did in between.                               *)
PaceExact ==
  (served = Unit /\ pc = "idle" /\ status = "playing" /\ base < Unit) =>
    ran = tempo_percent

(* A service that leaves the sequence playing has run every tick it owed. *)
ServeCatchesUp ==
  [][ (pc = "tick" /\ pc' = "idle" /\ status' = "playing") => tempo_error' < Unit ]_vars

(* A ramp ends: once the application makes no more calls, a sequence that  *)
(* goes on playing reaches the tempo it was given, tempo 0 included, where *)
(* no tick runs any more.                                                  *)
RampConverges ==
  (status = "playing") ~> (status # "playing" \/ tempo_percent = tempo_target)
=============================================================================
