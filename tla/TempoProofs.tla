----------------------------- MODULE TempoProofs -----------------------------
(***************************************************************************)
(* The clock properties of Tempo for every tick size, quantum, tempo and   *)
(* ramp duration.                                                          *)
(***************************************************************************)
EXTENDS Tempo, TLAPS

(* The error of the window balances: what it began with plus one percentage *)
(* per service is what the ticks took plus what is left.                   *)
WindowBalance == base + served * tempo_percent = tempo_error + Unit * ran

(* Between services a sequence that has been served owes no tick. *)
NoBacklog == (pc = "idle" /\ status = "playing" /\ served > 0) => tempo_error < Unit

(* The time a ramp still needs fits in the time it has left. *)
RampBudget ==
  tempo_percent # tempo_target =>
    Distance(tempo_percent, tempo_target) * tempo_period - tempo_accum <= left

Inv == TypeOK /\ RampReady

LEMMA DivMod ==
  ASSUME NEW a \in Nat, NEW b \in Nat \ {0}
  PROVE  /\ a \div b \in Nat
         /\ a % b \in 0 .. (b - 1)
         /\ a = b * (a \div b) + (a % b)
  OBVIOUS

LEMMA PeriodPositive ==
  ASSUME NEW grad \in Nat, NEW delta \in Nat \ {0}
  PROVE  RampPeriod(grad, delta) \in Nat \ {0}
  BY DivMod DEF RampPeriod, Larger

LEMMA TowardType ==
  ASSUME NEW p \in Nat, NEW t \in Nat, NEW n \in Nat
  PROVE  Toward(p, t, n) \in Nat
  BY DEF Toward

(* A ramp step keeps the ramp well formed and the tempo a percentage. *)
LEMMA GradientStep ==
  ASSUME Inv, check_gradients, tempo_period' = tempo_period,
         tempo_target' = tempo_target
  PROVE  /\ tempo_percent' \in Nat
         /\ tempo_accum' \in Nat \cup {Uninit}
         /\ left' \in Int
         /\ RampReady'
<1>1. CASE tempo_percent = tempo_target
  BY <1>1 DEF Inv, TypeOK, check_gradients, RampReady
<1>2. CASE tempo_percent # tempo_target
  <2> DEFINE rem == tempo_accum + QuantStep
  <2>1. rem \in Nat /\ tempo_period \in Nat \ {0}
    BY <1>2, ClockAssumption DEF ClockAssumption, Inv, TypeOK, RampReady
  <2>2. rem \div tempo_period \in Nat /\ rem % tempo_period \in 0 .. (tempo_period - 1)
    BY <2>1, DivMod
  <2>3. tempo_percent' \in Nat
    BY <1>2, <2>2, TowardType DEF check_gradients, Inv, TypeOK
  <2>4. tempo_accum' \in 0 .. (tempo_period - 1)
    BY <1>2, <2>2 DEF check_gradients
  <2>5. left' \in Int
    BY <1>2, ClockAssumption DEF ClockAssumption, check_gradients, Inv, TypeOK
  <2> QED
    BY <2>1, <2>3, <2>4, <2>5 DEF RampReady
<1> QED
  BY <1>1, <1>2

LEMMA InvStep == Inv /\ [Next]_vars => Inv'
<1> SUFFICES ASSUME Inv, [Next]_vars PROVE Inv'
  OBVIOUS
<1> USE ClockAssumption DEF ClockAssumption
<1>1. CASE register_seq
  <2>1. tempo_percent' = tempo_target' /\ tempo_percent' \in Nat
    BY <1>1 DEF register_seq, rewind_seq
  <2>2. TypeOK'
    BY <1>1 DEF register_seq, rewind_seq, NewWindow, Call, Inv, TypeOK
  <2> QED
    BY <2>1, <2>2 DEF Inv, RampReady
<1>2. CASE start_seq
  BY <1>2 DEF start_seq, rewind_seq, NewWindow, Call, Inv, TypeOK, RampReady
<1>3. CASE stop_seq
  BY <1>3 DEF stop_seq, ramp, window, Call, Inv, TypeOK, RampReady
<1>4. CASE resume_seq
  BY <1>4 DEF resume_seq, ramp, NewWindow, Call, Inv, TypeOK, RampReady
<1>5. CASE release_seq
  BY <1>5 DEF release_seq, ramp, window, Call, Inv, TypeOK, RampReady
<1>6. CASE set_rel_tempo
  <2>1. PICK tempo \in Tempos, grad \in Grads :
          LET delta == Distance(tempo, tempo_percent) IN
          /\ Call
          /\ tempo_target' = tempo
          /\ \/ /\ grad = 0
                /\ tempo_percent' = tempo
                /\ left' = 0
                /\ NewWindow(tempo_error)
                /\ UNCHANGED <<tempo_accum, tempo_period>>
             \/ /\ grad # 0 /\ delta = 0
                /\ left' = 0
                /\ UNCHANGED <<tempo_percent, tempo_accum, tempo_period, window>>
             \/ /\ grad # 0 /\ delta # 0
                /\ tempo_period' = RampPeriod(grad, delta)
                /\ tempo_accum' = 0
                /\ left' = Larger(10 * grad, delta)
                /\ UNCHANGED <<tempo_percent, window>>
          /\ UNCHANGED <<status, seq_started, tempo_error, pc>>
    BY <1>6 DEF set_rel_tempo
  <2> DEFINE delta == Distance(tempo, tempo_percent)
  <2>2. tempo \in Nat /\ grad \in Nat /\ delta \in Nat
    BY DEF Inv, TypeOK, Distance
  <2>3. delta # 0 => RampPeriod(grad, delta) \in Nat \ {0}
    BY <2>2, PeriodPositive
  <2>4. Larger(10 * grad, delta) \in Nat
    BY <2>2 DEF Larger
  <2>5. TypeOK'
    BY <2>1, <2>2, <2>3, <2>4 DEF Inv, TypeOK, Call, NewWindow, window
  <2>6. RampReady'
    BY <2>1, <2>2, <2>3 DEF Inv, TypeOK, RampReady, Distance
  <2> QED
    BY <2>5, <2>6 DEF Inv
<1>7. CASE serve_no_tick
  <2>1. /\ tempo_percent' \in Nat /\ tempo_accum' \in Nat \cup {Uninit}
        /\ left' \in Int /\ RampReady'
    BY <1>7, GradientStep DEF serve_no_tick
  <2> QED
    BY <1>7, <2>1 DEF serve_no_tick, CountService, NewWindow, Inv, TypeOK
<1>8. CASE serve_tick
  BY <1>8 DEF serve_tick, CountService, ramp, Inv, TypeOK, RampReady
<1>9. CASE process_tick
  BY <1>9 DEF process_tick, ramp, Inv, TypeOK, RampReady
<1>10. CASE end_service
  <2>1. /\ tempo_percent' \in Nat /\ tempo_accum' \in Nat \cup {Uninit}
        /\ left' \in Int /\ RampReady'
    BY <1>10, GradientStep DEF end_service
  <2> QED
    BY <1>10, <2>1 DEF end_service, KeepWindow, NewWindow, window, Inv, TypeOK
<1>11. CASE end_of_track
  BY <1>11 DEF end_of_track, ramp, window, Inv, TypeOK, RampReady
<1>12. CASE next_seq
  BY <1>12 DEF next_seq, ramp, window, Inv, TypeOK, RampReady
<1>13. CASE UNCHANGED vars
  BY <1>13 DEF vars, ramp, window, Inv, TypeOK, RampReady
<1> QED
  BY <1>1, <1>2, <1>3, <1>4, <1>5, <1>6, <1>7, <1>8, <1>9, <1>10, <1>11, <1>12,
     <1>13 DEF Next

LEMMA InvInit == Init => Inv
  BY ClockAssumption DEF ClockAssumption, Init, Inv, TypeOK, RampReady

THEOREM TypeCorrect == Spec => []TypeOK
<1>1. Inv => TypeOK
  BY DEF Inv
<1> QED
  BY <1>1, InvInit, InvStep, PTL DEF Spec

(* No ramp ever reads a period or a remainder that was not written, and    *)
(* none divides by zero, in any order of calls, callbacks and services.    *)
THEOREM RampReadyAlways == Spec => []RampReady
<1>1. Inv => RampReady
  BY DEF Inv
<1> QED
  BY <1>1, InvInit, InvStep, PTL DEF Spec

(* No ramp step overshoots its target or turns back. *)
THEOREM RampMonotoneAlways == Spec => RampMonotone
<1> DEFINE Towards ==
      \/ tempo_percent' = tempo_percent
      \/ tempo_percent' = tempo_target'
      \/ tempo_percent < tempo_percent' /\ tempo_percent' < tempo_target'
      \/ tempo_target' < tempo_percent' /\ tempo_percent' < tempo_percent
<1>1. ASSUME Inv, check_gradients, tempo_target' = tempo_target
      PROVE  Towards
  <2>1. CASE tempo_percent = tempo_target
    BY <1>1, <2>1 DEF check_gradients
  <2>2. CASE tempo_percent # tempo_target
    <3> DEFINE steps == (tempo_accum + QuantStep) \div tempo_period
    <3>1. tempo_accum + QuantStep \in Nat /\ tempo_period \in Nat \ {0}
      BY <1>1, <2>2, ClockAssumption DEF ClockAssumption, Inv, TypeOK, RampReady
    <3>2. steps \in Nat
      BY <3>1, DivMod
    <3>3. tempo_percent' = Toward(tempo_percent, tempo_target, steps)
      BY <1>1, <2>2 DEF check_gradients
    <3> HIDE DEF steps
    <3> QED
      BY <1>1, <3>2, <3>3 DEF Toward, Inv, TypeOK
  <2> QED
    BY <2>1, <2>2
<1>2. Inv /\ [Next]_vars => [Towards]_vars
  <2> SUFFICES ASSUME Inv, Next PROVE Towards
    OBVIOUS
  <2>1. CASE serve_no_tick
    BY <2>1, <1>1 DEF serve_no_tick
  <2>2. CASE end_service
    BY <2>2, <1>1 DEF end_service
  <2>3. CASE register_seq \/ start_seq
    BY <2>3 DEF register_seq, start_seq, rewind_seq
  <2>4. CASE set_rel_tempo
    BY <2>4 DEF set_rel_tempo
  <2>5. CASE stop_seq \/ resume_seq \/ release_seq \/ serve_tick \/ process_tick
             \/ end_of_track \/ next_seq
    BY <2>5 DEF stop_seq, resume_seq, release_seq, serve_tick, process_tick,
                end_of_track, next_seq
  <2> QED
    BY <2>1, <2>2, <2>3, <2>4, <2>5 DEF Next
<1> QED
  BY <1>2, InvInit, InvStep, PTL DEF Spec, RampMonotone

(* A service that leaves the sequence playing has run every tick it owed. *)
THEOREM ServeCatchesUpAlways == Spec => ServeCatchesUp
<1>1. Next => ((pc = "tick" /\ pc' = "idle" /\ status' = "playing") => tempo_error' < Unit)
  BY DEF Next, register_seq, start_seq, stop_seq, resume_seq, release_seq,
         set_rel_tempo, serve_no_tick, serve_tick, process_tick, end_service,
         end_of_track, next_seq
<1> QED
  BY <1>1, PTL DEF Spec, ServeCatchesUp

----------------------------------------------------------------------------
LEMMA WindowStep ==
  ASSUME Inv, WindowBalance, NoBacklog, [Next]_vars
  PROVE  WindowBalance' /\ NoBacklog'
<1> USE ClockAssumption DEF ClockAssumption, Inv, TypeOK
<1>1. CASE register_seq \/ start_seq
  BY <1>1 DEF register_seq, start_seq, rewind_seq, NewWindow, WindowBalance, NoBacklog
<1>2. CASE stop_seq \/ release_seq \/ end_of_track \/ next_seq
  BY <1>2 DEF stop_seq, release_seq, end_of_track, next_seq, window,
              WindowBalance, NoBacklog
<1>3. CASE resume_seq
  BY <1>3 DEF resume_seq, NewWindow, WindowBalance, NoBacklog
<1>4. CASE set_rel_tempo
  BY <1>4 DEF set_rel_tempo, NewWindow, window, WindowBalance, NoBacklog
<1>5. CASE serve_no_tick
  <2>1. tempo_percent' \in Nat
    BY <1>5, GradientStep DEF serve_no_tick
  <2>2. CASE tempo_percent' = tempo_percent /\ served # Unit
    <3>1. (served + 1) * tempo_percent = served * tempo_percent + tempo_percent
      OBVIOUS
    <3> QED
      BY <1>5, <2>2, <3>1 DEF serve_no_tick, CountService, WindowBalance, NoBacklog
  <2>3. CASE tempo_percent' = tempo_percent /\ served = Unit
    BY <1>5, <2>3 DEF serve_no_tick, CountService, WindowBalance, NoBacklog
  <2>4. CASE tempo_percent' # tempo_percent
    <3>1. served' = 0 /\ ran' = 0 /\ base' = tempo_error'
      BY <1>5, <2>4 DEF serve_no_tick, NewWindow
    <3>2. tempo_error' \in Nat
      BY <1>5 DEF serve_no_tick
    <3> QED
      BY <2>1, <3>1, <3>2 DEF WindowBalance, NoBacklog
  <2> QED
    BY <2>2, <2>3, <2>4
<1>6. CASE serve_tick
  <2>1. CASE served # Unit
    <3>1. (served + 1) * tempo_percent = served * tempo_percent + tempo_percent
      OBVIOUS
    <3>2. Unit * (ran + 1) = Unit * ran + Unit
      OBVIOUS
    <3> QED
      BY <1>6, <2>1, <3>1, <3>2 DEF serve_tick, CountService, WindowBalance, NoBacklog
  <2>2. CASE served = Unit
    BY <1>6, <2>2 DEF serve_tick, CountService, WindowBalance, NoBacklog
  <2> QED
    BY <2>1, <2>2
<1>7. CASE process_tick
  <2>1. Unit * (ran + 1) = Unit * ran + Unit
    OBVIOUS
  <2> QED
    BY <1>7, <2>1 DEF process_tick, WindowBalance, NoBacklog
<1>8. CASE end_service
  <2>1. tempo_percent' \in Nat
    BY <1>8, GradientStep DEF end_service
  <2> QED
    BY <1>8, <2>1 DEF end_service, KeepWindow, NewWindow, window, WindowBalance, NoBacklog
<1>9. CASE UNCHANGED vars
  BY <1>9 DEF vars, window, WindowBalance, NoBacklog
<1> QED
  BY <1>1, <1>2, <1>3, <1>4, <1>5, <1>6, <1>7, <1>8, <1>9 DEF Next

(* Two balances below a Unit apart run the same number of ticks. *)
LEMMA SameTicks ==
  ASSUME NEW u \in Nat \ {0}, NEW p \in Nat, NEW k \in Nat,
         NEW b \in 0 .. (u - 1), NEW e \in 0 .. (u - 1),
         b + u * p = e + u * k
  PROVE  p = k
<1>1. u * (p - k) = e - b
  OBVIOUS
<1>2. ASSUME p - k >= 1 PROVE FALSE
  <2>1. u * (p - k) >= u
    BY <1>2
  <2> QED
    BY <1>1, <2>1
<1>3. ASSUME p - k <= -1 PROVE FALSE
  <2>1. u * (p - k) <= -u
    BY <1>3
  <2> QED
    BY <1>1, <2>1
<1> QED
  BY <1>2, <1>3

(* Over Unit services at a steady tempo exactly tempo_percent ticks run,   *)
(* for every tempo and every remainder the window starts with.             *)
THEOREM PaceExactAlways == Spec => []PaceExact
<1> DEFINE I == Inv /\ WindowBalance /\ NoBacklog
<1>1. Init => I
  BY InvInit, ClockAssumption DEF ClockAssumption, Init, WindowBalance, NoBacklog
<1>2. I /\ [Next]_vars => I'
  BY InvStep, WindowStep
<1>3. I => PaceExact
  <2> SUFFICES ASSUME I, served = Unit, pc = "idle", status = "playing", base < Unit
               PROVE  ran = tempo_percent
    BY DEF PaceExact
  <2>1. tempo_error \in 0 .. (Unit - 1) /\ base \in 0 .. (Unit - 1)
    BY ClockAssumption DEF ClockAssumption, Inv, TypeOK, NoBacklog
  <2>2. base + Unit * tempo_percent = tempo_error + Unit * ran
    BY DEF WindowBalance
  <2> QED
    BY <2>1, <2>2, SameTicks, ClockAssumption DEF ClockAssumption, Inv, TypeOK
<1> QED
  BY <1>1, <1>2, <1>3, PTL DEF Spec

----------------------------------------------------------------------------
LEMMA TowardShortens ==
  ASSUME NEW p \in Nat, NEW t \in Nat, NEW n \in Nat, p # t, Toward(p, t, n) # t
  PROVE  Distance(Toward(p, t, n), t) = Distance(p, t) - n
  BY DEF Toward, Distance

LEMMA BudgetGradients ==
  ASSUME Inv, RampBudget, check_gradients, tempo_target' = tempo_target,
         tempo_period' = tempo_period
  PROVE  RampBudget'
<1>1. CASE tempo_percent = tempo_target
  BY <1>1 DEF check_gradients, RampBudget
<1>2. CASE tempo_percent # tempo_target /\ tempo_percent' # tempo_target'
  <2> DEFINE rem == tempo_accum + QuantStep
             n == rem \div tempo_period
             D == Distance(tempo_percent, tempo_target)
  <2>1. /\ rem \in Nat /\ tempo_period \in Nat \ {0} /\ D \in Nat
        /\ QuantStep \in Nat /\ tempo_accum \in Nat
    BY <1>2, ClockAssumption DEF ClockAssumption, Inv, TypeOK, RampReady, Distance
  <2> HIDE DEF rem
  <2>2. n \in Nat /\ rem = tempo_period * n + (rem % tempo_period)
        /\ rem % tempo_period \in Nat
    BY <2>1, DivMod
  <2>3. /\ tempo_percent' = Toward(tempo_percent, tempo_target, n)
        /\ tempo_accum' = rem % tempo_period
        /\ left' = left - QuantStep
    BY <1>2 DEF check_gradients, rem
  <2> HIDE DEF n
  <2>4. Distance(tempo_percent, tempo_target)' = D - n
    <3>1. tempo_percent \in Nat /\ tempo_target \in Nat /\ tempo_percent # tempo_target
      BY <1>2 DEF Inv, TypeOK
    <3>2. Toward(tempo_percent, tempo_target, n) # tempo_target
      BY <1>2, <2>3
    <3>3. Distance(Toward(tempo_percent, tempo_target, n), tempo_target) = D - n
      BY <3>1, <3>2, <2>2, TowardShortens
    <3> QED
      BY <2>3, <3>3 DEF Distance
  <2>5. D * tempo_period - tempo_accum <= left
    BY <1>2 DEF RampBudget
  <2>6. (D - n) * tempo_period = D * tempo_period - tempo_period * n
    BY <2>1, <2>2
  <2>7. D * tempo_period \in Int /\ tempo_period * n \in Int /\ left \in Int
    BY <2>1, <2>2 DEF Inv, TypeOK
  <2> HIDE DEF D
  <2>8. (D - n) * tempo_period - tempo_accum' <= left'
    BY <2>1, <2>2, <2>3, <2>5, <2>6, <2>7 DEF rem
  <2> QED
    BY <1>2, <2>4, <2>8 DEF RampBudget
<1> QED
  BY <1>1, <1>2 DEF RampBudget

LEMMA BudgetStart ==
  ASSUME NEW grad \in Nat, NEW delta \in Nat \ {0}
  PROVE  delta * RampPeriod(grad, delta) <= Larger(10 * grad, delta)
<1> DEFINE q == (10 * grad) \div delta
<1>1. q \in Nat /\ delta * q <= 10 * grad
  <2>1. 10 * grad \in Nat
    OBVIOUS
  <2>2. q \in Nat /\ (10 * grad) % delta \in Nat
        /\ 10 * grad = delta * q + ((10 * grad) % delta)
    BY <2>1, DivMod
  <2> HIDE DEF q
  <2>3. delta * q \in Nat
    BY <2>2
  <2> QED
    BY <2>1, <2>2, <2>3
<1>2. CASE q >= 1
  BY <1>1, <1>2 DEF RampPeriod, Larger
<1>3. CASE ~(q >= 1)
  BY <1>1, <1>3 DEF RampPeriod, Larger
<1> QED
  BY <1>2, <1>3

LEMMA BudgetStep ==
  ASSUME Inv, RampBudget, [Next]_vars
  PROVE  RampBudget'
<1>1. CASE register_seq \/ start_seq
  BY <1>1 DEF register_seq, start_seq, rewind_seq, RampBudget
<1>2. CASE stop_seq \/ resume_seq \/ release_seq \/ serve_tick \/ process_tick
           \/ end_of_track \/ next_seq \/ UNCHANGED vars
  BY <1>2 DEF stop_seq, resume_seq, release_seq, serve_tick, process_tick,
              end_of_track, next_seq, vars, ramp, RampBudget
<1>3. CASE serve_no_tick \/ end_service
  BY <1>3, BudgetGradients DEF serve_no_tick, end_service
<1>4. CASE set_rel_tempo
  <2>1. CASE tempo_percent' = tempo_target'
    BY <2>1 DEF RampBudget
  <2>2. CASE tempo_percent' # tempo_target'
    <3>1. PICK tempo \in Tempos, grad \in Grads :
            LET delta == Distance(tempo, tempo_percent) IN
            /\ tempo_target' = tempo /\ tempo_percent' = tempo_percent
            /\ tempo_period' = RampPeriod(grad, delta)
            /\ tempo_accum' = 0
            /\ left' = Larger(10 * grad, delta)
      <4>1. PICK tempo \in Tempos, grad \in Grads :
              LET delta == Distance(tempo, tempo_percent) IN
              /\ tempo_target' = tempo
              /\ \/ tempo_percent' = tempo
                 \/ delta = 0 /\ tempo_percent' = tempo_percent
                 \/ /\ tempo_percent' = tempo_percent
                    /\ tempo_period' = RampPeriod(grad, delta)
                    /\ tempo_accum' = 0
                    /\ left' = Larger(10 * grad, delta)
        BY <1>4 DEF set_rel_tempo
      <4>2. Distance(tempo, tempo_percent) = 0 => tempo = tempo_percent
        BY ClockAssumption DEF ClockAssumption, Distance, Inv, TypeOK
      <4> QED
        BY <2>2, <4>1, <4>2
    <3> DEFINE delta == Distance(tempo, tempo_percent)
    <3>2. /\ tempo \in Nat /\ grad \in Nat /\ delta \in Nat \ {0}
          /\ Distance(tempo_percent, tempo_target)' = delta
      <4>1. tempo \in Nat /\ grad \in Nat /\ tempo_percent \in Nat
        BY ClockAssumption DEF ClockAssumption, Inv, TypeOK
      <4>2. tempo # tempo_percent
        BY <2>2, <3>1
      <4>3. Distance(tempo_percent, tempo_target)' = delta
        BY <3>1, <4>1, <4>2 DEF Distance
      <4> QED
        BY <4>1, <4>2, <4>3 DEF Distance
    <3>3. delta * RampPeriod(grad, delta) <= Larger(10 * grad, delta)
      BY <3>2, BudgetStart
    <3>4. RampPeriod(grad, delta) \in Nat
      BY <3>2, PeriodPositive
    <3> HIDE DEF delta
    <3>5. delta * tempo_period' - tempo_accum' <= left'
      BY <3>1, <3>2, <3>3, <3>4 DEF delta
    <3> QED
      BY <3>2, <3>5 DEF RampBudget
  <2> QED
    BY <2>1, <2>2
<1> QED
  BY <1>1, <1>2, <1>3, <1>4 DEF Next

(* No ramp takes longer than the duration it was given (or, when that is   *)
(* less than a unit per point, than one unit per point).                   *)
THEOREM RampOnTimeAlways == Spec => []RampOnTime
<1> DEFINE I == Inv /\ RampBudget
<1>1. Init => I
  BY InvInit DEF Init, RampBudget
<1>2. I /\ [Next]_vars => I'
  BY InvStep, BudgetStep
<1>3. I => RampOnTime
  <2> SUFFICES ASSUME I, tempo_percent # tempo_target PROVE left > 0
    BY DEF RampOnTime, Inv
  <2> DEFINE D == Distance(tempo_percent, tempo_target)
  <2>1. /\ D \in Nat \ {0} /\ tempo_period \in Nat \ {0}
        /\ tempo_accum \in 0 .. (tempo_period - 1)
    BY DEF Inv, TypeOK, RampReady, Distance
  <2>2. D * tempo_period - tempo_accum <= left
    BY DEF RampBudget
  <2>3. D * tempo_period >= tempo_period
    BY <2>1
  <2> HIDE DEF D
  <2> QED
    BY <2>1, <2>2, <2>3 DEF Inv, TypeOK
<1> QED
  BY <1>1, <1>2, <1>3, PTL DEF Spec

============================================================================
