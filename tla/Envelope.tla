------------------------------ MODULE Envelope ------------------------------
(***************************************************************************)
(* The envelope generator of one OPL3 operator: its level, the four phases *)
(* it goes through, and the chip-wide clock that paces the slow rates.     *)
(*                                                                         *)
(* The driver writes registers between two samples, as often as it likes;  *)
(* Sample is OPL3_EnvelopeCalc for the operator followed by the end of     *)
(* OPL3_Generate4Ch, which moves the clock.  Tremolo, total level and key  *)
(* scaling of the level are added to the level after this and are left out.*)
(***************************************************************************)
EXTENDS Integers, FiniteSets, FiniteSetsExt

CONSTANTS
  LEVELS,      \* 2^9: levels of attenuation, 0 the loudest
  OFF_BAND,    \* 8: levels from LEVELS - OFF_BAND up count as silence
  SL_UNIT,     \* 16: levels per step of the sustain level
  TOP,         \* 12: the rates below TOP are paced by the clock
  CLOCK,       \* 2^36: the clock wraps at CLOCK
  Patches,     \* [ar, dr, sl, rr, hold, ksr] register contents
  KeyScales    \* the values of ksv: block and one bit of the frequency

ASSUME EnvelopeAssumption ==
  /\ {LEVELS, OFF_BAND, SL_UNIT, TOP, CLOCK} \subseteq Nat \ {0}
  /\ 4 <= OFF_BAND /\ OFF_BAND <= LEVELS   \* no step is wider than the band
  /\ KeyScales \subseteq 0 .. 15
  /\ \A p \in Patches : {p.ar, p.dr, p.rr} \subseteq 0 .. TOP + 3

VARIABLES
  reg,         \* the patch in the registers
  ksv,
  key,         \* the key-on bit
  gen,         \* attack, decay, sustain or release
  level,       \* eg_rout
  eg_timer, eg_timerrem, eg_state, eg_add,
  timer        \* the sample counter, modulo 4

envvars == <<reg, ksv, key, gen, level, eg_timer, eg_timerrem, eg_state, eg_add, timer>>
clock == <<eg_timer, eg_timerrem, eg_state, eg_add, timer>>

Silent == LEVELS - 1

EnvInit ==
  /\ reg \in Patches /\ ksv \in KeyScales
  /\ key = FALSE /\ gen = "release" /\ level = Silent
  /\ eg_timer = 0 /\ eg_timerrem = 0 /\ eg_state = 0 /\ eg_add = 0 /\ timer = 0

----------------------------------------------------------------------------
(* OPL3_SlotWrite20, 60 and 80 before OPL3_EnvelopeKeyOn: a note starts.   *)
(* A rewrite of the same registers while it sounds changes nothing.        *)
KeyPressed ==
  /\ ~ key
  /\ key' = TRUE
  /\ reg' \in Patches /\ ksv' \in KeyScales
  /\ UNCHANGED <<gen, level, clock>>

KeyReleased ==
  /\ key
  /\ key' = FALSE
  /\ UNCHANGED <<reg, ksv, gen, level, clock>>

(* A pitch bend moves the key scale under a sounding note. *)
Bend ==
  /\ ksv' \in KeyScales \ {ksv}
  /\ UNCHANGED <<reg, key, gen, level, clock>>

(* The key is on and the release phase still runs: the attack begins. *)
Restart == key /\ gen = "release"

RegRate ==
  CASE Restart \/ gen = "attack" -> reg.ar
    [] gen = "decay"             -> reg.dr
    [] gen = "sustain"           -> IF reg.hold THEN 0 ELSE reg.rr
    [] OTHER                     -> reg.rr

Rate(r) == (IF reg.ksr THEN ksv ELSE ksv \div 4) + 4 * r
RateHi(r) == LET hi == Rate(r) \div 4 IN IF hi > TOP + 3 THEN TOP + 3 ELSE hi
RateLo(r) == Rate(r) % 4

eg_incstep == <<{}, {0}, {0, 2}, {0, 1, 2}>>

(* How fast the level moves in this sample: a shift of 0 is not at all.    *)
(* Slow rates wait for the clock, fast ones skip samples by eg_incstep.    *)
Shift(r) ==
  LET hi == RateHi(r)  lo == RateLo(r)
      s == hi - TOP + (IF timer \in eg_incstep[lo + 1] THEN 1 ELSE 0) IN
  IF r = 0 THEN 0
  ELSE IF hi < TOP
  THEN IF eg_state = 0 THEN 0
       ELSE CASE hi + eg_add = TOP     -> 1
              [] hi + eg_add = TOP + 1 -> lo \div 2
              [] hi + eg_add = TOP + 2 -> lo % 2
              [] OTHER                 -> 0
  ELSE IF s > 3 THEN 3 ELSE IF s = 0 THEN eg_state ELSE s

Off == level >= LEVELS - OFF_BAND

(* The level before the increment: an instant attack starts at full volume,*)
(* an envelope that is off stays at the end of the range.                  *)
Base == IF Restart THEN IF RateHi(RegRate) = TOP + 3 THEN 0 ELSE level
        ELSE IF gen # "attack" /\ Off THEN Silent
        ELSE level

(* Mutant of Increment: decay and release go on when the envelope is off.  *)
increment_past_off ==
  LET s == Shift(RegRate) IN
  CASE gen = "attack" /\ level # 0 /\ key /\ s > 0 /\ RateHi(RegRate) # TOP + 3
         -> (-(level + 1)) \div 2 ^ (4 - s)
    [] gen = "decay" /\ level \div SL_UNIT # reg.sl /\ ~ Restart /\ s > 0
         -> 2 ^ (s - 1)
    [] gen \in {"sustain", "release"} /\ ~ Restart /\ s > 0 -> 2 ^ (s - 1)
    [] OTHER -> 0

(* The attack moves by a part of the level, the other phases by a constant.*)
Increment ==
  LET s == Shift(RegRate) IN
  CASE gen = "attack" /\ level # 0 /\ key /\ s > 0 /\ RateHi(RegRate) # TOP + 3
         -> (-(level + 1)) \div 2 ^ (4 - s)
    [] gen = "decay" /\ level \div SL_UNIT # reg.sl /\ ~ Off /\ s > 0
         -> 2 ^ (s - 1)
    [] gen \in {"sustain", "release"} /\ ~ Off /\ ~ Restart /\ s > 0 -> 2 ^ (s - 1)
    [] OTHER -> 0

Phase ==
  CASE ~ key                                            -> "release"
    [] Restart                                          -> "attack"
    [] gen = "attack" /\ level = 0                      -> "decay"
    [] gen = "decay" /\ level \div SL_UNIT = reg.sl     -> "sustain"
    [] OTHER                                            -> gen

(* Mutant of Advance: the clock waits for a remainder it never has. *)
advance_never_starts ==
  /\ eg_add' = IF eg_timer = 0 THEN 0
               ELSE LET low == Min({i \in 0 .. TOP + 3 : (eg_timer \div 2 ^ i) % 2 = 1}
                                     \cup {TOP + 1}) IN
                    IF low > TOP THEN 0 ELSE low + 1
  /\ IF eg_timerrem = 1
     THEN /\ eg_timer' = (eg_timer + 1) % CLOCK
          /\ eg_timerrem' = IF eg_timer = CLOCK - 1 THEN 1 ELSE 0
     ELSE UNCHANGED <<eg_timer, eg_timerrem>>
  /\ eg_state' = 1 - eg_state
  /\ timer' = (timer + 1) % 4

(* The clock ticks every other sample; eg_add is the number of the lowest  *)
(* bit set before the tick.  When it wraps it ticks once out of turn.      *)
Advance ==
  /\ eg_add' = IF eg_timer = 0 THEN 0
               ELSE LET low == Min({i \in 0 .. TOP + 3 : (eg_timer \div 2 ^ i) % 2 = 1}
                                     \cup {TOP + 1}) IN
                    IF low > TOP THEN 0 ELSE low + 1
  /\ IF eg_timerrem = 1 \/ eg_state = 1
     THEN /\ eg_timer' = (eg_timer + 1) % CLOCK
          /\ eg_timerrem' = IF eg_timer = CLOCK - 1 THEN 1 ELSE 0
     ELSE UNCHANGED <<eg_timer, eg_timerrem>>
  /\ eg_state' = 1 - eg_state
  /\ timer' = (timer + 1) % 4

Sample ==
  /\ level' = (Base + Increment) % LEVELS
  /\ gen' = Phase
  /\ Advance
  /\ UNCHANGED <<reg, ksv, key>>

EnvNext == KeyPressed \/ KeyReleased \/ Bend \/ Sample

EnvSpec == EnvInit /\ [][EnvNext]_envvars

(* The audio thread asks for samples for as long as the device plays. *)
FairSpec == EnvSpec /\ WF_envvars(Sample)

----------------------------------------------------------------------------
(* No sample makes the level jump across the end of its nine bits: an      *)
(* attack only grows louder; the other phases only grow quieter, except    *)
(* that an instant attack begins at full volume.                           *)
NoWrap ==
  [][CASE gen = "attack" /\ key -> level' <= level
       [] Restart               -> level' \in {0, level}
       [] OTHER                 -> level' >= level]_envvars

(* An attack at the highest rate only moves the level in its first sample: *)
(* a bend that raises the rate to it later leaves the level where it is.   *)
Stalled == RateHi(reg.ar) = TOP + 3 /\ level # 0

(* A key that stays on long enough brings the envelope to its peak, if the *)
(* attack rate is not zero and is not bent to the highest one; a key that  *)
(* stays off silences it, if the release rate is not zero.  The slow rates *)
(* depend on a clock whose bits they watch and which wraps.                *)
EnvelopeEnds ==
  /\ (key /\ reg.ar # 0 /\ gen \in {"attack", "release"})
        ~> (~ key \/ level = 0 \/ Stalled)
  /\ (~ key /\ reg.rr # 0) ~> (key \/ level = Silent)
============================================================================
