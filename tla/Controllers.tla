---------------------------- MODULE Controllers ----------------------------
(***************************************************************************)
(* Controllers and volume: how a controller event is logged and sent, how  *)
(* the volume of a sequence scales and ramps, what stopping and resuming   *)
(* the sequence send again, and what releasing a locked channel sends.     *)
(*                                                                         *)
(* The logs are struct ctrl_log, rows of NUM_CHANS cells for each logged   *)
(* controller.  Two ways of addressing them are in use: by field, a row    *)
(* and a channel, and by ctrl_hash, which init_driver fills with the       *)
(* number of the row, not with its offset.                                 *)
(*                                                                         *)
(* One sequence plays with its channels mapped to themselves, beside an    *)
(* application that locks channels, plays on those and releases them.      *)
(***************************************************************************)
EXTENDS Integers

CONSTANTS
  NUM_CHANS,     \* 16
  NCTRLS,        \* 9: the logged controllers are 0 .. NCTRLS-1; 0 is PART_VOLUME
  SUSTAIN,       \* 4: the row of the sustain pedal
  ctrl_default,  \* the values init_driver sends
  Values,        \* controller -> the values songs give it
  ctrl_ptr,      \* the application's table, for the indirect prefix
  Volumes,       \* relative volumes asked for, in percent
  Grads,         \* times in which to reach them
  Watched,       \* the controllers whose value at the synthesiser is kept
  Unit,          \* 10: period = Unit * grad \div delta
  QuantStep      \* QUANT_TIME / 100 = 83: the time of one service

PART_VOLUME == 0
Unset == 255
Chans == 0 .. NUM_CHANS - 1
Ctrls == 0 .. NCTRLS - 1
Cells == 0 .. NUM_CHANS * NCTRLS - 1

ASSUME ControllersAssumption ==
  /\ NUM_CHANS \in Nat \ {0} /\ NCTRLS \in Nat \ {0} /\ SUSTAIN \in Ctrls \ {0}
  /\ ctrl_default \in [Ctrls -> 0 .. 127]
  /\ \A i \in Ctrls : Values[i] \subseteq 0 .. 127
  /\ \A x \in DOMAIN ctrl_ptr : ctrl_ptr[x] \in 0 .. 127
  /\ Volumes \subseteq Nat /\ Grads \subseteq Nat
  /\ Unit \in Nat \ {0} /\ QuantStep \in Nat \ {0}
  /\ PART_VOLUME \in Watched /\ Watched \subseteq Ctrls
  /\ NCTRLS + NUM_CHANS - 2 < SUSTAIN * NUM_CHANS   \* the hash misses the pedal's row

VARIABLES
  status,        \* "none" before the first start
  vol_percent, vol_target, vol_accum, vol_period,
  locked,        \* channels whose lock_status has bit 7
  ctl            \* global: global_controls; log: chan_controls; indirect:
                 \* chan_indirect; device: what the synthesiser was sent last;
                 \* history: owns, the channels whose volume's cell was
                 \* last written for them

volume == <<vol_percent, vol_target, vol_accum, vol_period>>
vars == <<status, volume, locked, ctl>>

Hash(i, c) == i + c                \* ctrl_hash[ctrl] + log_chan, and GCTL
Row(i, c) == i * NUM_CHANS + c     \* a field of ctrl_log, and CTRL_VAL

Capped(v) == IF v > 127 THEN 127 ELSE v
Scaled(v, percent) == Capped((v * percent) \div 100)

Send(k, c, i, v) == IF i \in Watched THEN [k EXCEPT !.device[c][i] = v] ELSE k

----------------------------------------------------------------------------
(* init_driver goes through the channels but the last (the loop ends one   *)
(* short), and through the controllers of each: a cell holds what was      *)
(* written to it last.                                                     *)
Initialised == 0 .. NUM_CHANS - 2
Defaults ==
  LET writers(x) == {d \in Initialised \X Ctrls : Hash(d[2], d[1]) = x}
      latest(x) == CHOOSE d \in writers(x) : \A e \in writers(x) : e[1] <= d[1]
  IN [x \in Cells |-> IF writers(x) = {} THEN Unset ELSE ctrl_default[latest(x)[2]]]

Init ==
  /\ status = "none"
  /\ vol_percent = 100 /\ vol_target = 100 /\ vol_accum = 0 /\ vol_period = 0
  /\ locked = {}
  /\ ctl = [global |-> Defaults,
            log |-> [x \in Cells |-> Unset],
            indirect |-> [c \in Chans |-> -1],
            device |-> [c \in Chans |-> [i \in Watched |->
                         IF c \in Initialised THEN ctrl_default[i] ELSE Unset]],
            owns |-> {}]

----------------------------------------------------------------------------
(* A controller event: an indirect prefix before it replaces its value;    *)
(* it is logged, a volume scaled in the global log only, and sent unless   *)
(* the channel is locked.                                                  *)
XMIDI_control(k, c, i, val) ==
  LET v == IF k.indirect[c] = -1 THEN val ELSE ctrl_ptr[k.indirect[c]]
      w == IF i = PART_VOLUME /\ vol_percent # 100 THEN Scaled(v, vol_percent) ELSE v
      logged == [k EXCEPT !.indirect[c] = -1,
                          !.log[Hash(i, c)] = v,
                          !.global[Hash(i, c)] = w,
                          !.owns = IF i = PART_VOLUME THEN @ \cup {c}
                                   ELSE @ \ {Hash(i, c)}]
  IN IF c \in locked THEN logged ELSE Send(logged, c, i, w)

(* Mutant of XMIDI_volume: locked channels are skipped altogether. *)
volume_skips_locked(k, percent) ==
  LET set == {c \in Chans \ locked : k.log[Row(PART_VOLUME, c)] # Unset}
      vol(c) == Scaled(k.log[Row(PART_VOLUME, c)], percent)
  IN [k EXCEPT
        !.global = [x \in Cells |-> IF x \in set THEN vol(x) ELSE @[x]],
        !.device = [c \in Chans |-> IF c \in set THEN [@[c] EXCEPT ![PART_VOLUME] = vol(c)]
                                    ELSE @[c]]]

(* Every channel whose volume is logged gets it at the new percentage; a   *)
(* locked one gets it in the global log, for its release.                  *)
XMIDI_volume(k, percent) ==
  LET set == {c \in Chans : k.log[Row(PART_VOLUME, c)] # Unset}
      vol(c) == Scaled(k.log[Row(PART_VOLUME, c)], percent)
  IN [k EXCEPT
        !.global = [x \in Cells |-> IF x \in set THEN vol(x) ELSE @[x]],
        !.device = [c \in Chans |-> IF c \in set \ locked
                                    THEN [@[c] EXCEPT ![PART_VOLUME] = vol(c)] ELSE @[c]]]

(* release_channel for the channels R, all of them locked. *)
release_channels(k, R) ==
  [k EXCEPT !.device = [c \in Chans |->
     IF c \notin R THEN @[c]
     ELSE [i \in Watched |-> IF k.global[Hash(i, c)] # Unset THEN k.global[Hash(i, c)]
                             ELSE IF i = SUSTAIN THEN 0 ELSE @[c][i]]]]

(* The pedals that are down, or whose row was never written (0xFF), are    *)
(* lifted.  The row of Channel Lock reads 0xFF too, so that every channel  *)
(* that is locked is released.                                             *)
reset_sequence(k) ==
  LET down == {c \in Chans : k.log[Row(SUSTAIN, c)] >= 64}
  IN release_channels(
       [k EXCEPT
          !.global = [x \in Cells |-> IF x \in {Row(SUSTAIN, c) : c \in down} THEN 0 ELSE @[x]],
          !.device = [c \in Chans |-> [i \in Watched |->
                        IF i = SUSTAIN /\ c \in down THEN 0 ELSE @[c][i]]]],
       locked)

(* The log is read by rows, and each value goes through XMIDI_control,     *)
(* which logs it by the hash: a later row reads what an earlier one wrote. *)
restore_cell(s, x) ==
  IF s.log[x] = Unset THEN s
  ELSE XMIDI_control(s, x % NUM_CHANS, x \div NUM_CHANS, s.log[x])

restore_sequence(k) ==
  LET after[n \in 0 .. NUM_CHANS * NCTRLS] ==
        IF n = 0 THEN k ELSE restore_cell(after[n - 1], n - 1)
  IN after[NUM_CHANS * NCTRLS]

----------------------------------------------------------------------------
(* start_seq and the rewind_seq in it, which forgets the sequence's log    *)
(* and its volume but neither the global log nor what the device has.      *)
start_seq ==
  /\ status' = "playing"
  /\ ctl' = [(IF status = "playing" THEN reset_sequence(ctl) ELSE ctl)
               EXCEPT !.log = [x \in Cells |-> Unset],
                      !.indirect = [c \in Chans |-> -1],
                      !.owns = {}]
  /\ locked' = IF status = "playing" THEN {} ELSE locked
  /\ vol_percent' = 100 /\ vol_target' = 100
  /\ UNCHANGED <<vol_accum, vol_period>>

stop_seq ==
  /\ status = "playing"
  /\ status' = "stopped"
  /\ ctl' = reset_sequence(ctl) /\ locked' = {}
  /\ UNCHANGED volume

resume_seq ==
  /\ status = "stopped"
  /\ status' = "playing"
  /\ ctl' = restore_sequence(ctl)
  /\ UNCHANGED <<volume, locked>>

(* An event of the song, or set_control_val. *)
control ==
  /\ status # "none"
  /\ \E c \in Chans, i \in Ctrls : \E v \in Values[i] : ctl' = XMIDI_control(ctl, c, i, v)
  /\ UNCHANGED <<status, volume, locked>>

(* The controller INDIRECT_C_PFX. *)
prefix ==
  /\ status = "playing"
  /\ \E c \in Chans, x \in DOMAIN ctrl_ptr :
       /\ ctl.indirect[c] = -1
       /\ ctl' = [ctl EXCEPT !.indirect[c] = x]
  /\ UNCHANGED <<status, volume, locked>>

Distance(a, b) == IF a < b THEN b - a ELSE a - b

set_rel_volume ==
  /\ status # "none"
  /\ \E v \in Volumes, grad \in Grads :
       /\ vol_target' = v
       /\ IF grad = 0
          THEN /\ vol_percent' = v
               /\ ctl' = XMIDI_volume(ctl, v)
               /\ UNCHANGED <<vol_accum, vol_period>>
          ELSE /\ UNCHANGED <<vol_percent, ctl>>
               /\ IF v = vol_percent THEN UNCHANGED <<vol_accum, vol_period>>
                  ELSE LET p == (Unit * grad) \div Distance(v, vol_percent) IN
                       /\ vol_period' = IF p = 0 THEN 1 ELSE p
                       /\ vol_accum' = 0
  /\ UNCHANGED <<status, locked>>

(* Mutant of Ramp: the time that makes no step is forgotten. *)
ramp_forgets ==
  LET rem == vol_accum + QuantStep
      steps == rem \div vol_period
  IN /\ vol_accum' = IF steps = 0 THEN vol_accum ELSE rem % vol_period
     /\ vol_percent' = IF Distance(vol_percent, vol_target) <= steps THEN vol_target
                       ELSE IF vol_percent < vol_target THEN vol_percent + steps
                       ELSE vol_percent - steps

(* As many steps as fit into the time since the last one, at most up to    *)
(* the target.                                                             *)
Ramp ==
  LET rem == vol_accum + QuantStep
      steps == rem \div vol_period
  IN /\ vol_accum' = rem % vol_period
     /\ vol_percent' = IF Distance(vol_percent, vol_target) <= steps THEN vol_target
                       ELSE IF vol_percent < vol_target THEN vol_percent + steps
                       ELSE vol_percent - steps

(* The end of the service of a playing sequence. *)
serve ==
  /\ status = "playing" /\ vol_percent # vol_target
  /\ Ramp
  /\ ctl' = XMIDI_volume(ctl, vol_percent')
  /\ UNCHANGED <<status, vol_target, vol_period, locked>>

----------------------------------------------------------------------------
(* The application beside the sequence. *)

lock_channel ==
  /\ \E c \in Chans \ locked :
       /\ locked' = locked \cup {c}
       /\ ctl' = Send(ctl, c, SUSTAIN, 0)
  /\ UNCHANGED <<status, volume>>

release_channel ==
  /\ \E c \in locked :
       /\ locked' = locked \ {c}
       /\ ctl' = release_channels(ctl, {c})
  /\ UNCHANGED <<status, volume>>

(* AIL_send_channel_voice_message on a channel the application locked. *)
send_message ==
  /\ \E c \in locked, i \in Watched : \E v \in Values[i] : ctl' = Send(ctl, c, i, v)
  /\ UNCHANGED <<status, volume, locked>>

Next == \/ start_seq \/ stop_seq \/ resume_seq \/ control \/ prefix
        \/ set_rel_volume \/ serve
        \/ lock_channel \/ release_channel \/ send_message

Spec == Init /\ [][Next]_vars

(* The timer keeps calling the service. *)
FairSpec == Spec /\ WF_vars(serve)

----------------------------------------------------------------------------
(* The synthesiser has the volume of every unlocked channel the song gave  *)
(* one, scaled by the relative volume of now: through ramps, a stop and    *)
(* resume, and a lock during which the volume changed.  A channel whose    *)
(* cell another controller was logged in since is not in owns.             *)
VolumeFollows ==
  \A c \in ctl.owns \ locked :
    ctl.device[c][PART_VOLUME] = Scaled(ctl.log[Row(PART_VOLUME, c)], vol_percent)

(* A ramp reaches its target unless the song stops or new volumes are      *)
(* asked for again and again, also when a step takes longer than the time  *)
(* between two services.                                                   *)
VolumeSettles ==
  []<><<set_rel_volume>>_vars \/ []<>(vol_percent = vol_target \/ status # "playing")

(* A channel that is released before any song played has the controllers   *)
(* init_driver gave it again: release_channel sends what was logged        *)
(* ("update channel controller values", XMIDI32.ASM:2145), each from its   *)
(* own field (README.md:240).                                              *)
ControlsRestored ==
  [][status = "none" =>
       \A c \in Initialised \cap (locked \ locked'), i \in Watched :
         ctl'.device[c][i] = ctrl_default[i]]_vars
============================================================================
