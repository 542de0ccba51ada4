----------------------------- MODULE ChipVoices -----------------------------
(***************************************************************************)
(* The voice allocator composed with the OPL3 it drives.  Every action of  *)
(* Voices is a series of update_voice calls, and each of those a series of *)
(* register writes that the chip carries out at once (xmi_backend_opl_write*)
(* calls OPL3_WriteReg): here they are carried out one after another on a  *)
(* chip that knows channels and operators instead of notes.                *)
(*                                                                         *)
(* A chip channel has the number of the driver's voice (voice_num,         *)
(* voice_array) and two operators (op_0, op_1; alt_op_0 and alt_op_1 are   *)
(* those of the other half of a pair).  The chip is in OPL3 mode, as       *)
(* reset_synth leaves it; drum channels are never used by the driver.      *)
(***************************************************************************)
EXTENDS Voices, Sequences

CONSTANT Timbres  \* <<2 or 4 operators, connection bits>> of the timbres in use

(* BNK_phase takes one connection bit of a timbre, OPL_phase two. *)
ASSUME TimbresAssumption == Timbres \subseteq ({2} \X (0 .. 1)) \cup ({4} \X (0 .. 3))

Op == Voice \X {0, 1}
Ops(V) == V \X {0, 1}
Zero == <<>>    \* the constant zero input of an operator that nothing modulates

(* The other channel of a pair. *)
Other(v) == IF v \in Bases THEN v + Span ELSE v - Span

VARIABLES
  wire,   \* slot -> the connection bits of its timbre: c1 + 2 * c2 (S_FBC)
  chip    \* the registers' effect, see ChipReset

allVars == <<vars, wire, chip>>

(* What reset_synth leaves: two-operator channels, every connection bit    *)
(* clear, every key off, every operator at its lowest level.               *)
ChipReset ==
  [sel    |-> {},                               \* register 0x104 (conn_shadow)
   mode   |-> [v \in Voice |-> "2op"],          \* chtype: 2op, 4op, 4op2
   con    |-> [v \in Voice |-> 0],
   mod    |-> [o \in Op |-> IF o[2] = 0 THEN o ELSE <<o[1], 0>>],
   out    |-> [v \in Voice |-> {<<v, 1>>}],
   key    |-> {},                               \* operators keyed on
   scaled |-> {}]                               \* operators whose level has the volume in it

(* OPL3_ChannelSetupAlg for a two-operator channel: the modulator feeds    *)
(* itself back and, with the connection bit clear, the carrier.            *)
Route2(x, v) ==
  LET a == <<v, 0>>  b == <<v, 1>> IN
  [x EXCEPT !.mod = [@ EXCEPT ![a] = a, ![b] = IF x.con[v] = 0 THEN a ELSE Zero],
            !.out[v] = IF x.con[v] = 0 THEN {b} ELSE {a, b}]

(* The same for a pair: four operators in one, two or three chains, all    *)
(* heard through the second channel.                                       *)
Route4(x, v) ==
  LET a == <<v, 0>>         b == <<v, 1>>
      c == <<v + Span, 0>>  d == <<v + Span, 1>>
      c1 == x.con[v]        c2 == x.con[v + Span] IN
  [x EXCEPT !.mod = [@ EXCEPT ![a] = a,
                              ![b] = IF c1 = 0 THEN a ELSE Zero,
                              ![c] = IF c1 = 0 /\ c2 = 1 THEN Zero ELSE b,
                              ![d] = IF c1 = 1 /\ c2 = 1 THEN Zero ELSE c],
            !.out = [@ EXCEPT ![v] = {},
                              ![v + Span] = {d} \cup (IF c1 = 1 THEN {a} ELSE {})
                                 \cup (IF c1 = 1 /\ c2 = 1 THEN {c} ELSE {})
                                 \cup (IF c1 = 0 /\ c2 = 1 THEN {b} ELSE {})]]

(* OPL3_ChannelUpdateAlg *)
UpdateAlg(x, v) ==
  CASE x.mode[v] = "2op"  -> Route2(x, v)
    [] x.mode[v] = "4op"  -> Route4(x, v)
    [] x.mode[v] = "4op2" -> Route4(x, Other(v))

(* The bit of a pair is set: its channels become one.  It is clear: each   *)
(* plays for itself.                                                       *)
Join(x, b) ==
  UpdateAlg([x EXCEPT !.mode = [@ EXCEPT ![b] = "4op", ![b + Span] = "4op2"]], b)

Part(x, b) ==
  UpdateAlg(UpdateAlg([x EXCEPT !.mode = [@ EXCEPT ![b] = "2op", ![b + Span] = "2op"]], b),
            b + Span)

(* Mutant of Set4Op: a pair that is taken apart keeps its routing. *)
set4_keeps_routing(x, sel) ==
  LET keep(y, b) == [y EXCEPT !.mode = [@ EXCEPT ![b] = "2op", ![b + Span] = "2op"]]
      after[i \in 0 .. NUM_PAIRS] ==
        IF i = 0 THEN x
        ELSE IF op4_voice[i - 1] \in sel THEN Join(after[i - 1], op4_voice[i - 1])
        ELSE keep(after[i - 1], op4_voice[i - 1])
  IN  after[NUM_PAIRS]

(* OPL3_ChannelSet4Op: every write of register 0x104 sets all the pairs,   *)
(* one after another.                                                      *)
Set4Op(x, sel) ==
  LET after[i \in 0 .. NUM_PAIRS] ==
        IF i = 0 THEN x
        ELSE IF op4_voice[i - 1] \in sel THEN Join(after[i - 1], op4_voice[i - 1])
        ELSE Part(after[i - 1], op4_voice[i - 1])
  IN  after[NUM_PAIRS]

WriteC0(x, v, c) == UpdateAlg([x EXCEPT !.con[v] = c], v)

(* OPL3_ChannelKeyOn and KeyOff: the first channel of a pair stands for    *)
(* all four operators, the second for none.                                *)
Keyed(x, v) == CASE x.mode[v] = "2op"  -> Ops({v})
                 [] x.mode[v] = "4op"  -> Ops({v, v + Span})
                 [] x.mode[v] = "4op2" -> {}

WriteB0(x, v, on) ==
  [x EXCEPT !.key = IF on THEN @ \cup Keyed(x, v) ELSE @ \ Keyed(x, v)]

----------------------------------------------------------------------------
(* OPL_phase and BNK_phase: the operators of half h (0: of the voice       *)
(* itself, 1: of the other half) to which the driver applies the volume,   *)
(* from carrier_01 and carrier_23.                                         *)
Scaled(t, w, h) ==
  IF t = 2 THEN IF w = 1 THEN {0, 1} ELSE {1}
  ELSE IF h = 0 THEN <<{}, {0}, {1}, {0}>>[w + 1]
  ELSE <<{1}, {1}, {1}, {0, 1}>>[w + 1]

AllRegs == {"level", "connection", "frequency"}

(* The registers of one half.  The connection bit of both halves is the    *)
(* first one (S_FBC & 1).                                                  *)
WriteHalf(x, r, w, flags, on, h) ==
  LET v == r.voice + h * Span
      o == {<<v, i>> : i \in Scaled(r.type, w, h)}
      x1 == IF "level" \in flags
            THEN [x EXCEPT !.scaled = (@ \ Ops({v})) \cup o] ELSE x
      x2 == IF "connection" \in flags THEN WriteC0(x1, v, w % 2) ELSE x1 IN
  IF "frequency" \in flags THEN WriteB0(x2, v, on) ELSE x2

(* The connection-select register comes first, and only when it changes.   *)
Connect(x, r) ==
  LET sel == IF r.type = 4 THEN x.sel \cup conn_sel(r.voice)
                           ELSE x.sel \ conn_sel(r.voice) IN
  IF sel = x.sel THEN x ELSE Set4Op([x EXCEPT !.sel = sel], sel)

(* update_voice for the slot contents r: nothing without a voice; the      *)
(* second half of a four-operator note before the first.                   *)
update_voice(x, r, w, flags, on) ==
  IF r.voice = None THEN x
  ELSE LET y == Connect(x, r)
           z == IF r.type = 4 THEN WriteHalf(y, r, w, flags, on, 1) ELSE y IN
       WriteHalf(z, r, w, flags, on, 0)

(* The slots of T, in their order, are written with these flags.           *)
Rewritten(x, T, flags, on) ==
  LET after[n \in 0 .. NUM_SLOTS] ==
        IF n = 0 THEN x
        ELSE IF n - 1 \in T THEN update_voice(after[n - 1], S[n - 1], wire[n - 1], flags, on)
        ELSE after[n - 1]
  IN  after[NUM_SLOTS]

(* note_off: of the slots of the key only the frequency register is        *)
(* written, its key-on bit clear.                                          *)
KeyOff(x, c, n) == Rewritten(x, WithKey(c, n), {"frequency"}, FALSE)

(* A loop over the slots of F calls note_off for the key of each.  The     *)
(* others of that key are free by the time it comes to them.               *)
Firsts(F) == {s \in F : \A q \in F : S[q].key = S[s].key => s <= q}

Released(x, c, F) ==
  LET after[n \in 0 .. NUM_SLOTS] ==
        IF n = 0 THEN x
        ELSE IF n - 1 \in Firsts(F) THEN KeyOff(after[n - 1], c, S[n - 1].key)
        ELSE after[n - 1]
  IN  after[NUM_SLOTS]

(* The slots that the loop at the end of the pedal stops at. *)
Sustained(c) == {s \in On(c) : S[s].sustain = 1}

(* The connection bits of a free slot are not read before the next note. *)
Wired(T) == wire' = [s \in Slots |-> IF s \in T THEN 0 ELSE wire[s]]

KeepChip == UNCHANGED <<wire, chip>>

----------------------------------------------------------------------------
ChipInit == Init /\ wire = [s \in Slots |-> 0] /\ chip = ChipReset

ChipNoteOn(c, n) ==
  /\ note_on(c, n)
  /\ \E s \in Slots, w \in 0 .. 3 :
       /\ S[s] = Free /\ S'[s] # Free
       /\ <<S'[s].type, w>> \in Timbres
       /\ wire' = [wire EXCEPT ![s] = w]
       /\ chip' = update_voice(chip, S'[s], w, AllRegs, TRUE)

(* Under the pedal a key that goes up only marks its slots. *)
ChipNoteOff(c, n) ==
  /\ note_off(c, n)
  /\ \/ c \in MIDI_sus /\ KeepChip
     \/ /\ c \notin MIDI_sus
        /\ chip' = KeyOff(chip, c, n)
        /\ Wired(WithKey(c, n))

ChipNotesOff(c) ==
  /\ all_notes_off(c)
  /\ \/ c \in MIDI_sus /\ KeepChip
     \/ /\ c \notin MIDI_sus
        /\ chip' = Released(chip, c, On(c))
        /\ Wired(On(c))

ChipPedalDown(c) == pedal_down(c) /\ KeepChip

ChipPedalUp(c) ==
  /\ pedal_up(c)
  /\ chip' = Released(chip, c, Sustained(c))
  /\ Wired(PedalSlots(c))

ChipReset_controllers(c) ==
  /\ reset_all_controllers(c)
  /\ chip' = Rewritten(Released(chip, c, Sustained(c)), On(c) \ PedalSlots(c), AllRegs, TRUE)
  /\ Wired(PedalSlots(c))

(* A pitch bend rewrites the frequency registers, volume or expression the *)
(* levels, panning the connection registers (vibrato: none of these).      *)
ChipRefresh(c) ==
  /\ refresh(c)
  /\ \E flags \in {{"level"}, {"connection"}, {"frequency"}} :
       chip' = Rewritten(chip, On(c), flags, TRUE)
  /\ UNCHANGED wire

ChipInitSynth ==
  init_synth /\ wire' = [s \in Slots |-> 0] /\ chip' = ChipReset

ChipMessage(c) ==
  \/ \E n \in Keys : ChipNoteOn(c, n) \/ ChipNoteOff(c, n)
  \/ ChipNotesOff(c) \/ ChipPedalDown(c) \/ ChipPedalUp(c)
  \/ ChipReset_controllers(c) \/ ChipRefresh(c)

ChipNext == ChipInitSynth \/ \E c \in Chans : ChipMessage(c)

ChipSpec == ChipInit /\ [][ChipNext]_allVars

----------------------------------------------------------------------------
Sounding == {s \in Busy : S[s].voice # None}

(* The operators keyed on in the chip are exactly those of the voices that *)
(* notes occupy, whichever modes the pairs went through: the chip ignores  *)
(* the keys of a pair's second half, so a note started in one mode and     *)
(* released in another would leave operators sounding.  And the driver's   *)
(* shadow of the connection-select register, set once per message here,    *)
(* is what the series of writes leaves.                                    *)
KeysFollow ==
  /\ chip.key = Ops(UNION {Uses(s) : s \in Slots})
  /\ chip.sel = conn_shadow

HeardFrom(V) == UNION {chip.out[v] : v \in V}

(* The operators of V form chains of their own: each is heard or modulates *)
(* exactly one other, nothing from outside modulates them and none is      *)
(* heard through a channel that is not theirs.                             *)
Separate(V) ==
  LET fed(o) == {p \in Op \ {o} : chip.mod[p] = o} IN
  /\ \A o \in Ops(V) : /\ chip.mod[o] = Zero \/ chip.mod[o] \in Ops(V)
                       /\ fed(o) \subseteq Ops(V)
                       /\ Cardinality(fed(o)) + (IF o \in HeardFrom(V) THEN 1 ELSE 0) = 1
  /\ HeardFrom(V) \subseteq Ops(V)
  /\ HeardFrom(Voice \ V) \cap Ops(V) = {}

VolumeReachesHeard(s) ==
  HeardFrom(Uses(s)) = chip.scaled \cap Ops(Uses(s))

(* A sounding note's operators are wired among themselves, whatever its    *)
(* voices played before, and the volume is applied to those that are       *)
(* heard; for a four-operator note, when its two connection bits agree.    *)
Routed ==
  \A s \in Sounding :
    /\ Separate(Uses(s))
    /\ S[s].type = 2 \/ wire[s] \in {0, 3} => VolumeReachesHeard(s)

(* The chip, whose registers the driver only writes, does what the         *)
(* allocator thinks it does.                                               *)
ChipFollows == KeysFollow /\ Routed
============================================================================
