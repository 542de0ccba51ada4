------------------------------- MODULE Voices ------------------------------
(***************************************************************************)
(* The OPL3 voice allocator of the Yamaha driver: note slots, the 18       *)
(* two-operator voices, six pairs of which can be joined into four-operator*)
(* voices, the sustain pedal, and the two pieces of hardware state the     *)
(* driver must keep in step with them: the connection-select register and  *)
(* the key-on bits.                                                        *)
(*                                                                         *)
(* One action is one MIDI message (send_MIDI_message runs to completion).  *)
(* A slot is Free or a record of what note_on stored in the S_ arrays: the *)
(* fields of a free slot are never read before note_on has written them.   *)
(* Pitch, volume and timbre data are left out; a note-on for a channel     *)
(* without a timbre does nothing and is no step.                           *)
(***************************************************************************)
EXTENDS Integers, FiniteSets

CONSTANTS
  NUM_SLOTS,   \* 20
  NUM_VOICES,  \* 18
  NUM_PAIRS,   \* 6: four-operator voices
  op4_voice,   \* their first halves: 0, 1, 2, 9, 10, 11
  Span,        \* 3: the second half of voice v is v + Span
  Chans,       \* MIDI channels
  Keys,        \* key numbers
  ByteMod,     \* 2^8: MIDI_voices[] are uint8_t
  Free         \* an unused slot

Slots  == 0 .. NUM_SLOTS - 1
Voice  == 0 .. NUM_VOICES - 1
Pairs  == 0 .. NUM_PAIRS - 1
Bases  == {op4_voice[i] : i \in Pairs}
None   == -1

SlotRec == [type : {2, 4}, voice : Voice \cup {None}, channel : Chans,
            key : Keys, sustain : {0, 1}]

ASSUME VoicesAssumption ==
  /\ NUM_SLOTS \in Nat /\ NUM_VOICES \in Nat \ {0} /\ NUM_PAIRS \in Nat \ {0}
  /\ Span \in Nat \ {0} /\ ByteMod \in Nat /\ ByteMod > NUM_SLOTS
  /\ op4_voice \in [Pairs -> Voice]
  /\ \A i \in Pairs : op4_voice[i] + Span \in Voice
  /\ \A i, j \in Pairs : op4_voice[i] + Span # op4_voice[j]
  /\ None \notin Chans /\ Free \notin SlotRec

VARIABLES
  S,            \* slot -> Free or what it plays
  V_channel,    \* voice -> the channel it plays for, or None
  MIDI_voices,  \* channel -> how many of its slots have a voice
  MIDI_sus,     \* the channels whose sustain controller is at least 64
  rover_2op,
  rover_4op,
  conn_shadow,  \* the pairs (by their base) joined in register 0x104
  key_on        \* the voices whose key-on bit is set in the chip

vars == <<S, V_channel, MIDI_voices, MIDI_sus, rover_2op, rover_4op,
          conn_shadow, key_on>>

Busy == {s \in Slots : S[s] # Free}
On(c) == {s \in Busy : S[s].channel = c}
WithKey(c, n) == {s \in On(c) : S[s].key = n}

(* The voices that v stands for in a slot of type t. *)
Halves(t, v) == IF v = None THEN {} ELSE IF t = 4 THEN {v, v + Span} ELSE {v}
Uses(s) == IF S[s] = Free THEN {} ELSE Halves(S[s].type, S[s].voice)

(* The bit of conn_sel that belongs to voice v: none for the voices that   *)
(* are not part of a pair.                                                 *)
conn_sel(v) == {b \in Bases : v \in {b, b + Span}}

----------------------------------------------------------------------------
Init ==
  /\ S = [s \in Slots |-> Free]
  /\ V_channel = [v \in Voice |-> None]
  /\ MIDI_voices = [c \in Chans |-> 0]
  /\ MIDI_sus = {}
  /\ rover_2op = -1 /\ rover_4op = -1
  /\ conn_shadow = {}
  /\ key_on = {}

(* The connection bits once update_voice has run for the slot contents R.  *)
Joined(R) ==
  (conn_shadow \cup UNION {conn_sel(r.voice) : r \in {q \in R : q.type = 4}})
     \ UNION {conn_sel(r.voice) : r \in {q \in R : q.type = 2}}

Voiced(T) == {s \in T : S[s].voice # None}

(* Mutant of ReleaseSlots: only the first half of a pair is given back. *)
release_first_half(R) ==
  LET units == {S[s].voice : s \in Voiced(R)} IN
  /\ S' = [s \in Slots |-> IF s \in R THEN Free ELSE S[s]]
  /\ V_channel' = [v \in Voice |-> IF v \in units THEN None ELSE V_channel[v]]
  /\ MIDI_voices' = [c \in Chans |->
       (MIDI_voices[c] - Cardinality({s \in Voiced(R) : S[s].channel = c})) % ByteMod]
  /\ conn_shadow' = Joined({S[s] : s \in Voiced(R)})
  /\ key_on' = key_on \ units

(* Mutant of ReleaseSlots: the key-off is sent after the voice was         *)
(* disowned, when update_voice no longer writes anything.                  *)
release_without_key_off(R) ==
  LET units == UNION {Uses(s) : s \in R} IN
  /\ S' = [s \in Slots |-> IF s \in R THEN Free ELSE S[s]]
  /\ V_channel' = [v \in Voice |-> IF v \in units THEN None ELSE V_channel[v]]
  /\ MIDI_voices' = [c \in Chans |->
       (MIDI_voices[c] - Cardinality({s \in Voiced(R) : S[s].channel = c})) % ByteMod]
  /\ UNCHANGED <<conn_shadow, key_on>>

(* Mutant of ReleaseSlots: a slot without a voice is counted too. *)
release_counts_unvoiced(R) ==
  LET units == UNION {Uses(s) : s \in R} IN
  /\ S' = [s \in Slots |-> IF s \in R THEN Free ELSE S[s]]
  /\ V_channel' = [v \in Voice |-> IF v \in units THEN None ELSE V_channel[v]]
  /\ MIDI_voices' = [c \in Chans |->
       (MIDI_voices[c] - Cardinality({s \in R : S[s].channel = c})) % ByteMod]
  /\ conn_shadow' = Joined({S[s] : s \in Voiced(R)})
  /\ key_on' = key_on \ units

(* release_voice for every slot of R, and the slots become free: key off,  *)
(* voices given back.  A slot that never got a voice is only freed.        *)
ReleaseSlots(R) ==
  LET units == UNION {Uses(s) : s \in R} IN
  /\ S' = [s \in Slots |-> IF s \in R THEN Free ELSE S[s]]
  /\ V_channel' = [v \in Voice |-> IF v \in units THEN None ELSE V_channel[v]]
  /\ MIDI_voices' = [c \in Chans |->
       (MIDI_voices[c] - Cardinality({s \in Voiced(R) : S[s].channel = c})) % ByteMod]
  /\ conn_shadow' = Joined({S[s] : s \in Voiced(R)})
  /\ key_on' = key_on \ units

(* Mutant of Stops: the search ends one place early. *)
stops_early(r, n, F, k) ==
  /\ \A j \in 1 .. k - 1 : (r + j) % n \notin F
  /\ (r + k) % n \in F \/ k = n - 1

(* The search for a free place among n, which starts after the rover r and *)
(* wraps, ends k places on: at the first place in F or after a full turn.  *)
Stops(r, n, F, k) ==
  /\ \A j \in 1 .. k - 1 : (r + j) % n \notin F
  /\ (r + k) % n \in F \/ k = n

Free2 == {v \in Voice : V_channel[v] = None}

(* Mutant of Free4: the second half of the pair is not looked at. *)
free4_first_half == {i \in Pairs : V_channel[op4_voice[i]] = None}

Free4 == {i \in Pairs : /\ V_channel[op4_voice[i]] = None
                        /\ V_channel[op4_voice[i] + Span] = None}

(* Slot s starts note n with voice v, or with none. *)
Start(s, t, c, n, v) ==
  LET r == [type |-> t, voice |-> v, channel |-> c, key |-> n, sustain |-> 0] IN
  /\ S' = [S EXCEPT ![s] = r]
  /\ V_channel' = [u \in Voice |-> IF u \in Halves(t, v) THEN c ELSE V_channel[u]]
  /\ MIDI_voices' = IF v = None THEN MIDI_voices
                    ELSE [MIDI_voices EXCEPT ![c] = (@ + 1) % ByteMod]
  /\ conn_shadow' = IF v = None THEN conn_shadow ELSE Joined({r})
  /\ key_on' = key_on \cup Halves(t, v)

(* The next free voice (or pair) after the rover.  When there is none,     *)
(* update_priority is called; its search for the most urgent slot without  *)
(* a voice starts from (uint32_t)-1, which no priority exceeds, so it      *)
(* returns before it steals anything.                                      *)
assign_voice(s, t, c, n) ==
  \/ /\ t = 4
     /\ \E k \in 1 .. NUM_PAIRS :
          LET i == (rover_4op + k) % NUM_PAIRS IN
          /\ Stops(rover_4op, NUM_PAIRS, Free4, k)
          /\ Start(s, t, c, n, IF i \in Free4 THEN op4_voice[i] ELSE None)
          /\ rover_4op' = i
     /\ UNCHANGED rover_2op
  \/ /\ t = 2
     /\ \E k \in 1 .. NUM_VOICES :
          LET v == (rover_2op + k) % NUM_VOICES IN
          /\ Stops(rover_2op, NUM_VOICES, Free2, k)
          /\ Start(s, t, c, n, IF v \in Free2 THEN v ELSE None)
          /\ rover_2op' = v
     /\ UNCHANGED rover_4op

(* The timbre of the channel makes the note a two- or four-operator one.   *)
(* Without a free slot the note is dropped.                                *)
note_on(c, n) ==
  /\ \E s \in Slots \ Busy, t \in {2, 4} :
       /\ \A q \in Slots \ Busy : s <= q
       /\ assign_voice(s, t, c, n)
  /\ UNCHANGED MIDI_sus

Sustain(T) ==
  S' = [s \in Slots |-> IF s \in T THEN [S[s] EXCEPT !.sustain = 1] ELSE S[s]]

(* Every slot of the key is released or, under the pedal, sustained. *)
KeysOff(c, T) ==
  IF c \in MIDI_sus
  THEN Sustain(T) /\ UNCHANGED <<V_channel, MIDI_voices, conn_shadow, key_on>>
  ELSE ReleaseSlots(T)

note_off(c, n) ==
  /\ KeysOff(c, WithKey(c, n))
  /\ UNCHANGED <<MIDI_sus, rover_2op, rover_4op>>

all_notes_off(c) ==
  /\ KeysOff(c, On(c))
  /\ UNCHANGED <<MIDI_sus, rover_2op, rover_4op>>

pedal_down(c) ==
  /\ MIDI_sus' = MIDI_sus \cup {c}
  /\ UNCHANGED <<S, V_channel, MIDI_voices, rover_2op, rover_4op, conn_shadow, key_on>>

(* The slots that end when the pedal of c comes up: note_off is called for *)
(* the key of every sustained slot, and takes every slot of that key.      *)
PedalSlots(c) ==
  {s \in On(c) : \E q \in On(c) : S[q].sustain = 1 /\ S[q].key = S[s].key}

pedal_up(c) ==
  /\ MIDI_sus' = MIDI_sus \ {c}
  /\ ReleaseSlots(PedalSlots(c))
  /\ UNCHANGED <<rover_2op, rover_4op>>

(* Reset All Controllers: the pedal comes up, and what still sounds on the *)
(* channel is rewritten to the chip, key-on included.                      *)
reset_all_controllers(c) ==
  LET rest == Voiced(On(c) \ PedalSlots(c))
      gone == UNION {Uses(s) : s \in PedalSlots(c)} IN
  /\ MIDI_sus' = MIDI_sus \ {c}
  /\ S' = [s \in Slots |-> IF s \in PedalSlots(c) THEN Free ELSE S[s]]
  /\ V_channel' = [v \in Voice |-> IF v \in gone THEN None ELSE V_channel[v]]
  /\ MIDI_voices' = [MIDI_voices EXCEPT ![c] =
       (@ - Cardinality(Voiced(PedalSlots(c)))) % ByteMod]
  /\ conn_shadow' = Joined({S[s] : s \in Voiced(On(c))})
  /\ key_on' = (key_on \ gone) \cup UNION {Uses(s) : s \in rest}
  /\ UNCHANGED <<rover_2op, rover_4op>>

(* Pitch bend, and the controllers that rewrite the voices of a channel.   *)
(* A bend writes the frequency registers, which hold the key-on bit.       *)
refresh(c) ==
  /\ conn_shadow' = Joined({S[s] : s \in Voiced(On(c))})
  /\ \/ key_on' = key_on
     \/ key_on' = key_on \cup UNION {Uses(s) : s \in On(c)}
  /\ UNCHANGED <<S, V_channel, MIDI_voices, MIDI_sus, rover_2op, rover_4op>>

(* reset_synth and init_synth: the driver is initialised again. *)
init_synth ==
  /\ S' = [s \in Slots |-> Free]
  /\ V_channel' = [v \in Voice |-> None]
  /\ MIDI_voices' = [c \in Chans |-> 0]
  /\ MIDI_sus' = {}
  /\ rover_2op' = -1 /\ rover_4op' = -1
  /\ conn_shadow' = {}
  /\ key_on' = {}

Message(c) ==
  \/ \E n \in Keys : note_on(c, n) \/ note_off(c, n)
  \/ all_notes_off(c) \/ pedal_down(c) \/ pedal_up(c)
  \/ reset_all_controllers(c) \/ refresh(c)

Next == init_synth \/ \E c \in Chans : Message(c)

Spec == Init /\ [][Next]_vars

----------------------------------------------------------------------------
(* The variables have their types. *)
TypeOK ==
  /\ S \in [Slots -> SlotRec \cup {Free}]
  /\ V_channel \in [Voice -> Chans \cup {None}]
  /\ MIDI_voices \in [Chans -> 0 .. ByteMod - 1]
  /\ MIDI_sus \subseteq Chans
  /\ rover_2op \in Voice \cup {-1}
  /\ rover_4op \in Pairs \cup {-1}
  /\ conn_shadow \subseteq Bases
  /\ key_on \subseteq Voice

(* A four-operator slot sits on the first half of a pair. *)
PairsWhole ==
  \A s \in Busy : S[s].type = 4 /\ S[s].voice # None => S[s].voice \in Bases

(* No two slots share a voice, half of a pair included. *)
Exclusive ==
  \A s, q \in Slots : s # q => Uses(s) \cap Uses(q) = {}

(* V_channel, the allocator's only record of which voices are taken, says  *)
(* of every voice exactly what the slots say: the channel of the slot that *)
(* uses it, or none.                                                       *)
Accounted ==
  \A v \in Voice :
    \/ V_channel[v] = None /\ \A s \in Slots : v \notin Uses(s)
    \/ \E s \in Busy : v \in Uses(s) /\ V_channel[v] = S[s].channel

VoiceOwnership == PairsWhole /\ Exclusive /\ Accounted

(* The connection-select register joins the pairs that play four-operator  *)
(* notes and none that play two-operator notes on either half, although    *)
(* releasing a note leaves its bit behind.                                 *)
ConnMatches ==
  \A s \in Busy : S[s].voice # None =>
    IF S[s].type = 4 THEN conn_sel(S[s].voice) \subseteq conn_shadow
                     ELSE conn_sel(S[s].voice) \cap conn_shadow = {}

(* The chip sounds the voices of the busy slots and no others: no key-off  *)
(* is lost when a slot is freed.                                           *)
NoStuckVoice == key_on = UNION {Uses(s) : s \in Slots}

(* The two pieces of hardware state follow the slots through every message.*)
HardwareMatches == ConnMatches /\ NoStuckVoice

(* MIDI_voices, which weighs the priority of a channel, counts the slots   *)
(* of the channel that have a voice.                                       *)
VoiceCount ==
  \A c \in Chans : MIDI_voices[c] = Cardinality(Voiced(On(c)))

(* A note held by the pedal alone is on a channel whose pedal is down: the *)
(* release the key already made will come.                                 *)
SustainHeld ==
  \A s \in Busy : S[s].sustain = 1 => S[s].channel \in MIDI_sus

(* What the driver keeps per channel, a count that wraps and the pedal,    *)
(* agrees with the slots of the channel.                                   *)
ChannelsAccounted == VoiceCount /\ SustainHeld

(* A note starts without a voice only when there was none for it.          *)
NoVoiceIdle ==
  [][\A s \in Slots :
       S[s] = Free /\ S'[s] # Free /\ S'[s].voice = None =>
         IF S'[s].type = 4
         THEN \A b \in Bases : V_channel[b] # None \/ V_channel[b + Span] # None
         ELSE \A v \in Voice : V_channel[v] # None]_vars

(* The allocator is a pool of voices granted whole to one slot at a time.  *)
Pool == INSTANCE VoicePool WITH
  Clients <- Slots,
  Units <- Voice,
  Shapes <- {{v} : v \in Voice} \cup {{b, b + Span} : b \in Bases},
  held <- [s \in Slots |-> Uses(s)]

ImplementsPool == Pool!Spec
============================================================================
