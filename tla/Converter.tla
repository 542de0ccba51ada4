----------------------------- MODULE Converter -----------------------------
(***************************************************************************)
(* The XMIDI compiler (glib/MIDIFORM.C): it merges the tracks of a MIDI    *)
(* file, counts time in quantization intervals with a DDA, replaces each   *)
(* note-off by a duration written behind its note-on, and records branch   *)
(* points and the timbres the song needs.                                  *)
(*                                                                         *)
(* One action is one round of XMIDI_compile's loop: the choice of a track  *)
(* (MIDI_get_next_event), the time that passed (XMIDI_accum_interval) and  *)
(* what the event's kind asks for.  The file is read as it is converted,   *)
(* so what an event is, and the delta behind it, are chosen when it is     *)
(* read.                                                                   *)
(*                                                                         *)
(* EVNT is a sequence of cells, one per byte.  Writing a duration longer   *)
(* than one byte moves everything behind it, with the places that the      *)
(* notes still on and the branch points remember.                          *)
(*                                                                         *)
(* History: elapsed, the time the file says went by; skew, see NoDrift;    *)
(* score, the notes and markers of the file with the interval they began   *)
(* and ended in; wanted, the timbres its notes and programs need.          *)
(***************************************************************************)
EXTENDS Integers, Sequences, SequencesExt, Functions

CONSTANTS
  ntrks,      \* tracks of the file
  Chans,      \* channels it uses; Rhythm is the percussion channel (9)
  Rhythm,
  NoteNums,
  Patches,
  Banks,      \* 0 is the bank a channel starts in; RhythmBank (127) is Rhythm's
  RhythmBank,
  Marks,      \* values of the branch point controller
  Deltas,     \* delta times in the file
  Ticks,      \* tick times its tempo events ask for (first: Tick)
  Tick,
  q_int,      \* time of a quantization interval
  VlnBase,      \* 128: a variable-length number's digits, an interval byte's limit
  ULong,      \* 2^32
  MAX_NOTES, MAX_RBRN, MAX_TIMB,
  MaxEvents,  \* bound: events read before the ends of the tracks
  Null

ASSUME ConverterAssumption ==
  /\ ntrks \in Nat \ {0}
  /\ Rhythm \in Chans
  /\ Deltas \subseteq Nat /\ Ticks \subseteq Nat /\ Tick \in Nat
  /\ q_int \in Nat \ {0} /\ ULong \in Nat \ {0}
  /\ VlnBase \in Nat \ {0, 1}
  /\ {MAX_NOTES, MAX_RBRN, MAX_TIMB} \subseteq Nat \ {0}
  /\ MaxEvents \in Nat
  /\ Null \notin [chan : Chans, num : NoteNums, intvl : Nat, next : Nat]   \* a free slot

Trks  == 0 .. ntrks - 1
Slots == 1 .. MAX_NOTES

VARIABLES
  pending_delta, trk_active, event_trk,    \* the reader; trk_active is a set
  tick_time, DDA_sum, interval, delta,     \* the clock
  notes,                                   \* note_chan, note_num, note_intvl, note_next
  EVNT, RBRN, TIMB,
  timb_BNK,
  result,        \* "converting", "done" or the error it ends with
  events,
  elapsed, skew, score, wanted

reader  == <<pending_delta, trk_active, event_trk, events>>
clock   == <<tick_time, DDA_sum, interval, delta>>
timbres == <<TIMB, timb_BNK, wanted>>
times   == <<elapsed, skew>>
formvars == <<reader, clock, notes, EVNT, RBRN, timbres, result, times, score>>

----------------------------------------------------------------------------
(* Bytes. *)

(* A variable-length number: of four digits (no song lasts 2^28 intervals) *)
(* those that lead are left out while they are 0; all but the last have    *)
(* the high bit.                                                           *)
Digits(v) == <<v % VlnBase, (v \div VlnBase) % VlnBase, (v \div (VlnBase * VlnBase)) % VlnBase,
               (v \div (VlnBase * VlnBase * VlnBase)) % VlnBase>>
Size(v) == CHOOSE n \in 1 .. 4 : /\ n = 1 \/ Digits(v)[n] # 0
                                 /\ \A i \in n + 1 .. 4 : Digits(v)[i] = 0
Vln(v) == [i \in 1 .. Size(v) |->
             [kind |-> "digit", val |-> Digits(v)[Size(v) + 1 - i], more |-> i < Size(v)]]

IntervalByte(v) == [kind |-> "interval", val |-> v]
DataCell        == [kind |-> "data"]

(* The interval bytes for a delta: as many of the largest as it takes. *)
IntervalBytes(d) ==
  LET full == IF d = 0 THEN 0 ELSE (d - 1) \div (VlnBase - 1)
  IN [i \in 1 .. full |-> IntervalByte(VlnBase - 1)]
     \o (IF d = 0 THEN <<>> ELSE <<IntervalByte(d - full * (VlnBase - 1))>>)

(* Events as bytes: status, then data. *)
NoteBytes(c, n)   == <<[kind |-> "note", chan |-> c, num |-> n], DataCell, DataCell>>
MarkBytes(m)      == <<[kind |-> "mark", val |-> m], DataCell, DataCell>>
OtherBytes        == <<[kind |-> "other"], DataCell, DataCell>>
ProgramBytes      == <<[kind |-> "other"], DataCell>>
EndBytes          == <<[kind |-> "end"], DataCell, DataCell>>

----------------------------------------------------------------------------
(* MIDI_construct and XMIDI_construct. *)
FormInit ==
  /\ pending_delta \in [Trks -> Deltas]
  /\ trk_active = Trks
  /\ event_trk = ntrks - 1
  /\ tick_time = Tick /\ DDA_sum = 0 /\ interval = 0 /\ delta = 0
  /\ notes = [s \in Slots |-> Null]
  /\ EVNT = <<>> /\ RBRN = <<>> /\ TIMB = <<>>
  /\ timb_BNK = [c \in Chans |-> 0]
  /\ result = "converting"
  /\ events = 0
  /\ elapsed = 0 /\ skew = 0 /\ score = <<>> /\ wanted = {}

----------------------------------------------------------------------------
(* Reading. *)

(* The scan begins at the track of the last event and goes down, and of    *)
(* equal deltas the one met last wins.                                     *)
ScanRank(t) == (event_trk - t) % ntrks
NextTrack ==
  CHOOSE t \in trk_active :
    \A u \in trk_active :
      \/ pending_delta[t] < pending_delta[u]
      \/ pending_delta[t] = pending_delta[u] /\ ScanRank(t) >= ScanRank(u)

event_time == pending_delta[NextTrack]

(* Take the event of the next track; the delta behind it is d. *)
Take(d) ==
  /\ pending_delta' = [t \in Trks |-> IF t = NextTrack THEN d
                                      ELSE IF t \in trk_active THEN pending_delta[t] - event_time
                                      ELSE pending_delta[t]]
  /\ event_trk' = NextTrack

Reading ==
  /\ result = "converting" /\ trk_active # {}
  /\ events < MaxEvents /\ events' = events + 1
  /\ \E d \in Deltas : Take(d)
  /\ UNCHANGED trk_active

(* The time of the event passes at tick time k: whole intervals are taken  *)
(* from the sum.                                                           *)
Summed(k) == (DDA_sum + event_time * k) % ULong
Passed(k) == Summed(k) \div q_int

(* Mutant of accum_interval: an interval begins with an empty sum. *)
accum_drops_rest(k) ==
  /\ DDA_sum' = IF Passed(k) > 0 THEN 0 ELSE Summed(k)
  /\ interval' = interval + Passed(k)
  /\ elapsed' = elapsed + event_time * tick_time
  /\ skew' = skew + event_time * (k - tick_time)

accum_interval(k) ==
  /\ DDA_sum' = Summed(k) % q_int
  /\ interval' = interval + Passed(k)
  /\ elapsed' = elapsed + event_time * tick_time
  /\ skew' = skew + event_time * (k - tick_time)

Now   == interval + Passed(tick_time)
Delta == delta + Passed(tick_time)

(* Time passes and nothing is written. *)
Pass == accum_interval(tick_time) /\ delta' = Delta /\ UNCHANGED tick_time

(* Time passes and the event's bytes follow the interval's. *)
Written(bytes) == EVNT \o IntervalBytes(Delta) \o bytes
Put(bytes) ==
  /\ accum_interval(tick_time) /\ delta' = 0 /\ UNCHANGED tick_time
  /\ EVNT' = Written(bytes)

Fail(e) == result' = e

----------------------------------------------------------------------------
(* The timbres. *)

TimbreKnown(b, n) == [bank |-> b, num |-> n] \in Range(TIMB)

(* Mutant of request: a timbre asked for before is logged again. *)
request_repeats(b, n) ==
  /\ TIMB' = Append(TIMB, [bank |-> b, num |-> n])
  /\ wanted' = wanted \cup {[bank |-> b, num |-> n]}

request(b, n) ==
  /\ TIMB' = IF TimbreKnown(b, n) THEN TIMB ELSE Append(TIMB, [bank |-> b, num |-> n])
  /\ wanted' = wanted \cup {[bank |-> b, num |-> n]}

(* A full table fails even for a timbre that is in it. *)
TimbresFull == Len(TIMB) >= MAX_TIMB

----------------------------------------------------------------------------
(* Events. *)

FreeSlots == {s \in Slots : notes[s] = Null}

(* A note-on, with a duration of one byte still to be filled in.  The      *)
(* error of too many notes comes after the note is written.                *)
note_on ==
  /\ Reading
  /\ \E c \in Chans, n \in NoteNums :
       LET now == Now IN
       IF c = Rhythm /\ TimbresFull
       THEN /\ Fail("MF011") /\ Pass
            /\ UNCHANGED <<notes, EVNT, RBRN, timbres, score>>
       ELSE /\ IF c = Rhythm THEN request(RhythmBank, n) ELSE UNCHANGED <<TIMB, wanted>>
            /\ Put(NoteBytes(c, n) \o Vln(0))
            /\ score' = Append(score, [kind |-> "note", chan |-> c, num |-> n,
                                       from |-> now, until |-> Null])
            /\ \/ /\ FreeSlots = {}
                  /\ Fail("MF009") /\ UNCHANGED notes
               \/ \E s \in FreeSlots :
                    /\ \A u \in FreeSlots : s <= u
                    /\ notes' = [notes EXCEPT ![s] =
                         [chan |-> c, num |-> n, intvl |-> now, next |-> Len(EVNT') + 1]]
                    /\ UNCHANGED result
            /\ UNCHANGED <<RBRN, timb_BNK>>

(* The state of the output: cells, the notes on, and the branch points.    *)
Output == [cells |-> EVNT, notes |-> notes, marks |-> RBRN]

(* Mutant of Lengthen: branch points behind the note are not moved. *)
lengthen_keeps_marks(o, s, now) ==
  LET digits == Vln(now - o.notes[s].intvl)
      extra  == Len(digits) - 1
      next   == o.notes[s].next
      moved(u) == [o.notes[u] EXCEPT !.next = IF @ >= next THEN @ + extra ELSE @]
  IN [cells |-> SubSeq(o.cells, 1, next - 2) \o digits
                \o SubSeq(o.cells, next, Len(o.cells)),
      notes |-> [u \in Slots |-> IF u = s \/ o.notes[u] = Null THEN Null ELSE moved(u)],
      marks |-> o.marks]

(* The note of slot s ends now: its duration takes the place of the byte   *)
(* before note_next, and a longer one moves everything from note_next on.  *)
(* Offsets count from 0, cells from 1.                                     *)
Lengthen(o, s, now) ==
  LET digits == Vln(now - o.notes[s].intvl)
      extra  == Len(digits) - 1
      next   == o.notes[s].next
      moved(u) == [o.notes[u] EXCEPT !.next = IF @ >= next THEN @ + extra ELSE @]
  IN [cells |-> SubSeq(o.cells, 1, next - 2) \o digits
                \o SubSeq(o.cells, next, Len(o.cells)),
      notes |-> [u \in Slots |-> IF u = s \/ o.notes[u] = Null THEN Null ELSE moved(u)],
      marks |-> [i \in DOMAIN o.marks |->
                   [o.marks[i] EXCEPT !.offset = IF @ + 1 >= next THEN @ + extra ELSE @]]]

(* Every note of this number on this channel ends, in the order of slots.  *)
note_off ==
  /\ Reading
  /\ \E c \in Chans, n \in NoteNums :
       LET now == Now
           ends(s) == notes[s] # Null /\ notes[s].chan = c /\ notes[s].num = n
           out[s \in 0 .. MAX_NOTES] ==
             IF s = 0 THEN Output
             ELSE IF ends(s) THEN Lengthen(out[s - 1], s, now) ELSE out[s - 1]
       IN /\ EVNT' = out[MAX_NOTES].cells
          /\ notes' = out[MAX_NOTES].notes
          /\ RBRN' = out[MAX_NOTES].marks
          /\ score' = [i \in DOMAIN score |->
                         LET e == score[i] IN
                         IF e.kind = "note" /\ e.until = Null /\ e.chan = c /\ e.num = n
                         THEN [e EXCEPT !.until = now] ELSE e]
  /\ Pass
  /\ UNCHANGED <<timbres, result>>

(* A branch point is logged before the interval that leads to it is        *)
(* written, so its place is that interval's.                               *)
branch_point ==
  /\ Reading
  /\ \E m \in Marks :
       LET now == Now
           seen == \E i \in DOMAIN RBRN : RBRN[i].bnum = m IN
       \/ /\ Len(RBRN) >= MAX_RBRN \/ seen
          /\ Fail(IF Len(RBRN) >= MAX_RBRN THEN "MF010" ELSE "MF012")
          /\ Pass
          /\ UNCHANGED <<EVNT, RBRN, score>>
       \/ /\ Len(RBRN) < MAX_RBRN /\ ~seen
          /\ RBRN' = Append(RBRN, [bnum |-> m, offset |-> Len(EVNT)])
          /\ Put(MarkBytes(m))
          /\ score' = Append(score, [kind |-> "mark", val |-> m, from |-> now])
          /\ UNCHANGED result
  /\ UNCHANGED <<notes, timbres>>

(* A patch bank select; the check for room is made here too. *)
bank_select ==
  /\ Reading
  /\ \E c \in Chans, b \in Banks :
       \/ /\ TimbresFull /\ Fail("MF011") /\ Pass
          /\ UNCHANGED <<EVNT, timb_BNK>>
       \/ /\ ~TimbresFull
          /\ timb_BNK' = [timb_BNK EXCEPT ![c] = b]
          /\ Put(OtherBytes)
          /\ UNCHANGED result
  /\ UNCHANGED <<notes, RBRN, TIMB, wanted, score>>

program ==
  /\ Reading
  /\ \E c \in Chans, p \in Patches :
       \/ /\ TimbresFull /\ Fail("MF011") /\ Pass
          /\ UNCHANGED <<EVNT, TIMB, wanted>>
       \/ /\ ~TimbresFull
          /\ request(timb_BNK[c], p)
          /\ Put(ProgramBytes)
          /\ UNCHANGED result
  /\ UNCHANGED <<notes, RBRN, timb_BNK, score>>

(* Track and instrument names are read and dropped. *)
name ==
  /\ Reading /\ Pass
  /\ UNCHANGED <<notes, EVNT, RBRN, timbres, result, score>>

(* Pressure, pitch, other controllers and meta events, and messages of the *)
(* system are copied.                                                      *)
copy ==
  /\ Reading /\ Put(OtherBytes)
  /\ UNCHANGED <<notes, RBRN, timbres, result, score>>

(* A tempo event sets the tick time when it is read, and only then is the  *)
(* time that led to it added up.                                           *)
tempo ==
  /\ Reading
  /\ \E k \in Ticks :
       /\ tick_time' = k
       /\ accum_interval(k)
       /\ EVNT' = EVNT \o IntervalBytes(delta + Passed(k)) \o OtherBytes
  /\ delta' = 0
  /\ UNCHANGED <<notes, RBRN, timbres, result, score>>

(* The end of a track.  What is read as its next delta is never used. *)
end_of_track ==
  /\ result = "converting" /\ trk_active # {}
  /\ Take(0)
  /\ trk_active' = trk_active \ {NextTrack}
  /\ Pass
  /\ UNCHANGED <<events, notes, EVNT, RBRN, timbres, result, score>>

(* No track is left: the last interval and the end of the XMIDI track are  *)
(* written, and a note that is still on is an error.                       *)
finish ==
  /\ result = "converting" /\ trk_active = {}
  /\ EVNT' = EVNT \o IntervalBytes(delta) \o EndBytes
  /\ delta' = 0
  /\ result' = IF FreeSlots = Slots THEN "done" ELSE "MF008"
  /\ UNCHANGED <<reader, tick_time, DDA_sum, interval, notes, RBRN, timbres, times, score>>

----------------------------------------------------------------------------
(* Properties. *)

(* The variable-length number at cell p of EVNT, and the cell behind it. *)
Number(p) ==
  LET read[q \in Nat] == IF EVNT[q].more THEN read[q + 1] ELSE q
      last == read[p]
      value[q \in Nat] == IF q < p THEN 0 ELSE value[q - 1] * VlnBase + EVNT[q].val
  IN [val |-> value[last], next |-> last + 1]

(* EVNT as the driver reads it (xmidi32_serve_driver, xmidi32_XMIDI_note_on): *)
(* from cell p at interval t on.                                           *)
Played ==
  LET play[p \in Nat, t \in Nat] ==
        IF p > Len(EVNT) THEN <<>>
        ELSE LET e == EVNT[p] IN
          IF e.kind = "interval" THEN play[p + 1, t + e.val]
          ELSE IF e.kind = "note"
          THEN LET d == Number(p + 3) IN
               <<[kind |-> "note", chan |-> e.chan, num |-> e.num, from |-> t,
                  until |-> t + d.val]>> \o play[d.next, t]
          ELSE IF e.kind = "mark"
          THEN <<[kind |-> "mark", val |-> e.val, from |-> t]>> \o play[p + 3, t]
          ELSE IF e.kind = "end" THEN <<[kind |-> "end", from |-> t]>>
          ELSE play[p + 1, t]
  IN play[1, 0]

(* A note that is on keeps its place: the byte before note_next is the     *)
(* empty duration of just that note (MIDIFORM.C 914-918, 931-949).         *)
NotesKeepPlace ==
  \A s \in Slots : notes[s] # Null =>
    LET p == notes[s].next - 4 IN
    /\ p \in DOMAIN EVNT /\ EVNT[p].kind = "note"
    /\ EVNT[p].chan = notes[s].chan /\ EVNT[p].num = notes[s].num
    /\ EVNT[p + 3] = Vln(0)[1]

(* A branch leads to its marker, past intervals only: every offset kept    *)
(* for the RBRN chunk follows its marker through the moves of note_off     *)
(* (MIDIFORM.C 822-836, 920-923).                                          *)
BranchesLead ==
  \A i \in DOMAIN RBRN :
    \E p \in RBRN[i].offset + 1 .. Len(EVNT) :
      /\ EVNT[p].kind = "mark" /\ EVNT[p].val = RBRN[i].bnum
      /\ \A q \in RBRN[i].offset + 1 .. p - 1 : EVNT[q].kind = "interval"

(* What the driver plays of the finished EVNT chunk is what the file says: *)
(* every note in its interval with its duration, every marker in its       *)
(* place, up to the interval the last track ends in (MIDIFORM.C 784-808,   *)
(* 887-949): the durations written into the middle of the chunk disturb    *)
(* neither the notes that are still on nor the branch points.              *)
PlaysAsWritten ==
  /\ NotesKeepPlace
  /\ BranchesLead
  /\ result = "done" => Played = Append(score, [kind |-> "end", from |-> interval])

(* Rounding does not add up: the intervals written are all that fit in the *)
(* time of the file, whatever the deltas (MIDIFORM.C 784-793), but for     *)
(* skew: the time before a tempo event is counted at the new tempo.        *)
NoDrift ==
  /\ interval * q_int + DDA_sum = elapsed + skew
  /\ DDA_sum < q_int

(* The TIMB chunk holds each timbre the song needs once, and no other      *)
(* (MIDIFORM.C 839-884).                                                   *)
TimbresExact ==
  /\ Range(TIMB) = wanted
  /\ \A i, j \in DOMAIN TIMB : TIMB[i] = TIMB[j] => i = j
============================================================================
