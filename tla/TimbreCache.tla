----------------------------- MODULE TimbreCache ----------------------------
(***************************************************************************)
(* The Yamaha driver's cache of timbres: a table of entries, one block of  *)
(* memory the timbres lie in without gaps, and the three kinds of          *)
(* reference into them: the entry a channel plays (MIDI_timbre), the entry *)
(* of each drum (RBS_timbres) and the offset a sounding slot was started   *)
(* from (S_timbre_off).  Deleting the least recently used timbre slides    *)
(* the rest of the block down, and every reference has to follow.          *)
(*                                                                         *)
(* A step is one call or MIDI message, except that an installation that    *)
(* must make room is cut at each deletion: that loop need not end.  The    *)
(* drum channel is represented by its drums; slots end at any time, as     *)
(* Voices has them do.  Handlers chain helpers over the whole cache, so it *)
(* is one record, and a helper maps a record to a record.                  *)
(***************************************************************************)
EXTENDS Integers, FiniteSets

CONSTANTS
  MAX_TIMBS,   \* 192: entries of the table
  cache_size,  \* bytes of the cache
  Banks, Programs,
  Melodic,     \* timbres <<bank, program>> the application installs
  Drums,       \* timbres of bank 127
  Length,      \* timbre -> its bytes (14 or 25 in the driver)
  Chans,       \* melodic channels
  Slots,       \* note slots
  Half,        \* 2^7: MIDI_timbre[] and RBS_timbres[] are int8_t
  Null         \* no entry, no timbre, or memory never written

Timbres == Melodic \cup Drums
Entries == 0 .. MAX_TIMBS - 1
Bytes   == 0 .. cache_size - 1
None    == -1

EntryRec == [gnum : Timbres, protect : BOOLEAN, off : Bytes]
SlotRec  == [off : Bytes, of : Entries \cup {None}]
Index    == -Half .. Half - 1

ASSUME CacheAssumption ==
  /\ MAX_TIMBS \in Nat \ {0} /\ cache_size \in Nat /\ Half \in Nat \ {0}
  /\ MAX_TIMBS <= 2 * Half
  /\ Melodic \subseteq Banks \X Programs /\ Melodic \cap Drums = {}
  /\ Length \in [Timbres -> Nat \ {0}]
  /\ \A t \in Timbres : Length[t] <= cache_size
  /\ 0 \in Banks /\ Null \notin Timbres /\ Null \notin Banks /\ Null \notin Programs
  /\ Null \notin EntryRec /\ Null \notin SlotRec
  /\ \A b \in Banks : <<b, Null>> \notin Drums

VARIABLES
  tc,            \* the cache and all that refers to it, see TypeOK
  pending,       \* the timbre do_install_timbre is making room for, or Null
  MIDI_bank, MIDI_program,
  asked,         \* history: the timbre MIDI_timbre was last looked up for
  latched        \* history: no other bank was selected since

request == <<MIDI_bank, MIDI_program, asked, latched>>
vars    == <<tc, pending, request>>

Used(st) == {e \in Entries : st.timb[e] # Null}
index_timbre(st, t) == {e \in Used(st) : st.timb[e].gnum = t}
First(E) == CHOOSE e \in E : \A f \in E : e <= f

(* An entry as an int8_t holds it: the upper part of the table is negative, *)
(* which every reader takes for "none".                                    *)
Byte(e) == IF e < Half THEN e ELSE e - 2 * Half

(* What index_timbre returns, stored in an int8_t. *)
Lookup(st, t) ==
  IF index_timbre(st, t) = {} THEN None ELSE Byte(First(index_timbre(st, t)))

(* timb_hist is kept as the order it puts the entries in use in: entry e   *)
(* gets the latest time stamp.                                             *)
Touched(st, e) ==
  {p \in st.older : p[1] # e /\ p[2] # e} \cup {<<f, e>> : f \in Used(st) \ {e}}

Init ==
  /\ tc = [timb   |-> [e \in Entries |-> Null],
           older  |-> {},
           cache  |-> [b \in Bytes |-> Null],
           end    |-> 0,
           MIDI_timbre |-> [c \in Chans |-> None],
           RBS_timbres |-> [d \in Drums |-> None],
           slot   |-> [s \in Slots |-> Null]]
  /\ pending = Null
  /\ MIDI_bank = [c \in Chans |-> 0]
  /\ MIDI_program = [c \in Chans |-> Null]
  /\ asked = [c \in Chans |-> Null]
  /\ latched = [c \in Chans |-> FALSE]

----------------------------------------------------------------------------
(* Mutants of Victims: protection is not looked at; the search starts at   *)
(* entry 1.                                                                *)
victims_any(st) == Used(st)
victims_from_1(st) == {e \in Used(st) \ {0} : ~st.timb[e].protect}

Victims(st) == {e \in Used(st) : ~st.timb[e].protect}

(* The length comes from the first bytes of the timbre in the cache. *)
LengthAt(st, off) == Length[st.cache[off][1]]

(* The bytes above the deleted timbre move down; what lay at the end stays. *)
Slid(st, toff, n) ==
  [b \in Bytes |-> IF b >= toff /\ b + n < st.end THEN st.cache[b + n] ELSE st.cache[b]]

(* References to a deleted entry become "none". *)
Forget(index, e) == [x \in DOMAIN index |-> IF index[x] = e THEN None ELSE index[x]]

(* Mutant of Followed: the offsets of sounding slots stay behind. *)
slots_stay(slot, e, toff, n) ==
  [s \in Slots |-> IF slot[s] # Null /\ slot[s].of = e THEN [slot[s] EXCEPT !.of = None] ELSE slot[s]]

(* Slots above the deleted timbre follow it down.  Those that play the     *)
(* deleted timbre itself are passed over: the test before the one for them *)
(* includes equality.  ("of" is history: the entry, until it is deleted.)  *)
Followed(slot, e, toff, n) ==
  [s \in Slots |->
     IF slot[s] = Null THEN Null
     ELSE [off |-> IF slot[s].off <= toff THEN slot[s].off ELSE slot[s].off - n,
           of  |-> IF slot[s].of = e THEN None ELSE slot[s].of]]

Deleted(st, e) ==
  LET toff == st.timb[e].off
      n    == LengthAt(st, toff)
  IN  [timb   |-> [f \in Entries |->
                     IF f = e \/ st.timb[f] = Null THEN Null
                     ELSE [st.timb[f] EXCEPT !.off = IF @ <= toff THEN @ ELSE @ - n]],
       older  |-> {p \in st.older : p[1] # e /\ p[2] # e},
       cache  |-> Slid(st, toff, n),
       end    |-> st.end - n,
       MIDI_timbre |-> Forget(st.MIDI_timbre, e),
       RBS_timbres |-> Forget(st.RBS_timbres, e),
       slot   |-> Followed(st.slot, e, toff, n)]

(* Deletes the unprotected timbre used the longest ago, if there is one. *)
delete_LRU(st) ==
  IF Victims(st) = {} THEN st
  ELSE Deleted(st, CHOOSE e \in Victims(st) :
                     \A f \in Victims(st) \ {e} : <<e, f>> \in st.older)

(* Mutant of Requested: channels that wait for the timbre do not get it. *)
requested_none(t) == {}

(* The channels whose program and bank are this timbre. *)
Requested(t) == {c \in Chans : <<MIDI_bank[c], MIDI_program[c]>> = t}

(* do_install_timbre's last loop: those channels play entry e from now on. *)
Bound(st, t, e) ==
  [st EXCEPT !.MIDI_timbre = [c \in Chans |-> IF c \in Requested(t) THEN Byte(e) ELSE @[c]]]

Rebind(t) ==
  /\ asked' = [c \in Chans |-> IF c \in Requested(t) THEN t ELSE asked[c]]
  /\ latched' = [c \in Chans |-> IF c \in Requested(t) THEN TRUE ELSE latched[c]]
  /\ UNCHANGED <<MIDI_bank, MIDI_program>>

Fits(t) == tc.end + Length[t] <= cache_size

(* The entry for a new timbre: the first unused, or entry 0. *)
FreeEntry(st) ==
  IF Used(st) = Entries THEN 0 ELSE First(Entries \ Used(st))

Copied(st, t, e) ==
  LET st2 == [st EXCEPT
        !.timb[e] = [gnum |-> t, protect |-> FALSE, off |-> st.end],
        !.cache   = [b \in Bytes |-> IF b \in st.end .. st.end + Length[t] - 1
                                     THEN <<t, b - st.end>> ELSE @[b]],
        !.end     = @ + Length[t]]
  IN  [st2 EXCEPT !.older = Touched(st2, e)]

(* A timbre already in the cache is not copied again. *)
install_resident(t) ==
  /\ pending = Null
  /\ index_timbre(tc, t) # {}
  /\ tc' = Bound(tc, t, First(index_timbre(tc, t)))
  /\ Rebind(t)
  /\ UNCHANGED pending

install_new(t) ==
  /\ pending = Null
  /\ index_timbre(tc, t) = {}
  /\ pending' = t
  /\ UNCHANGED <<tc, request>>

(* One round of the loop that makes room. *)
make_room ==
  /\ pending # Null
  /\ ~Fits(pending)
  /\ tc' = delete_LRU(tc)
  /\ UNCHANGED <<pending, request>>

(* There is room; a full table costs one more timbre, and entry 0. *)
store ==
  LET st == IF Used(tc) = Entries THEN delete_LRU(tc) ELSE tc
      e  == FreeEntry(tc)
  IN  /\ pending # Null
      /\ Fits(pending)
      /\ tc' = Bound(Copied(st, pending, e), pending, e)
      /\ Rebind(pending)
      /\ pending' = Null

(* AIL_protect_timbre and AIL_unprotect_timbre. *)
protect_timbre(t) ==
  \E on \in BOOLEAN : \E e \in index_timbre(tc, t) :
    /\ pending = Null
    /\ tc' = [tc EXCEPT !.timb[e].protect = on]
    /\ UNCHANGED <<pending, request>>

(* Controller 113, for the timbre the channel plays. *)
TIMBRE_PROTECT(c) ==
  \E on \in BOOLEAN :
    /\ pending = Null
    /\ tc.MIDI_timbre[c] >= 0
    /\ tc' = [tc EXCEPT !.timb[tc.MIDI_timbre[c]].protect = on]
    /\ UNCHANGED <<pending, request>>

(* Controller 0 takes effect with the next program change.  (Controller    *)
(* 114, which XMIDI.TXT:237 gives this part, is ignored by the driver.)    *)
bank_select(c) ==
  \E b \in Banks :
    /\ pending = Null
    /\ MIDI_bank' = [MIDI_bank EXCEPT ![c] = b]
    /\ latched' = [latched EXCEPT ![c] = @ /\ b = MIDI_bank[c]]
    /\ UNCHANGED <<tc, pending, MIDI_program, asked>>

program_change(c) ==
  \E p \in Programs :
    LET t == <<MIDI_bank[c], p>> IN
    /\ pending = Null
    /\ MIDI_program' = [MIDI_program EXCEPT ![c] = p]
    /\ tc' = [tc EXCEPT !.MIDI_timbre[c] = Lookup(tc, t)]
    /\ asked' = [asked EXCEPT ![c] = t]
    /\ latched' = [latched EXCEPT ![c] = TRUE]
    /\ UNCHANGED <<pending, MIDI_bank>>

(* A note of entry e: its time stamp, and a slot if one is free. *)
Played(st, e) ==
  LET free == {s \in Slots : st.slot[s] = Null}
      st2  == [st EXCEPT !.older = Touched(st, e)]
  IN  IF free = {} THEN st2
      ELSE [st2 EXCEPT !.slot[First(free)] = [off |-> st.timb[e].off, of |-> e]]

note_on(c) ==
  /\ pending = Null
  /\ tc.MIDI_timbre[c] >= 0
  /\ tc' = Played(tc, tc.MIDI_timbre[c])
  /\ UNCHANGED <<pending, request>>

(* On the drum channel the key chooses the timbre, looked up until found.  *)
(* The note that finds it uses the full index, later ones the byte.        *)
drum_note_on(d) ==
  LET looked_up == [tc EXCEPT !.RBS_timbres[d] = Lookup(tc, d)] IN
  /\ pending = Null
  /\ \/ /\ tc.RBS_timbres[d] >= 0
        /\ tc' = Played(tc, tc.RBS_timbres[d])
     \/ /\ tc.RBS_timbres[d] < 0
        /\ tc' = IF index_timbre(tc, d) = {} THEN looked_up
                 ELSE Played(looked_up, First(index_timbre(tc, d)))
  /\ UNCHANGED <<pending, request>>

(* A slot ends (Voices says when). *)
note_off(s) ==
  /\ pending = Null
  /\ tc.slot[s] # Null
  /\ tc' = [tc EXCEPT !.slot[s] = Null]
  /\ UNCHANGED <<pending, request>>

Next ==
  \/ \E t \in Timbres : install_resident(t) \/ install_new(t) \/ protect_timbre(t)
  \/ make_room
  \/ store
  \/ \E c \in Chans : TIMBRE_PROTECT(c) \/ bank_select(c) \/ program_change(c) \/ note_on(c)
  \/ \E d \in Drums : drum_note_on(d)
  \/ \E s \in Slots : note_off(s)

Spec == Init /\ [][Next]_vars

(* do_install_timbre runs on once it is called. *)
FairSpec == Spec /\ WF_vars(make_room \/ store)

----------------------------------------------------------------------------
(* Types; offsets lie within the cache. *)
TypeOK ==
  /\ tc \in [timb : [Entries -> EntryRec \cup {Null}],
             older : SUBSET (Entries \X Entries),
             cache : [Bytes -> (Timbres \X Nat) \cup {Null}],
             end : 0 .. cache_size,
             MIDI_timbre : [Chans -> Index],
             RBS_timbres : [Drums -> Index],
             slot : [Slots -> SlotRec \cup {Null}]]
  /\ pending \in Timbres \cup {Null}
  /\ MIDI_bank \in [Chans -> Banks]
  /\ MIDI_program \in [Chans -> Programs \cup {Null}]
  /\ asked \in [Chans -> (Banks \X Programs) \cup {Null}]
  /\ latched \in [Chans -> BOOLEAN]

(* Whatever was deleted and moved before, each timbre in the table lies    *)
(* whole and unmixed at its offset, below cache_end.                       *)
EntriesIntact ==
  \A e \in Used(tc) :
    LET r == tc.timb[e] IN
    /\ r.off + Length[r.gnum] <= tc.end
    /\ \A k \in 0 .. Length[r.gnum] - 1 : tc.cache[r.off + k] = <<r.gnum, k>>

(* No byte below cache_end is lost: each belongs to a timbre of the table, *)
(* so room that deletions make can be used again.                          *)
NoLeak ==
  \A b \in 0 .. tc.end - 1 :
    \E e \in Used(tc) :
      tc.timb[e].off <= b /\ b < tc.timb[e].off + Length[tc.timb[e].gnum]

(* An index a channel or a drum holds is of an entry in use that still has *)
(* the timbre it was looked up for, though entries are deleted and reused. *)
IndicesRight ==
  /\ \A c \in Chans :
       tc.MIDI_timbre[c] >= 0 =>
         tc.MIDI_timbre[c] \in Used(tc) /\ tc.timb[tc.MIDI_timbre[c]].gnum = asked[c]
  /\ \A d \in Drums :
       tc.RBS_timbres[d] >= 0 =>
         tc.RBS_timbres[d] \in Used(tc) /\ tc.timb[tc.RBS_timbres[d]].gnum = d

(* A channel plays the entry of its timbre whenever that is in the cache,  *)
(* also when it was installed, or deleted and installed again, after the   *)
(* program change (unless a bank was selected since).  An entry from Half  *)
(* on has no name in a signed byte: a channel whose timbre lies there is   *)
(* silent, although the timbre is installed (yamaha.c 170, 818).           *)
ResidentPlays ==
  \A c \in Chans : latched[c] =>
    \A e \in index_timbre(tc, asked[c]) : e < Half => tc.MIDI_timbre[c] = e

(* A sounding slot's offset is its timbre's, as long as that is there. *)
SlotsFollow ==
  \A s \in Slots :
    tc.slot[s] # Null /\ tc.slot[s].of # None =>
      tc.slot[s].of \in Used(tc) /\ tc.slot[s].off = tc.timb[tc.slot[s].of].off

(* The table, the bytes and the indices into them agree through deletions, *)
(* moves and reuse, also for the notes that sound.                         *)
CacheConsistent == EntriesIntact /\ NoLeak /\ IndicesRight /\ SlotsFollow

(* A protected timbre stays in its entry until its protection is lifted    *)
(* (API.TXT:915-927).                                                      *)
ProtectedStays ==
  [][ \A e \in Used(tc) :
        tc.timb[e].protect =>
          e \in Used(tc)' /\ tc.timb'[e].gnum = tc.timb[e].gnum ]_vars

(* The part of the cache that protected timbres take. *)
ProtectedBytes ==
  {b \in Bytes : \E e \in Used(tc) :
     /\ tc.timb[e].protect
     /\ tc.timb[e].off <= b /\ b < tc.timb[e].off + Length[tc.timb[e].gnum]}

(* An installation ends if the protected timbres leave room for it: the    *)
(* loop deletes until there is room.  (Else it does not end.)              *)
InstallEnds ==
  (pending # Null /\ Cardinality(ProtectedBytes) + Length[pending] <= cache_size)
    ~> (pending = Null)
=============================================================================
