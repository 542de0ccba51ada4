------------------------- MODULE TimbreCacheProofs -------------------------
(***************************************************************************)
(* Proofs about the timbre cache, for any table, memory and set of timbres.*)
(* The heart is that each byte says what it is a copy of: two timbres that *)
(* lie whole at their offsets cannot overlap, so what a deletion moves     *)
(* down is whole timbres, and every reference to them moves alike.         *)
(***************************************************************************)
EXTENDS TimbreCache, FiniteSetTheorems, NaturalsInduction, WellFoundedInduction, TLAPS

----------------------------------------------------------------------------
(* The parts of the invariant that hold of a cache st whatever happens. *)

CacheRec ==
  [timb : [Entries -> EntryRec \cup {Null}],
   older : SUBSET (Entries \X Entries),
   cache : [Bytes -> (Timbres \X Nat) \cup {Null}],
   end : 0 .. cache_size,
   MIDI_timbre : [Chans -> Index],
   RBS_timbres : [Drums -> Index],
   slot : [Slots -> SlotRec \cup {Null}]]

Off(st, e) == st.timb[e].off
Size(st, e) == Length[st.timb[e].gnum]

(* EntriesIntact, of any cache. *)
Intact(st) ==
  \A e \in Used(st) :
    /\ Off(st, e) + Size(st, e) <= st.end
    /\ \A k \in 0 .. Size(st, e) - 1 : st.cache[Off(st, e) + k] = <<st.timb[e].gnum, k>>

Unique(st) ==
  \A e, f \in Used(st) : st.timb[e].gnum = st.timb[f].gnum => e = f

(* The order of the last uses is one: the least recently used exists. *)
Ordered(st) ==
  /\ \A e, f \in Used(st) : e # f => <<e, f>> \in st.older \/ <<f, e>> \in st.older
  /\ \A e, f, g \in Used(st) :
       <<e, f>> \in st.older /\ <<f, g>> \in st.older => <<e, g>> \in st.older
  /\ \A p \in st.older : p[1] \in Used(st) /\ p[2] \in Used(st) /\ p[1] # p[2]

(* Whoever holds an index holds one of an entry in use. *)
HeldUsed(st) ==
  /\ \A c \in Chans : st.MIDI_timbre[c] >= 0 => st.MIDI_timbre[c] \in Used(st)
  /\ \A d \in Drums : st.RBS_timbres[d] >= 0 => st.RBS_timbres[d] \in Used(st)
  /\ \A s \in Slots : st.slot[s] # Null /\ st.slot[s].of # None => st.slot[s].of \in Used(st)

(* The offset of a slot, also a stale one, never lies inside a timbre. *)
Between(st) ==
  \A s \in Slots : st.slot[s] # Null =>
    /\ st.slot[s].off <= st.end
    /\ \A e \in Used(st) : st.slot[s].off <= Off(st, e)
                           \/ Off(st, e) + Size(st, e) <= st.slot[s].off

Solid(st) ==
  /\ st \in CacheRec
  /\ Intact(st) /\ Unique(st) /\ Ordered(st) /\ HeldUsed(st) /\ Between(st)

----------------------------------------------------------------------------
(* Lemmas about the data. *)

(* The least member of a set of numbers. *)
LEMMA LowestMember ==
  ASSUME NEW S \in SUBSET Nat, S # {}
  PROVE  First(S) \in S /\ \A t \in S : First(S) <= t
<1> DEFINE R == {ss \in Nat \X Nat : ss[1] < ss[2]}
<1>1. IsWellFoundedOn(R, Nat)
  BY NatLessThanWellFounded DEF OpToRel
<1>2. \E x \in S : \A y \in S : ~ (<<y, x>> \in R)
  <2> HIDE DEF R
  <2> QED BY <1>1, WFMin
<1>3. PICK x \in S : \A y \in S : ~ (<<y, x>> \in R)
  BY <1>2
<1>4. ASSUME NEW y \in S PROVE x <= y
  <2>1. ~ (<<y, x>> \in R) /\ x \in Nat /\ y \in Nat
    BY <1>3
  <2> QED BY <2>1
<1> QED BY <1>4 DEF First

(* The first of a single entry is that entry. *)
LEMMA FirstSingle ==
  ASSUME NEW e \in Int
  PROVE  First({e}) = e
  BY DEF First

(* What an entry in use is, and where it may lie. *)
LEMMA UsedRec ==
  ASSUME NEW st, st \in CacheRec, NEW e \in Used(st)
  PROVE  /\ e \in Entries /\ e \in Nat /\ st.timb[e] \in EntryRec /\ st.timb[e] # Null
         /\ st.timb[e].gnum \in Timbres /\ st.timb[e].protect \in BOOLEAN
         /\ Off(st, e) \in Nat /\ Size(st, e) \in Nat \ {0}
<1>1. MAX_TIMBS \in Nat /\ cache_size \in Nat /\ Length \in [Timbres -> Nat \ {0}]
  BY CacheAssumption DEF CacheAssumption
<1>2. e \in Entries /\ st.timb[e] # Null /\ st.timb \in [Entries -> EntryRec \cup {Null}]
  BY DEF Used, CacheRec
<1>3. st.timb[e] \in EntryRec
  BY <1>2
<1>4. st.timb[e].gnum \in Timbres /\ st.timb[e].protect \in BOOLEAN /\ st.timb[e].off \in Bytes
  BY <1>3 DEF EntryRec
<1> QED BY <1>1, <1>2, <1>3, <1>4 DEF Entries, Bytes, Off, Size

(* Two timbres that lie whole at their offsets do not overlap. *)
LEMMA Disjoint ==
  ASSUME NEW st, st \in CacheRec, Intact(st), Unique(st),
         NEW e \in Used(st), NEW f \in Used(st), e # f
  PROVE  Off(st, e) + Size(st, e) <= Off(st, f) \/ Off(st, f) + Size(st, f) <= Off(st, e)
<1>1. ASSUME NEW a \in Used(st), NEW b \in Used(st), a # b,
             Off(st, a) <= Off(st, b), Off(st, b) < Off(st, a) + Size(st, a)
      PROVE  FALSE
  <2> DEFINE k == Off(st, b) - Off(st, a)
  <2>1. /\ Off(st, a) \in Nat /\ Off(st, b) \in Nat
        /\ Size(st, a) \in Nat \ {0} /\ Size(st, b) \in Nat \ {0}
    BY UsedRec
  <2>2. k \in 0 .. Size(st, a) - 1 /\ 0 \in 0 .. Size(st, b) - 1
        /\ Off(st, a) + k = Off(st, b) /\ Off(st, b) + 0 = Off(st, b)
    BY <1>1, <2>1
  <2> HIDE DEF k
  <2>3. st.cache[Off(st, b)] = <<st.timb[a].gnum, k>>
    BY <2>2 DEF Intact
  <2>4. st.cache[Off(st, b)] = <<st.timb[b].gnum, 0>>
    BY <2>2 DEF Intact
  <2>5. st.timb[a].gnum = st.timb[b].gnum
    BY <2>3, <2>4
  <2> QED BY <1>1, <2>5 DEF Unique
<1>2. /\ Off(st, e) \in Nat /\ Off(st, f) \in Nat
      /\ Size(st, e) \in Nat \ {0} /\ Size(st, f) \in Nat \ {0}
  BY UsedRec
<1>3. CASE Off(st, e) <= Off(st, f)
  BY <1>1, <1>2, <1>3
<1>4. CASE Off(st, f) <= Off(st, e)
  BY <1>1, <1>2, <1>4
<1> QED BY <1>2, <1>3, <1>4

(* A deletion of the timbre at toff of n bytes, for any offset. *)
Drop(a, toff, n) == IF a <= toff THEN a ELSE a - n

LEMMA DeletedFields ==
  ASSUME NEW st, st \in CacheRec, Intact(st), Unique(st), NEW e \in Used(st),
         NEW d, d = Deleted(st, e)
  PROVE  /\ Used(d) = Used(st) \ {e}
         /\ \A f \in Used(d) : /\ d.timb[f].gnum = st.timb[f].gnum
                               /\ d.timb[f].protect = st.timb[f].protect
                               /\ Off(d, f) = Drop(Off(st, f), Off(st, e), Size(st, e))
                               /\ Size(d, f) = Size(st, f)
                               /\ d.timb[f] \in EntryRec
         /\ d.timb = [f \in Entries |-> d.timb[f]]
         /\ \A f \in Entries : f \notin Used(d) => d.timb[f] = Null
         /\ d.older = {p \in st.older : p[1] # e /\ p[2] # e}
         /\ d.cache = Slid(st, Off(st, e), Size(st, e))
         /\ d.end = st.end - Size(st, e)
         /\ d.MIDI_timbre = Forget(st.MIDI_timbre, e)
         /\ d.RBS_timbres = Forget(st.RBS_timbres, e)
         /\ d.slot = Followed(st.slot, e, Off(st, e), Size(st, e))
         /\ d = [timb |-> d.timb, older |-> d.older, cache |-> d.cache, end |-> d.end,
                 MIDI_timbre |-> d.MIDI_timbre, RBS_timbres |-> d.RBS_timbres,
                 slot |-> d.slot]
<1> DEFINE toff == Off(st, e)
           n    == Size(st, e)
           T    == [f \in Entries |->
                     IF f = e \/ st.timb[f] = Null THEN Null
                     ELSE [st.timb[f] EXCEPT !.off = IF @ <= toff THEN @ ELSE @ - n]]
<1>1. toff \in Nat /\ n \in Nat \ {0} /\ e \in Entries
  BY UsedRec
<1>2. st.cache[toff] = <<st.timb[e].gnum, 0>>
  <2>1. 0 \in 0 .. n - 1 /\ toff + 0 = toff
    BY <1>1
  <2> QED BY <2>1 DEF Intact
<1>3. LengthAt(st, toff) = n
  BY <1>2 DEF LengthAt, Size
<1> HIDE DEF n
<1>4. d = [timb |-> T, older |-> {p \in st.older : p[1] # e /\ p[2] # e},
           cache |-> Slid(st, toff, n), end |-> st.end - n,
           MIDI_timbre |-> Forget(st.MIDI_timbre, e),
           RBS_timbres |-> Forget(st.RBS_timbres, e),
           slot |-> Followed(st.slot, e, toff, n)]
  BY <1>3 DEF Deleted, Off
<1> HIDE DEF T, toff
<1>5. d.timb = T
  BY <1>4
<1>6. ASSUME NEW f \in Used(st), f # e
      PROVE  /\ T[f] # Null /\ T[f] \in EntryRec
             /\ T[f].gnum = st.timb[f].gnum /\ T[f].protect = st.timb[f].protect
             /\ T[f].off = Drop(st.timb[f].off, toff, n)
  <2>1. f \in Entries /\ st.timb[f] \in EntryRec /\ st.timb[f] # Null
        /\ st.timb[f].off \in Nat
    BY UsedRec DEF Off
  <2>2. T[f] = [st.timb[f] EXCEPT !.off = IF @ <= toff THEN @ ELSE @ - n]
    BY <1>6, <2>1 DEF T
  <2>3. T[f] = [gnum |-> st.timb[f].gnum, protect |-> st.timb[f].protect,
                off |-> Drop(st.timb[f].off, toff, n)]
    BY <2>1, <2>2 DEF EntryRec, Drop
  <2>4. Drop(st.timb[f].off, toff, n) \in Bytes
    <3>1. toff + n <= Off(st, f) \/ Off(st, f) + Size(st, f) <= toff
      BY <1>6, Disjoint DEF toff, n
    <3>2. Size(st, f) \in Nat \ {0} /\ Off(st, f) = st.timb[f].off
      BY UsedRec DEF Off
    <3>3. st.timb[f].off \in Bytes /\ cache_size \in Nat
      BY <2>1, CacheAssumption DEF CacheAssumption, EntryRec
    <3> QED BY <1>1, <3>1, <3>2, <3>3 DEF Drop, Bytes
  <2>5. st.timb[f].gnum \in Timbres /\ st.timb[f].protect \in BOOLEAN
    BY UsedRec
  <2>6. T[f] # Null
    <3>1. T[f] \in EntryRec
      BY <2>3, <2>4, <2>5 DEF EntryRec
    <3> QED BY <3>1, CacheAssumption DEF CacheAssumption
  <2>7. T[f] \in EntryRec
    BY <2>3, <2>4, <2>5 DEF EntryRec
  <2> QED BY <2>3, <2>4, <2>5, <2>6, <2>7
<1>7. ASSUME NEW f \in Entries, f = e \/ f \notin Used(st)
      PROVE  T[f] = Null
  BY <1>7 DEF T, Used
<1>8. Used(d) = Used(st) \ {e}
  BY <1>5, <1>6, <1>7 DEF Used
<1>9. \A f \in Used(d) : /\ d.timb[f].gnum = st.timb[f].gnum
                         /\ d.timb[f].protect = st.timb[f].protect
                         /\ d.timb[f].off = Drop(st.timb[f].off, toff, n)
                         /\ d.timb[f] \in EntryRec
  BY <1>5, <1>6, <1>8
<1>10. \A f \in Entries : f \notin Used(d) => d.timb[f] = Null
  BY DEF Used
<1>11. d.timb = [f \in Entries |-> d.timb[f]]
  BY <1>5 DEF T
<1>12. \A f \in Used(d) : Off(d, f) = Drop(Off(st, f), toff, n) /\ Size(d, f) = Size(st, f)
  BY <1>9 DEF Off, Size
<1> QED BY <1>4, <1>8, <1>9, <1>10, <1>11, <1>12 DEF toff, n

----------------------------------------------------------------------------
(* Deleting a timbre. *)

LEMMA DeletedIntact ==
  ASSUME NEW st, Solid(st), NEW e \in Used(st), NEW d, d = Deleted(st, e)
  PROVE  Intact(d) /\ Unique(d)
<1> DEFINE toff == Off(st, e)
           n    == Size(st, e)
<1>0. st \in CacheRec /\ Intact(st) /\ Unique(st)
  BY DEF Solid
<1>1. /\ Used(d) = Used(st) \ {e}
      /\ \A f \in Used(d) : /\ d.timb[f].gnum = st.timb[f].gnum
                           /\ Off(d, f) = Drop(Off(st, f), toff, n)
                           /\ Size(d, f) = Size(st, f)
                           /\ d.timb[f] \in EntryRec
      /\ d.timb = [f \in Entries |-> d.timb[f]]
      /\ \A f \in Entries : f \notin Used(d) => d.timb[f] = Null
      /\ d.older = {p \in st.older : p[1] # e /\ p[2] # e}
      /\ d.cache = Slid(st, toff, n)
      /\ d.end = st.end - n
      /\ d.MIDI_timbre = Forget(st.MIDI_timbre, e)
      /\ d.RBS_timbres = Forget(st.RBS_timbres, e)
      /\ d.slot = Followed(st.slot, e, toff, n)
      /\ d = [timb |-> d.timb, older |-> d.older, cache |-> d.cache, end |-> d.end,
              MIDI_timbre |-> d.MIDI_timbre, RBS_timbres |-> d.RBS_timbres,
              slot |-> d.slot]
  BY <1>0, DeletedFields
<1>2. /\ toff \in Nat /\ n \in Nat \ {0} /\ st.end \in Nat /\ st.end <= cache_size
      /\ toff + n <= st.end /\ cache_size \in Nat
  BY <1>0, UsedRec, CacheAssumption DEF Intact, CacheAssumption, CacheRec
<1>3. Unique(d)
  BY <1>0, <1>1 DEF Unique
<1> SUFFICES ASSUME NEW f \in Used(d)
             PROVE  /\ Off(d, f) + Size(d, f) <= d.end
                    /\ \A k \in 0 .. Size(d, f) - 1 :
                         d.cache[Off(d, f) + k] = <<d.timb[f].gnum, k>>
  BY <1>3 DEF Intact
<1>4. f \in Used(st) /\ f # e
  BY <1>1
<1>5. Off(st, f) \in Nat /\ Size(st, f) \in Nat \ {0} /\ Off(st, f) + Size(st, f) <= st.end
  BY <1>0, <1>4, UsedRec DEF Intact
<1>6. toff + n <= Off(st, f) \/ Off(st, f) + Size(st, f) <= toff
  BY <1>0, <1>4, Disjoint
<1>7. \A k \in 0 .. Size(st, f) - 1 : st.cache[Off(st, f) + k] = <<st.timb[f].gnum, k>>
  BY <1>0, <1>4 DEF Intact
<1> HIDE DEF toff, n
<1>10. d.end = st.end - n /\ Size(d, f) = Size(st, f)
  BY <1>1
<1>8. CASE toff + n <= Off(st, f)
  <2>1. Off(d, f) = Off(st, f) - n
    BY <1>1, <1>2, <1>5, <1>8 DEF Drop
  <2>2. ASSUME NEW k \in 0 .. Size(st, f) - 1
        PROVE  d.cache[Off(d, f) + k] = <<d.timb[f].gnum, k>>
    <3> DEFINE b == Off(d, f) + k
    <3>1. b \in Bytes /\ b >= toff /\ b + n < st.end /\ b + n = Off(st, f) + k
      BY <1>2, <1>5, <1>8, <2>1 DEF Bytes
    <3> HIDE DEF b
    <3>2. d.cache[b] = st.cache[b + n]
      BY <1>1, <3>1 DEF Slid
    <3> QED BY <1>1, <1>7, <3>1, <3>2 DEF b
  <2> QED BY <1>2, <1>5, <1>8, <1>10, <2>1, <2>2
<1>9. CASE Off(st, f) + Size(st, f) <= toff
  <2>1. Off(d, f) = Off(st, f)
    BY <1>1, <1>2, <1>5, <1>9 DEF Drop
  <2>2. ASSUME NEW k \in 0 .. Size(st, f) - 1
        PROVE  d.cache[Off(d, f) + k] = <<d.timb[f].gnum, k>>
    <3> DEFINE b == Off(d, f) + k
    <3>1. b \in Bytes /\ ~ (b >= toff) /\ b = Off(st, f) + k
      BY <1>2, <1>5, <1>9, <2>1 DEF Bytes
    <3> HIDE DEF b
    <3>2. d.cache[b] = st.cache[b]
      BY <1>1, <3>1 DEF Slid
    <3> QED BY <1>1, <1>7, <3>1, <3>2 DEF b
  <2> QED BY <1>2, <1>5, <1>9, <1>10, <2>1, <2>2
<1> QED BY <1>6, <1>8, <1>9

LEMMA DeletedSolid ==
  ASSUME NEW st, Solid(st), NEW e \in Used(st), NEW d, d = Deleted(st, e)
  PROVE  Solid(d)
<1> DEFINE toff == Off(st, e)
           n    == Size(st, e)
<1>0. /\ st \in CacheRec /\ Intact(st) /\ Unique(st) /\ Ordered(st)
      /\ HeldUsed(st) /\ Between(st)
  BY DEF Solid
<1>1. /\ Used(d) = Used(st) \ {e}
      /\ \A f \in Used(d) : /\ d.timb[f].gnum = st.timb[f].gnum
                           /\ Off(d, f) = Drop(Off(st, f), toff, n)
                           /\ Size(d, f) = Size(st, f)
                           /\ d.timb[f] \in EntryRec
      /\ d.timb = [f \in Entries |-> d.timb[f]]
      /\ \A f \in Entries : f \notin Used(d) => d.timb[f] = Null
      /\ d.older = {p \in st.older : p[1] # e /\ p[2] # e}
      /\ d.cache = Slid(st, toff, n)
      /\ d.end = st.end - n
      /\ d.MIDI_timbre = Forget(st.MIDI_timbre, e)
      /\ d.RBS_timbres = Forget(st.RBS_timbres, e)
      /\ d.slot = Followed(st.slot, e, toff, n)
      /\ d = [timb |-> d.timb, older |-> d.older, cache |-> d.cache, end |-> d.end,
              MIDI_timbre |-> d.MIDI_timbre, RBS_timbres |-> d.RBS_timbres,
              slot |-> d.slot]
  BY <1>0, DeletedFields
<1>2. /\ toff \in Nat /\ n \in Nat \ {0} /\ st.end \in Nat /\ st.end <= cache_size
      /\ toff + n <= st.end /\ cache_size \in Nat /\ e \in Entries
  BY <1>0, UsedRec, CacheAssumption DEF Intact, CacheAssumption, CacheRec
<1> DEFINE SlotShift(s) == IF st.slot[s].off <= toff THEN st.slot[s].off ELSE st.slot[s].off - n
<1>3. ASSUME NEW s \in Slots, st.slot[s] # Null
      PROVE  /\ st.slot[s] \in SlotRec /\ st.slot[s].off \in Bytes
             /\ st.slot[s].of \in Entries \cup {None}
             /\ st.slot[s].off <= st.end
             /\ st.slot[s].off <= toff \/ toff + n <= st.slot[s].off
             /\ \A f \in Used(st) : st.slot[s].off <= Off(st, f)
                                    \/ Off(st, f) + Size(st, f) <= st.slot[s].off
  BY <1>0, <1>3 DEF CacheRec, SlotRec, Between
<1>4. ASSUME NEW s \in Slots, st.slot[s] # Null
      PROVE  /\ d.slot[s] \in SlotRec /\ d.slot[s] # Null
             /\ d.slot[s].off = Drop(st.slot[s].off, toff, n)
             /\ d.slot[s].of = IF st.slot[s].of = e THEN None ELSE st.slot[s].of
  <2> HIDE DEF toff, n
  <2>1. d.slot[s] = [off |-> Drop(st.slot[s].off, toff, n),
                     of |-> IF st.slot[s].of = e THEN None ELSE st.slot[s].of]
    BY <1>1, <1>4 DEF Followed, Drop
  <2>2. Drop(st.slot[s].off, toff, n) \in Bytes
    BY <1>2, <1>3, <1>4 DEF Drop, Bytes
  <2>3. d.slot[s] \in SlotRec
    BY <1>3, <1>4, <2>1, <2>2 DEF SlotRec
  <2> QED BY <2>1, <2>3, CacheAssumption DEF CacheAssumption
<1>5. \A s \in Slots : st.slot[s] = Null => d.slot[s] = Null
  BY <1>1 DEF Followed
<1>6. d \in CacheRec
  <2>1. d.timb \in [Entries -> EntryRec \cup {Null}]
    BY <1>1
  <2>2. d.older \in SUBSET (Entries \X Entries)
    BY <1>0, <1>1 DEF CacheRec
  <2>3. d.cache \in [Bytes -> (Timbres \X Nat) \cup {Null}]
    <3> HIDE DEF toff, n
    <3>1. \A b \in Bytes : b >= toff /\ b + n < st.end => b + n \in Bytes
      BY <1>2 DEF Bytes
    <3>2. st.cache \in [Bytes -> (Timbres \X Nat) \cup {Null}]
      BY <1>0 DEF CacheRec
    <3> QED BY <1>1, <3>1, <3>2 DEF Slid
  <2>4. d.end \in 0 .. cache_size
    BY <1>1, <1>2
  <2>5. None \in Index
    BY CacheAssumption DEF CacheAssumption, None, Index
  <2>6. d.MIDI_timbre \in [Chans -> Index] /\ d.RBS_timbres \in [Drums -> Index]
    BY <1>0, <1>1, <2>5 DEF CacheRec, Forget
  <2>7. d.slot \in [Slots -> SlotRec \cup {Null}]
    <3>1. d.slot = [s \in Slots |-> d.slot[s]]
      BY <1>1 DEF Followed
    <3> HIDE DEF toff, n
    <3> QED BY <1>4, <1>5, <3>1
  <2> QED BY <1>1, <2>1, <2>2, <2>3, <2>4, <2>6, <2>7 DEF CacheRec
<1>7. Intact(d) /\ Unique(d)
  BY DeletedIntact
<1>8. Ordered(d)
  BY <1>0, <1>1 DEF Ordered
<1>9. HeldUsed(d)
  <2>1. \A c \in Chans : d.MIDI_timbre[c] = IF st.MIDI_timbre[c] = e THEN None ELSE st.MIDI_timbre[c]
    BY <1>0, <1>1 DEF CacheRec, Forget
  <2>2. \A c \in Drums : d.RBS_timbres[c] = IF st.RBS_timbres[c] = e THEN None ELSE st.RBS_timbres[c]
    BY <1>0, <1>1 DEF CacheRec, Forget
  <2>3. ~ (None >= 0)
    BY DEF None
  <2> HIDE DEF toff, n
  <2> QED BY <1>0, <1>1, <1>4, <1>5, <2>1, <2>2, <2>3 DEF HeldUsed
<1>10. Between(d)
  <2> SUFFICES ASSUME NEW s \in Slots, d.slot[s] # Null
               PROVE  /\ d.slot[s].off <= d.end
                      /\ \A f \in Used(d) : d.slot[s].off <= Off(d, f)
                                            \/ Off(d, f) + Size(d, f) <= d.slot[s].off
    BY DEF Between
  <2> DEFINE a == st.slot[s].off
  <2>1. st.slot[s] # Null
    BY <1>5
  <2>2. d.slot[s].off = Drop(a, toff, n)
    BY <1>4, <2>1
  <2>3. a \in Nat /\ a <= st.end /\ (a <= toff \/ toff + n <= a)
    BY <1>3, <2>1 DEF Bytes
  <2>4. ASSUME NEW f \in Used(d)
        PROVE  Drop(a, toff, n) <= Off(d, f) \/ Off(d, f) + Size(d, f) <= Drop(a, toff, n)
    <3>1. f \in Used(st) /\ f # e
      BY <1>1
    <3>2. a <= Off(st, f) \/ Off(st, f) + Size(st, f) <= a
      BY <1>3, <2>1, <3>1
    <3>3. toff + n <= Off(st, f) \/ Off(st, f) + Size(st, f) <= toff
      BY <1>0, <3>1, Disjoint
    <3>4. Off(st, f) \in Nat /\ Size(st, f) \in Nat \ {0}
      BY <1>0, <3>1, UsedRec
    <3>5. Off(d, f) = Drop(Off(st, f), toff, n) /\ Size(d, f) = Size(st, f)
      BY <1>1
    <3> HIDE DEF a, toff, n
    <3> QED BY <1>2, <2>3, <3>2, <3>3, <3>4, <3>5 DEF Drop
  <2>5. Drop(a, toff, n) <= d.end
    <3>1. d.end = st.end - n
      BY <1>1
    <3> HIDE DEF a, toff, n
    <3> QED BY <1>2, <2>3, <3>1 DEF Drop
  <2> QED BY <2>2, <2>4, <2>5
<1> QED BY <1>6, <1>7, <1>8, <1>9, <1>10 DEF Solid

----------------------------------------------------------------------------
(* The least recently used timbre. *)

(* Every set of entries in use has one that was used before all others.    *)
LEMMA LeastUsed ==
  ASSUME NEW st, Ordered(st), NEW T \in SUBSET Used(st), T # {}
  PROVE  \E e \in T : \A f \in T \ {e} : <<e, f>> \in st.older
<1> DEFINE HasLeast(X) == \E e \in X : \A f \in X \ {e} : <<e, f>> \in st.older
           N == {n \in Nat : \E X \in SUBSET Used(st) :
                                X # {} /\ ~ HasLeast(X) /\ Cardinality(X) = n}
<1>1. \A X \in SUBSET Used(st) : IsFiniteSet(X) /\ Cardinality(X) \in Nat
  <2>1. IsFiniteSet(Entries)
    BY FS_Interval, CacheAssumption DEF Entries, CacheAssumption
  <2>2. Used(st) \subseteq Entries
    BY DEF Used
  <2> QED BY <2>1, <2>2, FS_Subset, FS_CardinalityType
<1>2. CASE N = {}
  <2>1. HasLeast(T)
    BY <1>1, <1>2
  <2> QED BY <2>1
<1>3. CASE N # {}
  <2>1. First(N) \in N /\ \A n \in N : First(N) <= n
    BY <1>3, LowestMember
  <2>2. PICK X \in SUBSET Used(st) : X # {} /\ ~ HasLeast(X) /\ Cardinality(X) = First(N)
    BY <2>1
  <2>3. PICK x \in X : TRUE
    BY <2>2
  <2> DEFINE Y == X \ {x}
  <2>4. IsFiniteSet(Y) /\ Cardinality(Y) = Cardinality(X) - 1 /\ Cardinality(X) \in Nat
        /\ Cardinality(Y) \in Nat
    BY <1>1, FS_RemoveElement, FS_CardinalityType
  <2>5. Y \in SUBSET Used(st)
    OBVIOUS
  <2>6. Y # {}
    <3>1. Y = {} => HasLeast(X)
      OBVIOUS
    <3> QED BY <2>2, <3>1
  <2>7. HasLeast(Y)
    <3>1. Cardinality(Y) < First(N)
      BY <2>2, <2>4
    <3>2. Cardinality(Y) \notin N
      <4> HIDE DEF N, Y
      <4> QED BY <2>1, <2>2, <2>4, <3>1
    <3> QED BY <2>4, <2>5, <2>6, <3>2
  <2>8. PICK m \in Y : \A f \in Y \ {m} : <<m, f>> \in st.older
    BY <2>7
  <2>9. m \in X /\ m # x /\ x \in Used(st) /\ m \in Used(st)
    OBVIOUS
  <2>10. CASE <<m, x>> \in st.older
    <3>1. \A f \in X \ {m} : <<m, f>> \in st.older
      BY <2>8, <2>10
    <3> QED BY <2>2, <2>9, <3>1
  <2>11. CASE <<x, m>> \in st.older
    <3>1. \A f \in X \ {x} : f = m \/ <<m, f>> \in st.older
      BY <2>8
    <3>2. \A f \in X \ {x} : <<x, f>> \in st.older
      BY <2>9, <2>11, <3>1 DEF Ordered
    <3> QED BY <2>2, <3>2
  <2> QED BY <2>9, <2>10, <2>11 DEF Ordered
<1> QED BY <1>2, <1>3

(* delete_LRU deletes an unprotected timbre, or nothing.                   *)
LEMMA DeletesVictim ==
  ASSUME NEW st, Ordered(st)
  PROVE  \/ Victims(st) = {} /\ delete_LRU(st) = st
         \/ \E e \in Victims(st) : delete_LRU(st) = Deleted(st, e)
<1>1. CASE Victims(st) = {}
  BY <1>1 DEF delete_LRU
<1>2. CASE Victims(st) # {}
  <2> DEFINE IsLRU(e) == \A f \in Victims(st) \ {e} : <<e, f>> \in st.older
             m == CHOOSE e \in Victims(st) : IsLRU(e)
  <2>1. Victims(st) \in SUBSET Used(st)
    BY DEF Victims
  <2>2. \E e \in Victims(st) : IsLRU(e)
    BY <1>2, <2>1, LeastUsed
  <2>3. m \in Victims(st)
    <3> HIDE DEF IsLRU
    <3> QED BY <2>2
  <2>4. delete_LRU(st) = Deleted(st, m)
    BY <1>2 DEF delete_LRU
  <2> HIDE DEF m
  <2> QED BY <2>3, <2>4
<1> QED BY <1>1, <1>2

LEMMA DeleteLRUSolid ==
  ASSUME NEW st, Solid(st)
  PROVE  Solid(delete_LRU(st))
<1>1. Ordered(st) /\ \A e \in Victims(st) : e \in Used(st)
  BY DEF Solid, Victims
<1> QED BY <1>1, DeletesVictim, DeletedSolid

----------------------------------------------------------------------------
(* A new timbre, the channels that wait for it, and a note. *)

LEMMA CopiedFields ==
  ASSUME NEW st, st \in CacheRec, NEW t \in Timbres, NEW e \in Entries,
         st.end + Length[t] <= cache_size,
         NEW d, d = Copied(st, t, e)
  PROVE  /\ Used(d) = Used(st) \cup {e}
         /\ d.timb[e] = [gnum |-> t, protect |-> FALSE, off |-> st.end]
         /\ d.timb[e] \in EntryRec
         /\ \A f \in Used(st) : f # e => d.timb[f] = st.timb[f]
         /\ d.cache = [b \in Bytes |-> IF b \in st.end .. st.end + Length[t] - 1
                                       THEN <<t, b - st.end>> ELSE st.cache[b]]
         /\ d.end = st.end + Length[t]
         /\ d.older = {p \in st.older : p[1] # e /\ p[2] # e}
                        \cup {<<f, e>> : f \in Used(st) \ {e}}
         /\ d.MIDI_timbre = st.MIDI_timbre /\ d.RBS_timbres = st.RBS_timbres
         /\ d.slot = st.slot
         /\ d \in CacheRec
<1> DEFINE r == [gnum |-> t, protect |-> FALSE, off |-> st.end]
           T == [st.timb EXCEPT ![e] = r]
           C == [b \in Bytes |-> IF b \in st.end .. st.end + Length[t] - 1
                                THEN <<t, b - st.end>> ELSE st.cache[b]]
           st2 == [st EXCEPT !.timb = T, !.cache = C, !.end = st.end + Length[t]]
           O == {p \in st.older : p[1] # e /\ p[2] # e} \cup {<<f, e>> : f \in Used(st) \ {e}}
<1>1. /\ st.timb \in [Entries -> EntryRec \cup {Null}]
      /\ st.cache \in [Bytes -> (Timbres \X Nat) \cup {Null}]
      /\ st.end \in 0 .. cache_size /\ st.older \in SUBSET (Entries \X Entries)
      /\ Length[t] \in Nat \ {0} /\ cache_size \in Nat
      /\ MAX_TIMBS \in Nat
  BY CacheAssumption DEF CacheAssumption, CacheRec
<1>2. r \in EntryRec /\ r # Null
  <2>1. st.end \in Bytes
    BY <1>1 DEF Bytes
  <2>2. r \in EntryRec
    BY <2>1 DEF EntryRec
  <2> HIDE DEF r
  <2> QED BY <2>2, CacheAssumption DEF CacheAssumption
<1>3. st2.timb = T /\ st2.older = st.older
  BY DEF CacheRec
<1>4. T[e] = r /\ \A f \in Entries : f # e => T[f] = st.timb[f]
  BY <1>1
<1> HIDE DEF r, T
<1>5. Used(st2) = Used(st) \cup {e}
  BY <1>2, <1>3, <1>4 DEF Used
<1>6. Touched(st2, e) = O
  BY <1>3, <1>5 DEF Touched
<1> HIDE DEF C, O
<1>7. d = [st2 EXCEPT !.older = O]
  <2>1. Copied(st, t, e) = [st2 EXCEPT !.older = Touched(st2, e)]
    BY DEF Copied, r, T, C
  <2> HIDE DEF st2
  <2> QED BY <1>6, <2>1
<1>8. d = [timb |-> T, older |-> O, cache |-> C, end |-> st.end + Length[t],
           MIDI_timbre |-> st.MIDI_timbre, RBS_timbres |-> st.RBS_timbres,
           slot |-> st.slot]
  BY <1>7 DEF CacheRec
<1>9. Used(d) = Used(st) \cup {e}
  BY <1>2, <1>4, <1>8 DEF Used
<1>10. T \in [Entries -> EntryRec \cup {Null}]
  BY <1>1, <1>2 DEF T
<1>11. C \in [Bytes -> (Timbres \X Nat) \cup {Null}]
  BY <1>1 DEF C, Bytes
<1>12. O \in SUBSET (Entries \X Entries)
  BY <1>1 DEF O, Used
<1>13. d \in CacheRec
  BY <1>1, <1>8, <1>10, <1>11, <1>12 DEF CacheRec
<1>14. \A f \in Used(st) : f # e => d.timb[f] = st.timb[f]
  BY <1>4, <1>8 DEF Used
<1> QED BY <1>2, <1>4, <1>8, <1>9, <1>13, <1>14 DEF r, C, O

LEMMA CopiedSolid ==
  ASSUME NEW st, Solid(st), NEW t \in Timbres, NEW e \in Entries,
         st.end + Length[t] <= cache_size, index_timbre(st, t) = {},
         NEW d, d = Copied(st, t, e)
  PROVE  Solid(d)
<1>0. /\ st \in CacheRec /\ Intact(st) /\ Unique(st) /\ Ordered(st)
      /\ HeldUsed(st) /\ Between(st)
  BY DEF Solid
<1>1. /\ Used(d) = Used(st) \cup {e}
      /\ d.timb[e] = [gnum |-> t, protect |-> FALSE, off |-> st.end]
      /\ d.timb[e] \in EntryRec
      /\ \A f \in Used(st) : f # e => d.timb[f] = st.timb[f]
      /\ d.cache = [b \in Bytes |-> IF b \in st.end .. st.end + Length[t] - 1
                                    THEN <<t, b - st.end>> ELSE st.cache[b]]
      /\ d.end = st.end + Length[t]
      /\ d.older = {p \in st.older : p[1] # e /\ p[2] # e}
                     \cup {<<f, e>> : f \in Used(st) \ {e}}
      /\ d.MIDI_timbre = st.MIDI_timbre /\ d.RBS_timbres = st.RBS_timbres
      /\ d.slot = st.slot
      /\ d \in CacheRec
  BY <1>0, CopiedFields
<1>2. Off(d, e) = st.end /\ Size(d, e) = Length[t] /\ d.timb[e].gnum = t
  BY <1>1 DEF Off, Size
<1>3. \A f \in Used(st) : f # e => /\ Off(d, f) = Off(st, f) /\ Size(d, f) = Size(st, f)
                                  /\ d.timb[f].gnum = st.timb[f].gnum
  BY <1>1 DEF Off, Size
<1>4. /\ st.end \in Nat /\ Length[t] \in Nat \ {0} /\ cache_size \in Nat
  BY <1>0, CacheAssumption DEF CacheAssumption, CacheRec
<1>5. \A f \in Used(st) : st.timb[f].gnum # t
  BY DEF index_timbre
<1>6. Intact(d)
  <2> SUFFICES ASSUME NEW f \in Used(d)
               PROVE  /\ Off(d, f) + Size(d, f) <= d.end
                      /\ \A k \in 0 .. Size(d, f) - 1 :
                           d.cache[Off(d, f) + k] = <<d.timb[f].gnum, k>>
    BY DEF Intact
  <2>1. CASE f = e
    <3>1. ASSUME NEW k \in 0 .. Length[t] - 1
          PROVE  d.cache[st.end + k] = <<t, k>>
      <4> DEFINE b == st.end + k
      <4>1. b \in Bytes /\ b \in st.end .. st.end + Length[t] - 1 /\ b - st.end = k
        BY <1>4 DEF Bytes
      <4> HIDE DEF b
      <4>2. d.cache[b] = <<t, b - st.end>>
        BY <1>1, <4>1
      <4> QED BY <4>1, <4>2 DEF b
    <3>2. d.end = st.end + Length[t]
      BY <1>1
    <3>3. Off(d, f) = st.end /\ Size(d, f) = Length[t] /\ d.timb[f].gnum = t
      BY <1>2, <2>1
    <3>4. Off(d, f) + Size(d, f) <= d.end
      BY <1>4, <3>2, <3>3
    <3> QED BY <3>1, <3>3, <3>4
  <2>2. CASE f # e
    <3>0. f \in Used(st)
      BY <1>1, <2>2
    <3>1. /\ Off(st, f) \in Nat /\ Size(st, f) \in Nat \ {0}
          /\ Off(st, f) + Size(st, f) <= st.end /\ st.end <= cache_size
      BY <1>0, <3>0, UsedRec DEF Intact, CacheRec
    <3>2. \A k \in 0 .. Size(st, f) - 1 : st.cache[Off(st, f) + k] = <<st.timb[f].gnum, k>>
      BY <1>0, <3>0 DEF Intact
    <3>3. ASSUME NEW k \in 0 .. Size(st, f) - 1
          PROVE  d.cache[Off(st, f) + k] = <<st.timb[f].gnum, k>>
      <4> DEFINE b == Off(st, f) + k
      <4>1. b \in Bytes /\ b \notin st.end .. st.end + Length[t] - 1
        BY <1>4, <3>1 DEF Bytes
      <4> HIDE DEF b
      <4>2. d.cache[b] = st.cache[b]
        BY <1>1, <4>1
      <4> QED BY <3>2, <4>2 DEF b
    <3>4. d.end = st.end + Length[t]
      BY <1>1
    <3> QED BY <1>3, <1>4, <2>2, <3>0, <3>1, <3>3, <3>4
  <2> QED BY <2>1, <2>2
<1>7. Unique(d)
  BY <1>0, <1>1, <1>2, <1>3, <1>5 DEF Unique
<1>8. Ordered(d)
  <2>1. \A f, g \in Used(d) : <<f, g>> \in d.older <=>
          f # e /\ (g = e \/ <<f, g>> \in st.older)
    BY <1>1
  <2>2. \A p \in d.older : p[1] \in Used(d) /\ p[2] \in Used(d) /\ p[1] # p[2]
    BY <1>0, <1>1 DEF Ordered
  <2>3. \A f \in Used(d) : f = e \/ f \in Used(st)
    BY <1>1
  <2> QED BY <1>0, <2>1, <2>2, <2>3 DEF Ordered
<1>9. HeldUsed(d)
  BY <1>0, <1>1 DEF HeldUsed
<1>10. Between(d)
  <2> SUFFICES ASSUME NEW s \in Slots, d.slot[s] # Null
               PROVE  /\ d.slot[s].off <= d.end
                      /\ \A f \in Used(d) : d.slot[s].off <= Off(d, f)
                                            \/ Off(d, f) + Size(d, f) <= d.slot[s].off
    BY DEF Between
  <2>1. d.slot[s] = st.slot[s] /\ st.slot[s] # Null /\ d.end = st.end + Length[t]
    BY <1>1
  <2>2. st.slot[s].off \in Nat
    BY <1>0, <2>1 DEF CacheRec, SlotRec, Bytes
  <2>3. st.slot[s].off <= st.end
        /\ \A f \in Used(st) : st.slot[s].off <= Off(st, f)
                              \/ Off(st, f) + Size(st, f) <= st.slot[s].off
    BY <1>0, <2>1 DEF Between
  <2>4. ASSUME NEW f \in Used(d)
        PROVE  st.slot[s].off <= Off(d, f) \/ Off(d, f) + Size(d, f) <= st.slot[s].off
    BY <1>1, <1>2, <1>3, <2>3
  <2> QED BY <1>4, <2>1, <2>2, <2>3, <2>4
<1> QED BY <1>1, <1>6, <1>7, <1>8, <1>9, <1>10 DEF Solid

(* An index that fits a byte is an index. *)
LEMMA ByteIndex ==
  ASSUME NEW e \in Entries
  PROVE  Byte(e) \in Index /\ (Byte(e) >= 0 => Byte(e) = e)
  BY CacheAssumption DEF CacheAssumption, Entries, Byte, Index

(* Channels that get entry e, or a drum that gets it, do the cache no harm.*)
LEMMA BoundSolid ==
  ASSUME NEW st, Solid(st), NEW M \in [Chans -> Index],
         \A c \in Chans : M[c] >= 0 => M[c] \in Used(st),
         NEW d, d = [st EXCEPT !.MIDI_timbre = M]
  PROVE  /\ Solid(d)
         /\ d.timb = st.timb /\ d.cache = st.cache /\ d.end = st.end
         /\ d.RBS_timbres = st.RBS_timbres /\ d.slot = st.slot
         /\ d.MIDI_timbre = M
<1>0. /\ st \in CacheRec /\ Intact(st) /\ Unique(st) /\ Ordered(st)
      /\ HeldUsed(st) /\ Between(st)
  BY DEF Solid
<1>3. /\ d.timb = st.timb /\ d.cache = st.cache /\ d.end = st.end /\ d.older = st.older
      /\ d.RBS_timbres = st.RBS_timbres /\ d.slot = st.slot /\ d.MIDI_timbre = M
      /\ d \in CacheRec
  BY <1>0 DEF CacheRec
<1>4. Used(d) = Used(st)
  BY <1>3 DEF Used
<1>5. \A f : Off(d, f) = Off(st, f) /\ Size(d, f) = Size(st, f)
  BY <1>3 DEF Off, Size
<1>6. Intact(d) /\ Unique(d) /\ Ordered(d) /\ Between(d)
  BY <1>0, <1>3, <1>4, <1>5 DEF Intact, Unique, Ordered, Between
<1>7. HeldUsed(d)
  BY <1>0, <1>3, <1>4 DEF HeldUsed
<1> QED BY <1>3, <1>6, <1>7 DEF Solid

LEMMA DrumBoundSolid ==
  ASSUME NEW st, Solid(st), NEW M \in [Drums -> Index],
         \A x \in Drums : M[x] >= 0 => M[x] \in Used(st),
         NEW d, d = [st EXCEPT !.RBS_timbres = M]
  PROVE  /\ Solid(d)
         /\ d.timb = st.timb /\ d.cache = st.cache /\ d.end = st.end
         /\ d.MIDI_timbre = st.MIDI_timbre /\ d.slot = st.slot
         /\ d.RBS_timbres = M
<1>0. /\ st \in CacheRec /\ Intact(st) /\ Unique(st) /\ Ordered(st)
      /\ HeldUsed(st) /\ Between(st)
  BY DEF Solid
<1>4. /\ d.timb = st.timb /\ d.cache = st.cache /\ d.end = st.end /\ d.older = st.older
      /\ d.MIDI_timbre = st.MIDI_timbre /\ d.slot = st.slot /\ d.RBS_timbres = M
      /\ d \in CacheRec
  BY <1>0 DEF CacheRec
<1>5. Used(d) = Used(st)
  BY <1>4 DEF Used
<1>6. \A f : Off(d, f) = Off(st, f) /\ Size(d, f) = Size(st, f)
  BY <1>4 DEF Off, Size
<1>7. Intact(d) /\ Unique(d) /\ Ordered(d) /\ Between(d)
  <2>1. Intact(d)
    BY <1>0, <1>4, <1>5, <1>6 DEF Intact
  <2>2. Unique(d) /\ Ordered(d)
    BY <1>0, <1>4, <1>5 DEF Unique, Ordered
  <2>3. Between(d)
    BY <1>0, <1>4, <1>5, <1>6 DEF Between
  <2> QED BY <2>1, <2>2, <2>3
<1>8. HeldUsed(d)
  BY <1>0, <1>4, <1>5 DEF HeldUsed
<1> QED BY <1>4, <1>7, <1>8 DEF Solid

(* Only whether a timbre is protected changes. *)
LEMMA ProtectSolid ==
  ASSUME NEW st, Solid(st), NEW e \in Used(st), NEW on \in BOOLEAN,
         NEW d, d = [st EXCEPT !.timb[e].protect = on]
  PROVE  /\ Solid(d) /\ Used(d) = Used(st)
         /\ d.cache = st.cache /\ d.end = st.end
         /\ d.MIDI_timbre = st.MIDI_timbre /\ d.RBS_timbres = st.RBS_timbres
         /\ d.slot = st.slot
         /\ \A f \in Used(st) : d.timb[f].gnum = st.timb[f].gnum /\ d.timb[f].off = st.timb[f].off
<1> DEFINE r == [st.timb[e] EXCEPT !.protect = on]
           T == [st.timb EXCEPT ![e] = r]
<1>0. /\ st \in CacheRec /\ Intact(st) /\ Unique(st) /\ Ordered(st)
      /\ HeldUsed(st) /\ Between(st)
  BY DEF Solid
<1>1. st.timb \in [Entries -> EntryRec \cup {Null}] /\ e \in Entries /\ st.timb[e] \in EntryRec
  BY <1>0, UsedRec DEF CacheRec
<1>2. r \in EntryRec /\ r.gnum = st.timb[e].gnum /\ r.off = st.timb[e].off
  BY <1>1 DEF EntryRec
<1>3. r # Null
  <2> HIDE DEF r
  <2> QED BY <1>2, CacheAssumption DEF CacheAssumption
<1>4. d = [st EXCEPT !.timb = T]
  OBVIOUS
<1> HIDE DEF r
<1>5. T \in [Entries -> EntryRec \cup {Null}] /\ T[e] = r
      /\ \A f \in Entries : f # e => T[f] = st.timb[f]
  BY <1>1, <1>2
<1> HIDE DEF T
<1>6. /\ d.timb = T /\ d.cache = st.cache /\ d.end = st.end /\ d.older = st.older
      /\ d.MIDI_timbre = st.MIDI_timbre /\ d.RBS_timbres = st.RBS_timbres
      /\ d.slot = st.slot
      /\ d \in CacheRec
  BY <1>0, <1>4, <1>5 DEF CacheRec
<1>7. Used(d) = Used(st)
  BY <1>0, <1>3, <1>5, <1>6 DEF Used
<1>8. \A f \in Used(st) : d.timb[f].gnum = st.timb[f].gnum /\ d.timb[f].off = st.timb[f].off
  BY <1>2, <1>5, <1>6 DEF Used
<1>9. \A f \in Used(st) : Off(d, f) = Off(st, f) /\ Size(d, f) = Size(st, f)
  BY <1>8 DEF Off, Size
<1>10. Intact(d) /\ Unique(d) /\ Ordered(d) /\ Between(d)
  <2>1. Intact(d)
    BY <1>0, <1>6, <1>7, <1>8, <1>9 DEF Intact
  <2>2. Unique(d)
    BY <1>0, <1>7, <1>8 DEF Unique
  <2>4. d.older = st.older
    BY <1>6
  <2>5. Ordered(d)
    BY <1>0, <1>7, <2>4 DEF Ordered
  <2>3. Between(d)
    BY <1>0, <1>6, <1>7, <1>9 DEF Between
  <2> QED BY <2>1, <2>2, <2>3, <2>5
<1>11. HeldUsed(d)
  BY <1>0, <1>6, <1>7 DEF HeldUsed
<1> QED BY <1>6, <1>7, <1>8, <1>10, <1>11 DEF Solid

(* A slot that ends, or starts from the offset of an entry in use. *)
LEMMA SlotSolid ==
  ASSUME NEW st, Solid(st), NEW x \in Slots, NEW y,
         \/ y = Null
         \/ \E e \in Used(st) : y = [off |-> st.timb[e].off, of |-> e],
         NEW M, M = [st.slot EXCEPT ![x] = y],
         NEW d, d = [st EXCEPT !.slot = M]
  PROVE  /\ Solid(d)
         /\ d.timb = st.timb /\ d.cache = st.cache /\ d.end = st.end
         /\ d.MIDI_timbre = st.MIDI_timbre /\ d.RBS_timbres = st.RBS_timbres
         /\ d.slot = M
<1>0. /\ st \in CacheRec /\ Intact(st) /\ Unique(st) /\ Ordered(st)
      /\ HeldUsed(st) /\ Between(st)
  BY DEF Solid
<1>1. ASSUME NEW e \in Used(st), y = [off |-> st.timb[e].off, of |-> e]
      PROVE  /\ y \in SlotRec /\ y.of \in Used(st) /\ y.off <= st.end
             /\ \A f \in Used(st) : y.off <= Off(st, f) \/ Off(st, f) + Size(st, f) <= y.off
  <2>1. e \in Entries /\ st.timb[e] \in EntryRec /\ Off(st, e) \in Nat /\ Size(st, e) \in Nat \ {0}
        /\ Off(st, e) + Size(st, e) <= st.end /\ st.end \in Nat
    BY <1>0, UsedRec DEF Intact, CacheRec
  <2>2. y \in SlotRec /\ y.off = Off(st, e) /\ y.of = e
    BY <1>1, <2>1 DEF SlotRec, EntryRec, Off
  <2>3. ASSUME NEW f \in Used(st)
        PROVE  Off(st, e) <= Off(st, f) \/ Off(st, f) + Size(st, f) <= Off(st, e)
    <3>1. Off(st, f) \in Nat /\ Size(st, f) \in Nat \ {0}
      BY <1>0, UsedRec
    <3>2. CASE f = e
      BY <2>1, <3>2
    <3>3. CASE f # e
      <4>1. Off(st, e) + Size(st, e) <= Off(st, f) \/ Off(st, f) + Size(st, f) <= Off(st, e)
        BY <1>0, <3>3, Disjoint
      <4> QED BY <2>1, <3>1, <4>1
    <3> QED BY <3>2, <3>3
  <2> QED BY <2>1, <2>2, <2>3
<1>2. y = Null \/ /\ y \in SlotRec /\ y.of \in Used(st) /\ y.off <= st.end
                  /\ \A f \in Used(st) : y.off <= Off(st, f) \/ Off(st, f) + Size(st, f) <= y.off
  BY <1>1
<1>3. M \in [Slots -> SlotRec \cup {Null}] /\ M[x] = y
      /\ \A s \in Slots : s # x => M[s] = st.slot[s]
  BY <1>0, <1>2 DEF CacheRec
<1>5. /\ d.timb = st.timb /\ d.cache = st.cache /\ d.end = st.end /\ d.older = st.older
      /\ d.MIDI_timbre = st.MIDI_timbre /\ d.RBS_timbres = st.RBS_timbres /\ d.slot = M
      /\ d \in CacheRec
  BY <1>0, <1>3 DEF CacheRec
<1>6. Used(d) = Used(st)
  BY <1>5 DEF Used
<1>7. \A f : Off(d, f) = Off(st, f) /\ Size(d, f) = Size(st, f)
  BY <1>5 DEF Off, Size
<1>8. Intact(d) /\ Unique(d) /\ Ordered(d)
  BY <1>0, <1>5, <1>6, <1>7 DEF Intact, Unique, Ordered
<1>9. Between(d)
  BY <1>0, <1>2, <1>3, <1>5, <1>6, <1>7 DEF Between
<1>10. HeldUsed(d)
  BY <1>0, <1>2, <1>3, <1>5, <1>6 DEF HeldUsed
<1> QED BY <1>5, <1>8, <1>9, <1>10 DEF Solid

(* The time stamp of a note. *)
LEMMA TouchedSolid ==
  ASSUME NEW st, Solid(st), NEW e \in Used(st),
         NEW d, d = [st EXCEPT !.older = Touched(st, e)]
  PROVE  /\ Solid(d)
         /\ d.timb = st.timb /\ d.cache = st.cache /\ d.end = st.end
         /\ d.MIDI_timbre = st.MIDI_timbre /\ d.RBS_timbres = st.RBS_timbres
         /\ d.slot = st.slot
<1> DEFINE O == {p \in st.older : p[1] # e /\ p[2] # e} \cup {<<f, e>> : f \in Used(st) \ {e}}
<1>0. /\ st \in CacheRec /\ Intact(st) /\ Unique(st) /\ Ordered(st)
      /\ HeldUsed(st) /\ Between(st)
  BY DEF Solid
<1>1. d = [st EXCEPT !.older = O]
  BY DEF Touched
<1>2. O \in SUBSET (Entries \X Entries)
  BY <1>0 DEF CacheRec, Used
<1>3. \A f, g \in Used(st) : <<f, g>> \in O <=> f # e /\ (g = e \/ <<f, g>> \in st.older)
  BY <1>0 DEF Ordered
<1>4. \A p \in O : p[1] \in Used(st) /\ p[2] \in Used(st) /\ p[1] # p[2]
  BY <1>0 DEF Ordered
<1> HIDE DEF O
<1>5. /\ d.timb = st.timb /\ d.cache = st.cache /\ d.end = st.end /\ d.older = O
      /\ d.MIDI_timbre = st.MIDI_timbre /\ d.RBS_timbres = st.RBS_timbres /\ d.slot = st.slot
      /\ d \in CacheRec
  BY <1>0, <1>1, <1>2 DEF CacheRec
<1>6. Used(d) = Used(st)
  BY <1>5 DEF Used
<1>7. \A f : Off(d, f) = Off(st, f) /\ Size(d, f) = Size(st, f)
  BY <1>5 DEF Off, Size
<1>8. Intact(d) /\ Unique(d) /\ Between(d) /\ HeldUsed(d)
  BY <1>0, <1>5, <1>6, <1>7 DEF Intact, Unique, Between, HeldUsed
<1>9. Ordered(d)
  BY <1>0, <1>3, <1>4, <1>5, <1>6 DEF Ordered
<1> QED BY <1>5, <1>8, <1>9 DEF Solid

----------------------------------------------------------------------------
(* The parts of the properties, of any cache. *)

(* NoLeak *)
Tight(st) ==
  \A b \in 0 .. st.end - 1 :
    \E e \in Used(st) : Off(st, e) <= b /\ b < Off(st, e) + Size(st, e)

(* IndicesRight, for channels that asked for the timbres A. *)
RefsRight(st, A) ==
  /\ \A c \in Chans :
       st.MIDI_timbre[c] >= 0 =>
         st.MIDI_timbre[c] \in Used(st) /\ st.timb[st.MIDI_timbre[c]].gnum = A[c]
  /\ \A d \in Drums :
       st.RBS_timbres[d] >= 0 =>
         st.RBS_timbres[d] \in Used(st) /\ st.timb[st.RBS_timbres[d]].gnum = d

(* SlotsFollow *)
SlotsAt(st) ==
  \A s \in Slots :
    st.slot[s] # Null /\ st.slot[s].of # None =>
      st.slot[s].of \in Used(st) /\ st.slot[s].off = st.timb[st.slot[s].of].off

(* ResidentPlays, for an entry that is known. *)
Plays(st, A, L) ==
  \A c \in Chans : L[c] =>
    \A e \in Used(st) : st.timb[e].gnum = A[c] => st.MIDI_timbre[c] = Byte(e)

(* ProtectedStays, for the step from st to d. *)
Kept(st, d) ==
  \A e \in Used(st) :
    st.timb[e].protect => e \in Used(d) /\ d.timb[e].gnum = st.timb[e].gnum

(* A timbre in the cache has one entry, which is the one a lookup finds. *)
LEMMA LookupIs ==
  ASSUME NEW st, Unique(st), NEW e \in Used(st)
  PROVE  /\ index_timbre(st, st.timb[e].gnum) = {e}
         /\ First({e}) = e
         /\ Lookup(st, st.timb[e].gnum) = Byte(e)
<1>1. index_timbre(st, st.timb[e].gnum) = {e}
  BY DEF Unique, index_timbre
<1>2. e \in Int
  BY CacheAssumption DEF CacheAssumption, Used, Entries
<1>3. First({e}) = e
  BY <1>2, FirstSingle
<1> QED BY <1>1, <1>3 DEF Lookup

LEMMA LookupCases ==
  ASSUME NEW st, st \in CacheRec, Unique(st), NEW t
  PROVE  \/ /\ index_timbre(st, t) = {} /\ Lookup(st, t) = None
            /\ \A e \in Used(st) : st.timb[e].gnum # t
         \/ \E e \in Used(st) : /\ st.timb[e].gnum = t /\ index_timbre(st, t) = {e}
                                /\ First(index_timbre(st, t)) = e
                                /\ Lookup(st, t) = Byte(e)
<1>1. CASE index_timbre(st, t) = {}
  BY <1>1 DEF Lookup, index_timbre
<1>2. CASE index_timbre(st, t) # {}
  <2>1. PICK e \in Used(st) : st.timb[e].gnum = t
    BY <1>2 DEF index_timbre
  <2> QED BY <2>1, LookupIs
<1> QED BY <1>1, <1>2

LEMMA DeletedRight ==
  ASSUME NEW st, Solid(st), NEW e \in Used(st), NEW d, d = Deleted(st, e), NEW A, NEW L
  PROVE  /\ Tight(st) => Tight(d)
         /\ RefsRight(st, A) => RefsRight(d, A)
         /\ SlotsAt(st) => SlotsAt(d)
         /\ Plays(st, A, L) => Plays(d, A, L)
         /\ ~ st.timb[e].protect => Kept(st, d)
         /\ \A t : index_timbre(st, t) = {} => index_timbre(d, t) = {}
<1> DEFINE toff == Off(st, e)
           n    == Size(st, e)
<1>0. /\ st \in CacheRec /\ Intact(st) /\ Unique(st) /\ HeldUsed(st)
  BY DEF Solid
<1>1. /\ Used(d) = Used(st) \ {e}
      /\ \A f \in Used(d) : /\ d.timb[f].gnum = st.timb[f].gnum
                           /\ Off(d, f) = Drop(Off(st, f), toff, n)
                           /\ Size(d, f) = Size(st, f)
                           /\ d.timb[f] \in EntryRec
      /\ d.timb = [f \in Entries |-> d.timb[f]]
      /\ \A f \in Entries : f \notin Used(d) => d.timb[f] = Null
      /\ d.older = {p \in st.older : p[1] # e /\ p[2] # e}
      /\ d.cache = Slid(st, toff, n)
      /\ d.end = st.end - n
      /\ d.MIDI_timbre = Forget(st.MIDI_timbre, e)
      /\ d.RBS_timbres = Forget(st.RBS_timbres, e)
      /\ d.slot = Followed(st.slot, e, toff, n)
      /\ d = [timb |-> d.timb, older |-> d.older, cache |-> d.cache, end |-> d.end,
              MIDI_timbre |-> d.MIDI_timbre, RBS_timbres |-> d.RBS_timbres,
              slot |-> d.slot]
  BY <1>0, DeletedFields
<1>2. /\ toff \in Nat /\ n \in Nat \ {0} /\ st.end \in Nat /\ toff + n <= st.end
      /\ e \in Entries
  BY <1>0, UsedRec DEF Intact, CacheRec
<1>3. /\ \A c \in Chans : d.MIDI_timbre[c] = IF st.MIDI_timbre[c] = e THEN None ELSE st.MIDI_timbre[c]
      /\ \A x \in Drums : d.RBS_timbres[x] = IF st.RBS_timbres[x] = e THEN None ELSE st.RBS_timbres[x]
  BY <1>0, <1>1 DEF CacheRec, Forget
<1>4. ~ (None >= 0)
  BY DEF None
<1>5. \A f \in Used(d) : f \in Used(st) /\ f # e /\ d.timb[f].gnum = st.timb[f].gnum
  BY <1>1
<1>6. Used(d) = Used(st) \ {e}
  BY <1>1
<1> HIDE DEF toff, n
<1>7. ASSUME Tight(st) PROVE Tight(d)
  <2> SUFFICES ASSUME NEW b \in 0 .. d.end - 1
               PROVE  \E f \in Used(d) : Off(d, f) <= b /\ b < Off(d, f) + Size(d, f)
    BY DEF Tight
  <2>0. d.end = st.end - n
    BY <1>1
  <2>1. ASSUME NEW f \in Used(st), f # e
        PROVE  /\ f \in Used(d) /\ Size(d, f) = Size(st, f)
               /\ Off(st, f) \in Nat /\ Size(st, f) \in Nat \ {0}
               /\ toff + n <= Off(st, f) \/ Off(st, f) + Size(st, f) <= toff
               /\ Off(d, f) = IF Off(st, f) <= toff THEN Off(st, f) ELSE Off(st, f) - n
    BY <1>0, <1>1, <2>1, UsedRec, Disjoint DEF Drop, toff, n
  <2>2. CASE b < toff
    <3>1. b \in 0 .. st.end - 1
      BY <1>2, <2>0
    <3>2. PICK f \in Used(st) : Off(st, f) <= b /\ b < Off(st, f) + Size(st, f)
      BY <1>7, <3>1 DEF Tight
    <3>3. f # e
      BY <1>2, <2>2, <3>2 DEF toff
    <3> QED BY <1>2, <2>1, <2>2, <3>2, <3>3
  <2>3. CASE ~ (b < toff)
    <3>1. b + n \in 0 .. st.end - 1
      BY <1>2, <2>0
    <3>2. PICK f \in Used(st) : Off(st, f) <= b + n /\ b + n < Off(st, f) + Size(st, f)
      BY <1>7, <3>1 DEF Tight
    <3>3. f # e
      BY <1>2, <2>3, <3>2 DEF toff, n
    <3> QED BY <1>2, <2>1, <2>3, <3>2, <3>3
  <2> QED BY <2>2, <2>3
<1>8. ASSUME RefsRight(st, A) PROVE RefsRight(d, A)
  BY <1>3, <1>4, <1>5, <1>6, <1>8 DEF RefsRight
<1>9. ASSUME SlotsAt(st) PROVE SlotsAt(d)
  <2> SUFFICES ASSUME NEW s \in Slots, d.slot[s] # Null, d.slot[s].of # None
               PROVE  d.slot[s].of \in Used(d) /\ d.slot[s].off = d.timb[d.slot[s].of].off
    BY DEF SlotsAt
  <2>1. /\ st.slot[s] # Null
        /\ d.slot[s] = [off |-> IF st.slot[s].off <= toff THEN st.slot[s].off ELSE st.slot[s].off - n,
                        of  |-> IF st.slot[s].of = e THEN None ELSE st.slot[s].of]
    BY <1>1 DEF Followed
  <2>2. st.slot[s].of # e /\ d.slot[s].of = st.slot[s].of /\ st.slot[s].of # None
        /\ d.slot[s].off = Drop(st.slot[s].off, toff, n)
    BY <2>1 DEF Drop
  <2>3. st.slot[s].of \in Used(st) /\ st.slot[s].off = Off(st, st.slot[s].of)
    BY <1>9, <2>1, <2>2 DEF SlotsAt, Off
  <2>4. st.slot[s].of \in Used(d)
    BY <1>6, <2>2, <2>3
  <2>5. Off(d, st.slot[s].of) = Drop(st.slot[s].off, toff, n)
    BY <1>1, <2>3, <2>4
  <2> QED BY <2>2, <2>4, <2>5 DEF Off
<1>10. ASSUME Plays(st, A, L) PROVE Plays(d, A, L)
  <2> SUFFICES ASSUME NEW c \in Chans, L[c], NEW f \in Used(d), d.timb[f].gnum = A[c]
               PROVE  d.MIDI_timbre[c] = Byte(f)
    BY DEF Plays
  <2>1. st.MIDI_timbre[c] = Byte(f) /\ f # e /\ f \in Entries
    BY <1>0, <1>5, <1>10, UsedRec DEF Plays
  <2>2. Byte(f) # e
    BY <1>2, <2>1, ByteIndex, CacheAssumption DEF CacheAssumption, Entries
  <2> QED BY <1>3, <2>1, <2>2
<1>11. ASSUME ~ st.timb[e].protect PROVE Kept(st, d)
  BY <1>1, <1>6, <1>11 DEF Kept
<1>12. ASSUME NEW t, index_timbre(st, t) = {} PROVE index_timbre(d, t) = {}
  BY <1>5, <1>12 DEF index_timbre
<1> QED BY <1>7, <1>8, <1>9, <1>10, <1>11, <1>12

(* A step that leaves the table and the bytes as they are, protection aside. *)
LEMMA SameTable ==
  ASSUME NEW st, NEW d, Used(d) = Used(st), d.end = st.end,
         \A f \in Used(st) : d.timb[f].gnum = st.timb[f].gnum /\ d.timb[f].off = st.timb[f].off
  PROVE  /\ Tight(st) => Tight(d)
         /\ Kept(st, d)
         /\ \A t : index_timbre(d, t) = index_timbre(st, t)
         /\ d.slot = st.slot /\ SlotsAt(st) => SlotsAt(d)
         /\ \A A : d.MIDI_timbre = st.MIDI_timbre /\ d.RBS_timbres = st.RBS_timbres
                    /\ RefsRight(st, A) => RefsRight(d, A)
         /\ \A A, L : d.MIDI_timbre = st.MIDI_timbre /\ Plays(st, A, L) => Plays(d, A, L)
<1>1. \A f \in Used(st) : Off(d, f) = Off(st, f) /\ Size(d, f) = Size(st, f)
  BY DEF Off, Size
<1>2. Tight(st) => Tight(d)
  BY <1>1 DEF Tight
<1>3. Kept(st, d)
  BY DEF Kept
<1>4. \A t : index_timbre(d, t) = index_timbre(st, t)
  BY DEF index_timbre
<1>5. d.slot = st.slot /\ SlotsAt(st) => SlotsAt(d)
  BY DEF SlotsAt
<1>6. \A A : d.MIDI_timbre = st.MIDI_timbre /\ d.RBS_timbres = st.RBS_timbres
             /\ RefsRight(st, A) => RefsRight(d, A)
  BY DEF RefsRight
<1>7. \A A, L : d.MIDI_timbre = st.MIDI_timbre /\ Plays(st, A, L) => Plays(d, A, L)
  BY DEF Plays
<1> QED BY <1>2, <1>3, <1>4, <1>5, <1>6, <1>7

(* A timbre copied to an unused entry leaves every other where it was.     *)
LEMMA CopiedRight ==
  ASSUME NEW st, Solid(st), NEW t \in Timbres, NEW e \in Entries \ Used(st),
         st.end + Length[t] <= cache_size, index_timbre(st, t) = {},
         NEW d, d = Copied(st, t, e), NEW A
  PROVE  /\ Tight(st) => Tight(d)
         /\ RefsRight(st, A) => RefsRight(d, A)
         /\ SlotsAt(st) => SlotsAt(d)
         /\ Kept(st, d)
<1>0. st \in CacheRec /\ e \in Entries
  BY DEF Solid
<1>1. /\ Used(d) = Used(st) \cup {e}
      /\ d.timb[e] = [gnum |-> t, protect |-> FALSE, off |-> st.end]
      /\ d.timb[e] \in EntryRec
      /\ \A f \in Used(st) : f # e => d.timb[f] = st.timb[f]
      /\ d.cache = [b \in Bytes |-> IF b \in st.end .. st.end + Length[t] - 1
                                    THEN <<t, b - st.end>> ELSE st.cache[b]]
      /\ d.end = st.end + Length[t]
      /\ d.older = {p \in st.older : p[1] # e /\ p[2] # e}
                     \cup {<<f, e>> : f \in Used(st) \ {e}}
      /\ d.MIDI_timbre = st.MIDI_timbre /\ d.RBS_timbres = st.RBS_timbres
      /\ d.slot = st.slot
      /\ d \in CacheRec
  BY <1>0, CopiedFields
<1>2. /\ Used(d) = Used(st) \cup {e} /\ d.end = st.end + Length[t]
      /\ Off(d, e) = st.end /\ Size(d, e) = Length[t]
  BY <1>1 DEF Off, Size
<1>3. \A f \in Used(st) : d.timb[f] = st.timb[f]
  BY <1>1
<1>4. \A f \in Used(st) : Off(d, f) = Off(st, f) /\ Size(d, f) = Size(st, f)
  BY <1>3 DEF Off, Size
<1>5. st.end \in Nat /\ Length[t] \in Nat
  BY <1>0, CacheAssumption DEF CacheAssumption, CacheRec
<1>6. ASSUME Tight(st) PROVE Tight(d)
  <2> SUFFICES ASSUME NEW b \in 0 .. d.end - 1
               PROVE  \E f \in Used(d) : Off(d, f) <= b /\ b < Off(d, f) + Size(d, f)
    BY DEF Tight
  <2>1. CASE b < st.end
    <3>1. PICK f \in Used(st) : Off(st, f) <= b /\ b < Off(st, f) + Size(st, f)
      BY <1>5, <1>6, <2>1 DEF Tight
    <3> QED BY <1>2, <1>4, <3>1
  <2>2. CASE ~ (b < st.end)
    <3>1. st.end <= b /\ b < st.end + Length[t]
      BY <1>2, <1>5, <2>2
    <3> QED BY <1>2, <3>1
  <2> QED BY <2>1, <2>2
<1>7. RefsRight(st, A) => RefsRight(d, A)
  BY <1>1, <1>3 DEF RefsRight
<1>8. SlotsAt(st) => SlotsAt(d)
  BY <1>1, <1>3 DEF SlotsAt
<1>9. Kept(st, d)
  BY <1>2, <1>3 DEF Kept
<1> QED BY <1>6, <1>7, <1>8, <1>9

----------------------------------------------------------------------------
(* The inductive invariant. *)

(* What holds whatever is installed. *)
Sound ==
  /\ Solid(tc)
  /\ pending \in Timbres \cup {Null}
  /\ pending # Null => index_timbre(tc, pending) = {}
  /\ MIDI_bank \in [Chans -> Banks]
  /\ MIDI_program \in [Chans -> Programs \cup {Null}]
  /\ asked \in [Chans -> (Banks \X Programs) \cup {Null}]
  /\ latched \in [Chans -> BOOLEAN]
  /\ \A c \in Chans : latched[c] => asked[c] = <<MIDI_bank[c], MIDI_program[c]>>
  /\ Plays(tc, asked, latched)

(* What needs room in the table. *)
Right == Tight(tc) /\ RefsRight(tc, asked) /\ SlotsAt(tc)

(* A timbre is never stored while every entry is in use.  The code does    *)
(* store it then, over entry 0 and whatever still refers to that.          *)
TableSuffices == ~ (pending # Null /\ Fits(pending) /\ Used(tc) = Entries)

LEMMA InitSound == Init => Sound /\ Right
<1> SUFFICES ASSUME Init PROVE Sound /\ Right
  OBVIOUS
<1>1. /\ tc.timb = [e \in Entries |-> Null] /\ tc.older = {} /\ tc.cache = [b \in Bytes |-> Null]
      /\ tc.end = 0 /\ tc.MIDI_timbre = [c \in Chans |-> None]
      /\ tc.RBS_timbres = [d \in Drums |-> None] /\ tc.slot = [s \in Slots |-> Null]
  BY DEF Init
<1>2. Used(tc) = {}
  BY <1>1 DEF Used
<1>3. None \in Index /\ ~ (None >= 0) /\ 0 \in 0 .. cache_size
  BY CacheAssumption DEF CacheAssumption, None, Index
<1>4. tc \in CacheRec
  BY <1>3 DEF Init, CacheRec
<1>5. Intact(tc) /\ Unique(tc) /\ Ordered(tc)
  BY <1>1, <1>2 DEF Intact, Unique, Ordered
<1>6. HeldUsed(tc) /\ Between(tc)
  BY <1>1, <1>3 DEF HeldUsed, Between
<1>7. Right
  BY <1>1, <1>3 DEF Right, Tight, RefsRight, SlotsAt
<1>8. Plays(tc, asked, latched)
  BY <1>2 DEF Plays
<1>9. 0 \in Banks
  BY CacheAssumption DEF CacheAssumption
<1>10. /\ MIDI_bank \in [Chans -> Banks]
       /\ MIDI_program \in [Chans -> Programs \cup {Null}]
       /\ asked \in [Chans -> (Banks \X Programs) \cup {Null}]
       /\ latched \in [Chans -> BOOLEAN]
       /\ pending = Null /\ \A c \in Chans : latched[c] = FALSE
  BY <1>9 DEF Init
<1> QED BY <1>4, <1>5, <1>6, <1>7, <1>8, <1>10 DEF Sound, Solid

----------------------------------------------------------------------------
(* The steps. *)

(* do_install_timbre's end: the channels that wait for timbre t get its    *)
(* entry e.                                                                *)
LEMMA RebindStep ==
  ASSUME Sound, NEW t \in Timbres, Rebind(t), NEW st, Solid(st),
         NEW e \in Used(st), st.timb[e].gnum = t,
         \A c \in Chans : latched[c] /\ asked[c] # t =>
           \A f \in Used(st) : st.timb[f].gnum = asked[c] => st.MIDI_timbre[c] = Byte(f),
         tc' = Bound(st, t, e), pending' = Null
  PROVE  /\ Sound'
         /\ Tight(st) /\ RefsRight(st, asked) /\ SlotsAt(st) => Right'
         /\ Kept(st, tc') /\ tc'.timb = st.timb
<1> DEFINE C == Requested(t)
<1>1. /\ C \in SUBSET Chans
      /\ \A c \in Chans : c \in C <=> <<MIDI_bank[c], MIDI_program[c]>> = t
  BY DEF Requested
<1>2. /\ asked' = [c \in Chans |-> IF c \in C THEN t ELSE asked[c]]
      /\ latched' = [c \in Chans |-> IF c \in C THEN TRUE ELSE latched[c]]
      /\ MIDI_bank' = MIDI_bank /\ MIDI_program' = MIDI_program
  BY DEF Rebind
<1> DEFINE M == [c \in Chans |-> IF c \in C THEN Byte(e) ELSE st.MIDI_timbre[c]]
<1>3. tc' = [st EXCEPT !.MIDI_timbre = M]
  BY DEF Bound
<1> HIDE DEF C
<1>4. /\ st \in CacheRec /\ Unique(st) /\ e \in Entries
  BY DEF Solid, Used
<1>5. Byte(e) \in Index /\ (Byte(e) >= 0 => Byte(e) = e)
  BY <1>4, ByteIndex
<1>6. /\ Solid(tc')
      /\ tc'.timb = st.timb /\ tc'.end = st.end
      /\ tc'.RBS_timbres = st.RBS_timbres /\ tc'.slot = st.slot
      /\ tc'.MIDI_timbre = [c \in Chans |-> IF c \in C THEN Byte(e) ELSE st.MIDI_timbre[c]]
  <2>0. st.MIDI_timbre \in [Chans -> Index]
        /\ \A c \in Chans : st.MIDI_timbre[c] >= 0 => st.MIDI_timbre[c] \in Used(st)
    BY <1>4 DEF CacheRec, Solid, HeldUsed
  <2>1. M \in [Chans -> Index] /\ \A c \in Chans : M[c] >= 0 => M[c] \in Used(st)
    BY <1>5, <2>0
  <2>3. M = [c \in Chans |-> IF c \in C THEN Byte(e) ELSE st.MIDI_timbre[c]]
    OBVIOUS
  <2> HIDE DEF M
  <2>2. /\ Solid(tc')
        /\ tc'.timb = st.timb /\ tc'.cache = st.cache /\ tc'.end = st.end
        /\ tc'.RBS_timbres = st.RBS_timbres /\ tc'.slot = st.slot
        /\ tc'.MIDI_timbre = M
    BY <1>3, <2>1, BoundSolid
  <2> QED BY <2>2, <2>3
<1>7. Used(tc') = Used(st)
  BY <1>6 DEF Used
<1>8. asked' \in [Chans -> (Banks \X Programs) \cup {Null}]
  <2>1. ASSUME NEW c \in C PROVE t \in Banks \X Programs
    <3>1. c \in Chans /\ MIDI_bank[c] \in Banks /\ MIDI_program[c] \in Programs \cup {Null}
          /\ <<MIDI_bank[c], MIDI_program[c]>> = t
      BY <1>1 DEF Sound
    <3>2. CASE t \in Melodic
      BY <3>2, CacheAssumption DEF CacheAssumption
    <3>3. CASE t \in Drums
      BY <3>1, <3>3, CacheAssumption DEF CacheAssumption
    <3> QED BY <3>2, <3>3 DEF Timbres
  <2>2. asked \in [Chans -> (Banks \X Programs) \cup {Null}]
    BY DEF Sound
  <2> QED BY <1>2, <2>1, <2>2
<1>9. latched' \in [Chans -> BOOLEAN]
  <2>1. latched \in [Chans -> BOOLEAN]
    BY DEF Sound
  <2> QED BY <1>2, <2>1
<1>10. \A c \in Chans : latched'[c] => asked'[c] = <<MIDI_bank'[c], MIDI_program'[c]>>
  <2> SUFFICES ASSUME NEW c \in Chans, latched'[c]
               PROVE  asked'[c] = <<MIDI_bank[c], MIDI_program[c]>>
    BY <1>2
  <2>1. CASE c \in C
    BY <1>1, <1>2, <2>1
  <2>2. CASE c \notin C
    <3>1. latched[c] /\ asked'[c] = asked[c]
      BY <1>2, <2>2
    <3> QED BY <3>1 DEF Sound
  <2> QED BY <2>1, <2>2
<1>11. Plays(tc', asked', latched')
  <2> SUFFICES ASSUME NEW c \in Chans, latched'[c], NEW f \in Used(st),
                      st.timb[f].gnum = asked'[c]
               PROVE  tc'.MIDI_timbre[c] = Byte(f)
    BY <1>6, <1>7 DEF Plays
  <2>1. CASE c \in C
    <3>1. asked'[c] = t /\ tc'.MIDI_timbre[c] = Byte(e)
      BY <1>2, <1>6, <2>1
    <3>2. f = e
      BY <1>4, <3>1 DEF Unique
    <3> QED BY <3>1, <3>2
  <2>2. CASE c \notin C
    <3>1. latched[c] /\ asked'[c] = asked[c] /\ tc'.MIDI_timbre[c] = st.MIDI_timbre[c]
      BY <1>2, <1>6, <2>2
    <3>2. asked[c] = <<MIDI_bank[c], MIDI_program[c]>>
      BY <3>1 DEF Sound
    <3>3. asked[c] # t
      BY <1>1, <2>2, <3>2
    <3> QED BY <3>1, <3>3
  <2> QED BY <2>1, <2>2
<1>12. Sound'
  <2>1. MIDI_bank' \in [Chans -> Banks] /\ MIDI_program' \in [Chans -> Programs \cup {Null}]
    BY <1>2 DEF Sound
  <2> QED BY <1>6, <1>8, <1>9, <1>10, <1>11, <2>1 DEF Sound
<1>13. (Tight(st) => Tight(tc')) /\ (SlotsAt(st) => SlotsAt(tc')) /\ Kept(st, tc')
  BY <1>6, <1>7, SameTable
<1>14. ASSUME RefsRight(st, asked) PROVE RefsRight(tc', asked')
  <2> SUFFICES ASSUME NEW c \in Chans, tc'.MIDI_timbre[c] >= 0
               PROVE  tc'.MIDI_timbre[c] \in Used(st)
                      /\ st.timb[tc'.MIDI_timbre[c]].gnum = asked'[c]
    BY <1>6, <1>7, <1>14 DEF RefsRight
  <2>1. CASE c \in C
    <3>1. asked'[c] = t /\ tc'.MIDI_timbre[c] = Byte(e)
      BY <1>2, <1>6, <2>1
    <3>2. tc'.MIDI_timbre[c] = e
      BY <1>5, <3>1
    <3> QED BY <3>1, <3>2
  <2>2. CASE c \notin C
    BY <1>2, <1>6, <1>14, <2>2 DEF RefsRight
  <2> QED BY <2>1, <2>2
<1> QED BY <1>6, <1>12, <1>13, <1>14 DEF Right

LEMMA ResidentStep ==
  ASSUME Sound, NEW t \in Timbres, install_resident(t)
  PROVE  Sound' /\ (Right => Right') /\ Kept(tc, tc')
<1>1. tc \in CacheRec /\ Unique(tc) /\ Solid(tc)
  BY DEF Sound, Solid
<1>2. PICK e \in Used(tc) : tc.timb[e].gnum = t /\ First(index_timbre(tc, t)) = e
  BY <1>1, LookupCases DEF install_resident
<1>3. tc' = Bound(tc, t, e) /\ Rebind(t) /\ pending' = Null
  BY <1>2 DEF install_resident
<1>4. \A c \in Chans : latched[c] =>
        \A f \in Used(tc) : tc.timb[f].gnum = asked[c] => tc.MIDI_timbre[c] = Byte(f)
  BY DEF Sound, Plays
<1> QED BY <1>1, <1>2, <1>3, <1>4, RebindStep DEF Right

LEMMA NewStep ==
  ASSUME Sound, NEW t \in Timbres, install_new(t)
  PROVE  Sound' /\ (Right => Right') /\ Kept(tc, tc')
<1>1. /\ tc' = tc /\ pending' = t /\ index_timbre(tc, t) = {}
      /\ MIDI_bank' = MIDI_bank /\ MIDI_program' = MIDI_program
      /\ asked' = asked /\ latched' = latched
  BY DEF install_new, request
<1>2. Kept(tc, tc)
  BY DEF Kept
<1>3. Sound'
  BY <1>1 DEF Sound
<1> QED BY <1>1, <1>2, <1>3 DEF Right

(* Steps that leave the requests as they are. *)
LEMMA QuietStep ==
  ASSUME Sound, UNCHANGED <<pending, request>>, Solid(tc'),
         pending # Null => index_timbre(tc', pending) = {},
         Plays(tc', asked, latched)
  PROVE  Sound'
<1>1. /\ pending' = pending
      /\ MIDI_bank' = MIDI_bank /\ MIDI_program' = MIDI_program
      /\ asked' = asked /\ latched' = latched
  BY DEF request
<1> QED BY <1>1 DEF Sound

LEMMA MakeRoomStep ==
  ASSUME Sound, make_room
  PROVE  Sound' /\ (Right => Right') /\ Kept(tc, tc')
<1>1. /\ tc' = delete_LRU(tc) /\ pending' = pending /\ asked' = asked
      /\ UNCHANGED <<pending, request>> /\ pending # Null
  BY DEF make_room, request
<1>2. Solid(tc) /\ Ordered(tc) /\ Plays(tc, asked, latched) /\ index_timbre(tc, pending) = {}
  BY <1>1 DEF Sound, Solid
<1>3. Solid(tc')
  BY <1>1, <1>2, DeleteLRUSolid
<1>4. CASE tc' = tc
  <2>1. Sound'
    BY <1>1, <1>2, <1>4, QuietStep
  <2>2. Kept(tc, tc)
    BY DEF Kept
  <2> QED BY <1>1, <1>4, <2>1, <2>2 DEF Right
<1>5. ASSUME NEW e \in Victims(tc), tc' = Deleted(tc, e)
      PROVE  Sound' /\ (Right => Right') /\ Kept(tc, tc')
  <2>1. e \in Used(tc) /\ ~ tc.timb[e].protect
    BY DEF Victims
  <2>2. /\ Tight(tc) => Tight(tc')
        /\ RefsRight(tc, asked) => RefsRight(tc', asked)
        /\ SlotsAt(tc) => SlotsAt(tc')
        /\ Plays(tc, asked, latched) => Plays(tc', asked, latched)
        /\ Kept(tc, tc')
        /\ index_timbre(tc', pending) = {}
    BY <1>2, <1>5, <2>1, DeletedRight
  <2>3. Sound'
    BY <1>1, <1>2, <1>3, <2>2, QuietStep
  <2> QED BY <1>1, <2>2, <2>3 DEF Right
<1> QED BY <1>1, <1>2, <1>4, <1>5, DeletesVictim

(* The entry a new timbre gets is unused, if there is an unused one.       *)
LEMMA FreeEntryIs ==
  FreeEntry(tc) \in Entries /\ (Used(tc) # Entries => FreeEntry(tc) \notin Used(tc))
<1>1. 0 \in Entries /\ Entries \subseteq Nat /\ Used(tc) \subseteq Entries
  BY CacheAssumption DEF CacheAssumption, Entries, Used
<1>2. CASE Used(tc) = Entries
  BY <1>1, <1>2 DEF FreeEntry
<1>3. CASE Used(tc) # Entries
  <2>1. Entries \ Used(tc) \in SUBSET Nat /\ Entries \ Used(tc) # {}
    BY <1>1, <1>3
  <2>2. First(Entries \ Used(tc)) \in Entries \ Used(tc)
    BY <2>1, LowestMember
  <2> QED BY <1>3, <2>2 DEF FreeEntry
<1> QED BY <1>2, <1>3

LEMMA StoreStep ==
  ASSUME Sound, store
  PROVE  Sound' /\ (TableSuffices => (Right => Right') /\ Kept(tc, tc'))
<1> DEFINE t  == pending
           st == IF Used(tc) = Entries THEN delete_LRU(tc) ELSE tc
           e  == FreeEntry(tc)
           d  == Copied(st, t, e)
<1>1. /\ t \in Timbres /\ Fits(t) /\ pending # Null /\ Rebind(t) /\ pending' = Null
      /\ tc' = Bound(d, t, e)
  BY DEF store, Sound
<1>2. /\ Solid(tc) /\ Ordered(tc) /\ Plays(tc, asked, latched) /\ index_timbre(tc, t) = {}
      /\ Intact(tc) /\ Unique(tc) /\ tc \in CacheRec
  BY <1>1 DEF Sound, Solid
<1>3. /\ Solid(st) /\ Plays(st, asked, latched) /\ index_timbre(st, t) = {}
      /\ st.end \in Int /\ st.end <= tc.end
  <2>1. tc.end \in Int /\ cache_size \in Nat
    BY <1>2, CacheAssumption DEF CacheAssumption, CacheRec
  <2>2. CASE st = tc
    BY <1>2, <2>1, <2>2
  <2>3. ASSUME NEW v \in Victims(tc), st = Deleted(tc, v)
        PROVE  /\ Solid(st) /\ Plays(st, asked, latched) /\ index_timbre(st, t) = {}
               /\ st.end \in Int /\ st.end <= tc.end
    <3>1. v \in Used(tc)
      BY DEF Victims
    <3> HIDE DEF st
    <3>2. Solid(st)
      BY <1>2, <2>3, <3>1, DeletedSolid
    <3>3. Plays(st, asked, latched) /\ index_timbre(st, t) = {}
      BY <1>2, <2>3, <3>1, DeletedRight
    <3>4. tc.cache[Off(tc, v)] = <<tc.timb[v].gnum, 0>> /\ Size(tc, v) \in Nat \ {0}
      <4>1. Size(tc, v) \in Nat \ {0} /\ Off(tc, v) \in Nat
        BY <1>2, <3>1, UsedRec
      <4>2. 0 \in 0 .. Size(tc, v) - 1 /\ Off(tc, v) + 0 = Off(tc, v)
        BY <4>1
      <4> QED BY <1>2, <3>1, <4>1, <4>2 DEF Intact
    <3>5. st.end = tc.end - Size(tc, v)
      BY <2>3, <3>4 DEF Deleted, LengthAt, Off, Size
    <3> QED BY <2>1, <3>2, <3>3, <3>4, <3>5
  <2>4. st = tc \/ \E v \in Victims(tc) : st = Deleted(tc, v)
    BY <1>2, DeletesVictim
  <2> HIDE DEF st
  <2> QED BY <2>2, <2>3, <2>4
<1>4. e \in Entries /\ (Used(tc) # Entries => e \notin Used(tc))
  BY FreeEntryIs
<1>5. st.end + Length[t] <= cache_size
  <2>1. tc.end + Length[t] <= cache_size /\ tc.end \in Int /\ cache_size \in Int
        /\ Length[t] \in Int
    BY <1>1, <1>2, CacheAssumption DEF CacheAssumption, CacheRec, Fits
  <2> HIDE DEF st
  <2> QED BY <1>3, <2>1
<1>6. st \in CacheRec
  BY <1>3 DEF Solid
<1>7. TableSuffices => st = tc /\ e \notin Used(tc)
  BY <1>1, <1>4 DEF TableSuffices
<1> HIDE DEF st, e, t
<1>8. Solid(d)
  BY <1>1, <1>3, <1>4, <1>5, CopiedSolid
<1>9. /\ Used(d) = Used(st) \cup {e}
      /\ d.timb[e] = [gnum |-> t, protect |-> FALSE, off |-> st.end]
      /\ d.timb[e] \in EntryRec
      /\ \A f \in Used(st) : f # e => d.timb[f] = st.timb[f]
      /\ d.cache = [b \in Bytes |-> IF b \in st.end .. st.end + Length[t] - 1
                                    THEN <<t, b - st.end>> ELSE st.cache[b]]
      /\ d.end = st.end + Length[t]
      /\ d.older = {p \in st.older : p[1] # e /\ p[2] # e}
                     \cup {<<f, e>> : f \in Used(st) \ {e}}
      /\ d.MIDI_timbre = st.MIDI_timbre /\ d.RBS_timbres = st.RBS_timbres
      /\ d.slot = st.slot
      /\ d \in CacheRec
  BY <1>1, <1>4, <1>5, <1>6, CopiedFields
<1>10. e \in Used(d) /\ d.timb[e].gnum = t
  BY <1>9
<1>11. ASSUME NEW c \in Chans, latched[c] /\ asked[c] # t,
              NEW f \in Used(d), d.timb[f].gnum = asked[c]
       PROVE  d.MIDI_timbre[c] = Byte(f)
  <2>1. f # e
    BY <1>10, <1>11
  <2>2. f \in Used(st) /\ d.timb[f] = st.timb[f]
    BY <1>9, <2>1
  <2> QED BY <1>3, <1>9, <1>11, <2>2 DEF Plays
<1>12. TableSuffices => /\ Tight(tc) => Tight(d)
                        /\ RefsRight(tc, asked) => RefsRight(d, asked)
                        /\ SlotsAt(tc) => SlotsAt(d)
                        /\ Kept(tc, d)
  <2> SUFFICES ASSUME TableSuffices
               PROVE  /\ Tight(tc) => Tight(d)
                      /\ RefsRight(tc, asked) => RefsRight(d, asked)
                      /\ SlotsAt(tc) => SlotsAt(d)
                      /\ Kept(tc, d)
    OBVIOUS
  <2>1. st = tc /\ e \in Entries \ Used(tc)
    BY <1>4, <1>7
  <2>2. d = Copied(tc, t, e) /\ tc.end + Length[t] <= cache_size
    BY <1>5, <2>1
  <2> HIDE DEF d
  <2> QED BY <1>1, <1>2, <2>1, <2>2, CopiedRight
<1> HIDE DEF d
<1>13. /\ Sound'
       /\ Tight(d) /\ RefsRight(d, asked) /\ SlotsAt(d) => Right'
       /\ tc'.timb = d.timb
  BY <1>1, <1>8, <1>10, <1>11, RebindStep
<1>14. Kept(tc, d) => Kept(tc, tc')
  BY <1>13 DEF Kept, Used
<1> QED BY <1>12, <1>13, <1>14 DEF Right

LEMMA ProtectStep ==
  ASSUME Sound, NEW e \in Used(tc), NEW on \in BOOLEAN,
         tc' = [tc EXCEPT !.timb[e].protect = on], UNCHANGED <<pending, request>>
  PROVE  Sound' /\ (Right => Right') /\ Kept(tc, tc')
<1>1. Solid(tc) /\ Plays(tc, asked, latched) /\ (pending # Null => index_timbre(tc, pending) = {})
  BY DEF Sound
<1>2. /\ Solid(tc') /\ Used(tc') = Used(tc)
      /\ tc'.cache = tc.cache /\ tc'.end = tc.end
      /\ tc'.MIDI_timbre = tc.MIDI_timbre /\ tc'.RBS_timbres = tc.RBS_timbres
      /\ tc'.slot = tc.slot
      /\ \A f \in Used(tc) : tc'.timb[f].gnum = tc.timb[f].gnum
                            /\ tc'.timb[f].off = tc.timb[f].off
  BY <1>1, ProtectSolid
<1>3. /\ Tight(tc) => Tight(tc')
      /\ Kept(tc, tc')
      /\ \A t : index_timbre(tc', t) = index_timbre(tc, t)
      /\ SlotsAt(tc) => SlotsAt(tc')
      /\ \A A : RefsRight(tc, A) => RefsRight(tc', A)
      /\ \A A, L : Plays(tc, A, L) => Plays(tc', A, L)
  BY <1>2, SameTable
<1>4. Sound'
  BY <1>1, <1>2, <1>3, QuietStep
<1>5. asked' = asked
  BY DEF request
<1> QED BY <1>3, <1>4, <1>5 DEF Right

LEMMA BankStep ==
  ASSUME Sound, NEW c \in Chans, bank_select(c)
  PROVE  Sound' /\ (Right => Right') /\ Kept(tc, tc')
<1>1. PICK b \in Banks :
        /\ MIDI_bank' = [MIDI_bank EXCEPT ![c] = b]
        /\ latched' = [latched EXCEPT ![c] = @ /\ b = MIDI_bank[c]]
  BY DEF bank_select
<1>2. tc' = tc /\ pending' = pending /\ MIDI_program' = MIDI_program /\ asked' = asked
  BY DEF bank_select
<1>3. /\ MIDI_bank \in [Chans -> Banks] /\ latched \in [Chans -> BOOLEAN]
      /\ \A x \in Chans : latched[x] => asked[x] = <<MIDI_bank[x], MIDI_program[x]>>
      /\ Plays(tc, asked, latched)
  BY DEF Sound
<1>4. MIDI_bank' \in [Chans -> Banks]
  BY <1>1, <1>3
<1>5. latched' \in [Chans -> BOOLEAN]
  BY <1>1, <1>3
<1>6. ASSUME NEW x \in Chans, latched'[x]
      PROVE  latched[x] /\ MIDI_bank'[x] = MIDI_bank[x]
  <2>1. CASE x = c
    <3>1. latched'[c] = (latched[c] /\ b = MIDI_bank[c])
      BY <1>1, <1>3
    <3>2. latched[c] /\ b = MIDI_bank[c]
      BY <1>6, <2>1, <3>1
    <3> QED BY <1>1, <1>3, <2>1, <3>2
  <2>2. CASE x # c
    BY <1>1, <1>3, <1>6, <2>2
  <2> QED BY <2>1, <2>2
<1>7. \A x \in Chans : latched'[x] => asked'[x] = <<MIDI_bank'[x], MIDI_program'[x]>>
  BY <1>2, <1>3, <1>6
<1>8. Plays(tc', asked', latched')
  BY <1>2, <1>3, <1>6 DEF Plays
<1>9. Sound'
  BY <1>2, <1>4, <1>5, <1>7, <1>8 DEF Sound
<1>10. Kept(tc, tc)
  BY DEF Kept
<1> QED BY <1>2, <1>9, <1>10 DEF Right

LEMMA ProgramStep ==
  ASSUME Sound, NEW c \in Chans, program_change(c)
  PROVE  Sound' /\ (Right => Right') /\ Kept(tc, tc')
<1>1. PICK p \in Programs :
        /\ MIDI_program' = [MIDI_program EXCEPT ![c] = p]
        /\ tc' = [tc EXCEPT !.MIDI_timbre[c] = Lookup(tc, <<MIDI_bank[c], p>>)]
        /\ asked' = [asked EXCEPT ![c] = <<MIDI_bank[c], p>>]
        /\ latched' = [latched EXCEPT ![c] = TRUE]
  BY DEF program_change
<1> DEFINE t == <<MIDI_bank[c], p>>
           M == [tc.MIDI_timbre EXCEPT ![c] = Lookup(tc, t)]
<1>2. pending' = pending /\ MIDI_bank' = MIDI_bank
  BY DEF program_change
<1>3. /\ MIDI_bank \in [Chans -> Banks] /\ MIDI_program \in [Chans -> Programs \cup {Null}]
      /\ asked \in [Chans -> (Banks \X Programs) \cup {Null}]
      /\ latched \in [Chans -> BOOLEAN]
      /\ \A x \in Chans : latched[x] => asked[x] = <<MIDI_bank[x], MIDI_program[x]>>
      /\ Plays(tc, asked, latched) /\ Solid(tc)
      /\ pending \in Timbres \cup {Null}
      /\ (pending # Null => index_timbre(tc, pending) = {})
  BY DEF Sound
<1>4. /\ tc \in CacheRec /\ Unique(tc) /\ tc.MIDI_timbre \in [Chans -> Index]
      /\ \A x \in Chans : tc.MIDI_timbre[x] >= 0 => tc.MIDI_timbre[x] \in Used(tc)
  BY <1>3 DEF Solid, CacheRec, HeldUsed
<1>5. t \in Banks \X Programs /\ asked'[c] = t /\ latched'[c] = TRUE /\ MIDI_program'[c] = p
  BY <1>1, <1>3
<1>6. \A x \in Chans : x # c => /\ asked'[x] = asked[x] /\ latched'[x] = latched[x]
                               /\ MIDI_program'[x] = MIDI_program[x]
  BY <1>1, <1>3
<1>7. tc' = [tc EXCEPT !.MIDI_timbre = M]
  BY <1>1
<1>8. /\ asked' \in [Chans -> (Banks \X Programs) \cup {Null}]
      /\ latched' \in [Chans -> BOOLEAN] /\ MIDI_program' \in [Chans -> Programs \cup {Null}]
  BY <1>1, <1>3, <1>5
<1>9. \A x \in Chans : latched'[x] => asked'[x] = <<MIDI_bank'[x], MIDI_program'[x]>>
  BY <1>2, <1>3, <1>5, <1>6
<1> HIDE DEF t
<1>10. /\ Lookup(tc, t) \in Index
       /\ Lookup(tc, t) >= 0 => /\ Lookup(tc, t) \in Used(tc)
                               /\ tc.timb[Lookup(tc, t)].gnum = t
       /\ \A e \in Used(tc) : tc.timb[e].gnum = t => Lookup(tc, t) = Byte(e)
  <2>1. CASE Lookup(tc, t) = None /\ \A e \in Used(tc) : tc.timb[e].gnum # t
    BY <2>1, CacheAssumption DEF CacheAssumption, None, Index
  <2>2. ASSUME NEW e \in Used(tc), tc.timb[e].gnum = t, Lookup(tc, t) = Byte(e)
        PROVE  /\ Lookup(tc, t) \in Index
               /\ Lookup(tc, t) >= 0 => /\ Lookup(tc, t) \in Used(tc)
                                       /\ tc.timb[Lookup(tc, t)].gnum = t
               /\ \A f \in Used(tc) : tc.timb[f].gnum = t => Lookup(tc, t) = Byte(f)
    <3>1. e \in Entries
      BY DEF Used
    <3>2. Byte(e) \in Index /\ (Byte(e) >= 0 => Byte(e) = e)
      BY <3>1, ByteIndex
    <3>3. \A f \in Used(tc) : tc.timb[f].gnum = t => f = e
      BY <1>4, <2>2 DEF Unique
    <3> QED BY <2>2, <3>2, <3>3
  <2> QED BY <1>4, <2>1, <2>2, LookupCases
<1>11. /\ M \in [Chans -> Index] /\ M[c] = Lookup(tc, t)
       /\ \A x \in Chans : x # c => M[x] = tc.MIDI_timbre[x]
  BY <1>4, <1>10
<1> HIDE DEF M
<1>12. \A x \in Chans : M[x] >= 0 => M[x] \in Used(tc)
  BY <1>4, <1>10, <1>11
<1>13. /\ Solid(tc')
       /\ tc'.timb = tc.timb /\ tc'.cache = tc.cache /\ tc'.end = tc.end
       /\ tc'.RBS_timbres = tc.RBS_timbres /\ tc'.slot = tc.slot
       /\ tc'.MIDI_timbre = M
  BY <1>3, <1>7, <1>11, <1>12, BoundSolid
<1>14. Used(tc') = Used(tc)
  BY <1>13 DEF Used
<1>15. /\ Tight(tc) => Tight(tc')
       /\ Kept(tc, tc')
       /\ \A x : index_timbre(tc', x) = index_timbre(tc, x)
       /\ SlotsAt(tc) => SlotsAt(tc')
  BY <1>13, <1>14, SameTable
<1>16. Plays(tc', asked', latched')
  <2> SUFFICES ASSUME NEW x \in Chans, latched'[x], NEW f \in Used(tc),
                      tc.timb[f].gnum = asked'[x]
               PROVE  M[x] = Byte(f)
    BY <1>13, <1>14 DEF Plays
  <2>1. CASE x = c
    BY <1>5, <1>10, <1>11, <2>1
  <2>2. CASE x # c
    BY <1>3, <1>6, <1>11, <2>2 DEF Plays
  <2> QED BY <2>1, <2>2
<1>17. Sound'
  BY <1>2, <1>3, <1>8, <1>9, <1>13, <1>15, <1>16 DEF Sound
<1>18. ASSUME RefsRight(tc, asked) PROVE RefsRight(tc', asked')
  <2> SUFFICES ASSUME NEW x \in Chans, M[x] >= 0
               PROVE  M[x] \in Used(tc) /\ tc.timb[M[x]].gnum = asked'[x]
    BY <1>13, <1>14, <1>18 DEF RefsRight
  <2>1. CASE x = c
    BY <1>5, <1>10, <1>11, <2>1
  <2>2. CASE x # c
    BY <1>6, <1>11, <1>18, <2>2 DEF RefsRight
  <2> QED BY <2>1, <2>2
<1> QED BY <1>15, <1>17, <1>18 DEF Right

(* A note stamps its timbre and starts a slot from its offset.             *)
LEMMA PlayedIs ==
  ASSUME NEW st, Solid(st), NEW e \in Used(st), NEW d, d = Played(st, e), NEW A, NEW L
  PROVE  /\ Solid(d) /\ Kept(st, d)
         /\ Tight(st) => Tight(d)
         /\ RefsRight(st, A) => RefsRight(d, A)
         /\ SlotsAt(st) => SlotsAt(d)
         /\ Plays(st, A, L) => Plays(d, A, L)
         /\ \A t : index_timbre(d, t) = index_timbre(st, t)
<1> DEFINE st2  == [st EXCEPT !.older = Touched(st, e)]
           free == {s \in Slots : st.slot[s] = Null}
           x    == First(free)
           y    == [off |-> st.timb[e].off, of |-> e]
<1>1. /\ Solid(st2)
      /\ st2.timb = st.timb /\ st2.cache = st.cache /\ st2.end = st.end
      /\ st2.MIDI_timbre = st.MIDI_timbre /\ st2.RBS_timbres = st.RBS_timbres
      /\ st2.slot = st.slot
  BY TouchedSolid
<1>2. d = IF free = {} THEN st2 ELSE [st2 EXCEPT !.slot[x] = y]
  BY DEF Played
<1> HIDE DEF st2, free, x
<1>3. Used(st2) = Used(st)
  BY <1>1 DEF Used
<1>4. /\ Solid(d)
      /\ d.timb = st.timb /\ d.end = st.end
      /\ d.MIDI_timbre = st.MIDI_timbre /\ d.RBS_timbres = st.RBS_timbres
      /\ \A s \in Slots : d.slot[s] = st.slot[s] \/ d.slot[s] = y
  <2>1. CASE free # {} /\ x \in Slots
    <3>0. \E f \in Used(st2) : y = [off |-> st2.timb[f].off, of |-> f]
      BY <1>1, <1>3
    <3> HIDE DEF y
    <3> DEFINE M == [st2.slot EXCEPT ![x] = y]
    <3>1. d = [st2 EXCEPT !.slot = M] /\ M = [st2.slot EXCEPT ![x] = y]
      BY <1>2, <2>1
    <3> HIDE DEF M
    <3>2. /\ Solid(d)
          /\ d.timb = st2.timb /\ d.cache = st2.cache /\ d.end = st2.end
          /\ d.MIDI_timbre = st2.MIDI_timbre /\ d.RBS_timbres = st2.RBS_timbres
          /\ d.slot = M
      BY <1>1, <2>1, <3>0, <3>1, SlotSolid
    <3>3. st.slot \in [Slots -> SlotRec \cup {Null}]
      BY DEF Solid, CacheRec
    <3> QED BY <1>1, <2>1, <3>2, <3>3 DEF M
  <2>2. CASE ~ (free # {} /\ x \in Slots)
    <3>1. st2.slot \in [Slots -> SlotRec \cup {Null}] /\ st2 \in CacheRec
      BY <1>1 DEF Solid, CacheRec
    <3>2. x \notin Slots => [st2.slot EXCEPT ![x] = y] = st2.slot
      BY <3>1
    <3>3. d = st2
      <4> HIDE DEF y
      <4> QED BY <1>2, <2>2, <3>1, <3>2 DEF CacheRec
    <3> QED BY <1>1, <3>3
  <2> QED BY <2>1, <2>2
<1>5. Used(d) = Used(st)
  BY <1>4 DEF Used
<1>6. /\ Tight(st) => Tight(d)
      /\ Kept(st, d)
      /\ \A t : index_timbre(d, t) = index_timbre(st, t)
      /\ RefsRight(st, A) => RefsRight(d, A)
      /\ Plays(st, A, L) => Plays(d, A, L)
  BY <1>4, <1>5, SameTable
<1>7. SlotsAt(st) => SlotsAt(d)
  BY <1>4, <1>5 DEF SlotsAt
<1> QED BY <1>4, <1>6, <1>7

LEMMA PlayStep ==
  ASSUME Sound, NEW e \in Used(tc), tc' = Played(tc, e), UNCHANGED <<pending, request>>
  PROVE  Sound' /\ (Right => Right') /\ Kept(tc, tc')
<1>1. Solid(tc) /\ Plays(tc, asked, latched) /\ (pending # Null => index_timbre(tc, pending) = {})
  BY DEF Sound
<1>2. /\ Solid(tc') /\ Kept(tc, tc')
      /\ Tight(tc) => Tight(tc')
      /\ RefsRight(tc, asked) => RefsRight(tc', asked)
      /\ SlotsAt(tc) => SlotsAt(tc')
      /\ Plays(tc, asked, latched) => Plays(tc', asked, latched)
      /\ \A t : index_timbre(tc', t) = index_timbre(tc, t)
  BY <1>1, PlayedIs
<1>3. Sound'
  BY <1>1, <1>2, QuietStep
<1>4. asked' = asked
  BY DEF request
<1> QED BY <1>2, <1>3, <1>4 DEF Right

(* The index a drum is looked up with. *)
LEMMA DrumBoundIs ==
  ASSUME NEW st, Solid(st), NEW x \in Drums,
         NEW M, M = [st.RBS_timbres EXCEPT ![x] = Lookup(st, x)],
         NEW d, d = [st EXCEPT !.RBS_timbres = M], NEW A, NEW L
  PROVE  /\ Solid(d) /\ Kept(st, d) /\ d.timb = st.timb
         /\ Tight(st) => Tight(d)
         /\ RefsRight(st, A) => RefsRight(d, A)
         /\ SlotsAt(st) => SlotsAt(d)
         /\ Plays(st, A, L) => Plays(d, A, L)
         /\ \A t : index_timbre(d, t) = index_timbre(st, t)
<1>0. st \in CacheRec /\ Unique(st)
  BY DEF Solid
<1>1. /\ Lookup(st, x) \in Index
      /\ Lookup(st, x) >= 0 => /\ Lookup(st, x) \in Used(st)
                              /\ st.timb[Lookup(st, x)].gnum = x
  <2>1. CASE Lookup(st, x) = None
    BY <2>1, CacheAssumption DEF CacheAssumption, None, Index
  <2>2. ASSUME NEW e \in Used(st), st.timb[e].gnum = x, Lookup(st, x) = Byte(e)
        PROVE  /\ Lookup(st, x) \in Index
               /\ Lookup(st, x) >= 0 => /\ Lookup(st, x) \in Used(st)
                                       /\ st.timb[Lookup(st, x)].gnum = x
    <3>1. e \in Entries
      BY DEF Used
    <3> QED BY <2>2, <3>1, ByteIndex
  <2> QED BY <1>0, <2>1, <2>2, LookupCases
<1> DEFINE i == Lookup(st, x)
<1>2. i \in Index /\ (i >= 0 => i \in Used(st)) /\ M = [st.RBS_timbres EXCEPT ![x] = i]
  BY <1>1
<1> HIDE DEF i
<1>8. \A z \in Drums : M[z] = IF z = x THEN i ELSE st.RBS_timbres[z]
  BY <1>0, <1>2 DEF CacheRec
<1>10. M \in [Drums -> Index]
  BY <1>0, <1>2 DEF CacheRec
<1>9. \A z \in Drums : M[z] >= 0 => M[z] \in Used(st)
  BY <1>2, <1>8 DEF Solid, HeldUsed
<1>3. /\ Solid(d)
      /\ d.timb = st.timb /\ d.cache = st.cache /\ d.end = st.end
      /\ d.MIDI_timbre = st.MIDI_timbre /\ d.slot = st.slot
      /\ d.RBS_timbres = M
  BY <1>9, <1>10, DrumBoundSolid
<1>4. Used(d) = Used(st)
  BY <1>3 DEF Used
<1>5. /\ Tight(st) => Tight(d)
      /\ Kept(st, d)
      /\ \A t : index_timbre(d, t) = index_timbre(st, t)
      /\ SlotsAt(st) => SlotsAt(d)
      /\ Plays(st, A, L) => Plays(d, A, L)
  BY <1>3, <1>4, SameTable
<1>6. \A z \in Drums : d.RBS_timbres[z] = IF z = x THEN i ELSE st.RBS_timbres[z]
  BY <1>3, <1>8
<1>7. RefsRight(st, A) => RefsRight(d, A)
  BY <1>1, <1>3, <1>4, <1>6 DEF RefsRight, i
<1> QED BY <1>3, <1>5, <1>7

LEMMA DrumStep ==
  ASSUME Sound, NEW x \in Drums, drum_note_on(x)
  PROVE  Sound' /\ (Right => Right') /\ Kept(tc, tc')
<1> DEFINE looked_up == [tc EXCEPT !.RBS_timbres[x] = Lookup(tc, x)]
<1>1. /\ Solid(tc) /\ Plays(tc, asked, latched) /\ (pending # Null => index_timbre(tc, pending) = {})
      /\ HeldUsed(tc) /\ tc \in CacheRec /\ Unique(tc)
  BY DEF Sound, Solid
<1>2. UNCHANGED <<pending, request>> /\ asked' = asked
  BY DEF drum_note_on, request
<1>3. /\ Solid(looked_up) /\ Kept(tc, looked_up) /\ looked_up.timb = tc.timb
      /\ Tight(tc) => Tight(looked_up)
      /\ RefsRight(tc, asked) => RefsRight(looked_up, asked)
      /\ SlotsAt(tc) => SlotsAt(looked_up)
      /\ Plays(tc, asked, latched) => Plays(looked_up, asked, latched)
      /\ \A t : index_timbre(looked_up, t) = index_timbre(tc, t)
  <2> DEFINE M == [tc.RBS_timbres EXCEPT ![x] = Lookup(tc, x)]
  <2>1. looked_up = [tc EXCEPT !.RBS_timbres = M]
    OBVIOUS
  <2>2. M = [tc.RBS_timbres EXCEPT ![x] = Lookup(tc, x)]
    OBVIOUS
  <2>3. Solid(tc)
    BY <1>1
  <2> HIDE DEF looked_up, M
  <2>4. /\ Solid(looked_up) /\ Kept(tc, looked_up) /\ looked_up.timb = tc.timb
        /\ Tight(tc) => Tight(looked_up)
        /\ RefsRight(tc, asked) => RefsRight(looked_up, asked)
        /\ SlotsAt(tc) => SlotsAt(looked_up)
        /\ Plays(tc, asked, latched) => Plays(looked_up, asked, latched)
        /\ \A t : index_timbre(looked_up, t) = index_timbre(tc, t)
    BY <2>1, <2>2, <2>3, DrumBoundIs
  <2> QED BY <2>4
<1>4. CASE tc.RBS_timbres[x] >= 0 /\ tc' = Played(tc, tc.RBS_timbres[x])
  <2>1. tc.RBS_timbres[x] \in Used(tc)
    BY <1>1, <1>4 DEF HeldUsed
  <2> QED BY <1>2, <1>4, <2>1, PlayStep
<1>5. CASE tc' = looked_up
  <2> HIDE DEF looked_up
  <2>1. Sound'
    BY <1>1, <1>2, <1>3, <1>5, QuietStep
  <2> QED BY <1>2, <1>3, <1>5, <2>1 DEF Right
<1>6. CASE index_timbre(tc, x) # {} /\ tc' = Played(looked_up, First(index_timbre(tc, x)))
  <2> HIDE DEF looked_up
  <2>1. First(index_timbre(tc, x)) \in Used(tc)
    BY <1>1, <1>6, LookupCases
  <2>2. Used(looked_up) = Used(tc)
    BY <1>3 DEF Used
  <2>3. /\ Solid(tc') /\ Kept(looked_up, tc')
        /\ Tight(looked_up) => Tight(tc')
        /\ RefsRight(looked_up, asked) => RefsRight(tc', asked)
        /\ SlotsAt(looked_up) => SlotsAt(tc')
        /\ Plays(looked_up, asked, latched) => Plays(tc', asked, latched)
        /\ \A t : index_timbre(tc', t) = index_timbre(looked_up, t)
    BY <1>3, <1>6, <2>1, <2>2, PlayedIs
  <2>4. Sound'
    BY <1>1, <1>2, <1>3, <2>3, QuietStep
  <2>5. Kept(tc, tc')
    BY <1>3, <2>2, <2>3 DEF Kept
  <2> QED BY <1>2, <1>3, <2>3, <2>4, <2>5 DEF Right
<1>7. CASE index_timbre(tc, x) # {} \/ index_timbre(tc, x) = {}
  BY <1>4, <1>5, <1>6, <1>7 DEF drum_note_on
<1> QED BY <1>7

LEMMA SlotEndStep ==
  ASSUME Sound, NEW s \in Slots, note_off(s)
  PROVE  Sound' /\ (Right => Right') /\ Kept(tc, tc')
<1>1. /\ Solid(tc) /\ Plays(tc, asked, latched) /\ (pending # Null => index_timbre(tc, pending) = {})
      /\ tc \in CacheRec
  BY DEF Sound, Solid
<1> DEFINE M == [tc.slot EXCEPT ![s] = Null]
<1>2. UNCHANGED <<pending, request>> /\ asked' = asked /\ tc' = [tc EXCEPT !.slot = M]
      /\ M = [tc.slot EXCEPT ![s] = Null]
  BY DEF note_off, request
<1> HIDE DEF M
<1>3. /\ Solid(tc')
      /\ tc'.timb = tc.timb /\ tc'.cache = tc.cache /\ tc'.end = tc.end
      /\ tc'.MIDI_timbre = tc.MIDI_timbre /\ tc'.RBS_timbres = tc.RBS_timbres
      /\ tc'.slot = M
  BY <1>1, <1>2, SlotSolid
<1>4. Used(tc') = Used(tc)
  BY <1>3 DEF Used
<1>5. /\ Tight(tc) => Tight(tc')
      /\ Kept(tc, tc')
      /\ \A t : index_timbre(tc', t) = index_timbre(tc, t)
      /\ RefsRight(tc, asked) => RefsRight(tc', asked)
      /\ Plays(tc, asked, latched) => Plays(tc', asked, latched)
  BY <1>3, <1>4, SameTable
<1>6. \A q \in Slots : tc'.slot[q] = IF q = s THEN Null ELSE tc.slot[q]
  BY <1>1, <1>2, <1>3 DEF CacheRec
<1>7. SlotsAt(tc) => SlotsAt(tc')
  BY <1>3, <1>4, <1>6 DEF SlotsAt
<1>8. Sound'
  BY <1>1, <1>2, <1>3, <1>5, QuietStep
<1> QED BY <1>2, <1>5, <1>7, <1>8 DEF Right

LEMMA NextStep ==
  ASSUME Sound, [Next]_vars
  PROVE  Sound' /\ (TableSuffices => (Right => Right') /\ Kept(tc, tc'))
<1> DEFINE Goal == Sound' /\ (TableSuffices => (Right => Right') /\ Kept(tc, tc'))
<1>0. \A c \in Chans : tc.MIDI_timbre[c] >= 0 => tc.MIDI_timbre[c] \in Used(tc)
  BY DEF Sound, Solid, HeldUsed
<1>1. ASSUME NEW t \in Timbres, install_resident(t) PROVE Goal
  BY <1>1, ResidentStep
<1>2. ASSUME NEW t \in Timbres, install_new(t) PROVE Goal
  BY <1>2, NewStep
<1>3. ASSUME NEW t \in Timbres, protect_timbre(t) PROVE Goal
  <2>1. PICK on \in BOOLEAN, e \in index_timbre(tc, t) :
          tc' = [tc EXCEPT !.timb[e].protect = on] /\ UNCHANGED <<pending, request>>
    BY <1>3 DEF protect_timbre
  <2>2. e \in Used(tc)
    BY DEF index_timbre
  <2> QED BY <2>1, <2>2, ProtectStep
<1>4. CASE make_room
  BY <1>4, MakeRoomStep
<1>5. CASE store
  BY <1>5, StoreStep
<1>6. ASSUME NEW c \in Chans, TIMBRE_PROTECT(c) PROVE Goal
  <2>1. PICK on \in BOOLEAN :
          /\ tc.MIDI_timbre[c] >= 0
          /\ tc' = [tc EXCEPT !.timb[tc.MIDI_timbre[c]].protect = on]
          /\ UNCHANGED <<pending, request>>
    BY <1>6 DEF TIMBRE_PROTECT
  <2>2. tc.MIDI_timbre[c] \in Used(tc)
    BY <1>0, <2>1
  <2> QED BY <2>1, <2>2, ProtectStep
<1>7. ASSUME NEW c \in Chans, bank_select(c) PROVE Goal
  BY <1>7, BankStep
<1>8. ASSUME NEW c \in Chans, program_change(c) PROVE Goal
  BY <1>8, ProgramStep
<1>9. ASSUME NEW c \in Chans, note_on(c) PROVE Goal
  <2>1. tc.MIDI_timbre[c] \in Used(tc) /\ tc' = Played(tc, tc.MIDI_timbre[c])
        /\ UNCHANGED <<pending, request>>
    BY <1>0, <1>9 DEF note_on
  <2> QED BY <2>1, PlayStep
<1>10. ASSUME NEW d \in Drums, drum_note_on(d) PROVE Goal
  BY <1>10, DrumStep
<1>11. ASSUME NEW s \in Slots, note_off(s) PROVE Goal
  BY <1>11, SlotEndStep
<1>12. CASE UNCHANGED vars
  <2>1. /\ tc' = tc /\ pending' = pending
        /\ MIDI_bank' = MIDI_bank /\ MIDI_program' = MIDI_program
        /\ asked' = asked /\ latched' = latched
    BY <1>12 DEF vars, request
  <2>2. Sound' /\ Kept(tc, tc)
    BY <2>1 DEF Sound, Kept
  <2> QED BY <2>1, <2>2 DEF Right
<1> QED BY <1>1, <1>2, <1>3, <1>4, <1>5, <1>6, <1>7, <1>8, <1>9, <1>10, <1>11, <1>12 DEF Next

----------------------------------------------------------------------------
(* The theorems. *)

LEMMA SoundAlways == Spec => []Sound
<1>1. Init => Sound
  BY InitSound
<1>2. Sound /\ [Next]_vars => Sound'
  BY NextStep
<1> QED BY <1>1, <1>2, PTL DEF Spec

(* Offsets lie within the cache, whatever is deleted, moved or overwritten,*)
(* those of slots whose timbre is gone included.                           *)
THEOREM TypeCorrect == Spec => []TypeOK
<1>1. Sound => TypeOK
  BY DEF Sound, Solid, CacheRec, TypeOK
<1> QED BY <1>1, SoundAlways, PTL

(* Each timbre in the table lies whole and unmixed at its offset, also     *)
(* after the table was full and an entry in use was overwritten.           *)
THEOREM EntriesIntactAlways == Spec => []EntriesIntact
<1>1. Sound => EntriesIntact
  BY DEF Sound, Solid, Intact, EntriesIntact, Off, Size
<1> QED BY <1>1, SoundAlways, PTL

(* A channel plays the entry of its timbre whenever that is in the cache,  *)
(* in one of the entries that a signed byte can name, with no assumption   *)
(* about the table.                                                        *)
THEOREM ResidentPlaysAlways == Spec => []ResidentPlays
<1>1. Sound => ResidentPlays
  <2> SUFFICES ASSUME Sound, NEW c \in Chans, latched[c],
                      NEW e \in index_timbre(tc, asked[c]), e < Half
               PROVE  tc.MIDI_timbre[c] = e
    BY DEF ResidentPlays
  <2>1. Plays(tc, asked, latched) /\ e \in Used(tc) /\ tc.timb[e].gnum = asked[c]
    BY DEF Sound, index_timbre
  <2>2. tc.MIDI_timbre[c] = Byte(e)
    BY <2>1 DEF Plays
  <2> QED BY <2>2 DEF Byte
<1> QED BY <1>1, SoundAlways, PTL

LEMMA RightAlways == Spec /\ []TableSuffices => []Right
<1>1. Init => Right
  BY InitSound
<1>2. Sound /\ TableSuffices /\ Right /\ [Next]_vars => Right'
  BY NextStep
<1> QED BY <1>1, <1>2, SoundAlways, PTL DEF Spec

(* As long as no timbre is stored into a full table, the table, the bytes  *)
(* and every reference into them agree, also for the notes that sound.     *)
THEOREM CacheConsistentAlways == Spec /\ []TableSuffices => []CacheConsistent
<1>1. Sound /\ Right => CacheConsistent
  BY DEF Sound, Solid, Right, CacheConsistent, EntriesIntact, NoLeak, IndicesRight,
         SlotsFollow, Intact, Tight, RefsRight, SlotsAt, Off, Size
<1> QED BY <1>1, SoundAlways, RightAlways, PTL

(* As long as no timbre is stored into a full table, a protected timbre    *)
(* stays in its entry until its protection is lifted.                      *)
THEOREM ProtectedStaysAlways == Spec /\ []TableSuffices => ProtectedStays
<1>1. Sound /\ TableSuffices /\ [Next]_vars =>
        [\A e \in Used(tc) :
           tc.timb[e].protect =>
             e \in Used(tc)' /\ tc.timb'[e].gnum = tc.timb[e].gnum]_vars
  BY NextStep DEF Kept
<1> QED BY <1>1, SoundAlways, PTL DEF Spec, ProtectedStays
----------------------------------------------------------------------------
(* When the hypothesis holds: no more timbres than entries, as with the    *)
(* 128 programs and 47 drums of General MIDI and the driver's 192 entries. *)

FewTimbres == IsFiniteSet(Timbres) /\ Cardinality(Timbres) <= MAX_TIMBS

(* A full table holds a timbre in every entry, no two the same: with few   *)
(* timbres it holds them all, and none is left to be stored.               *)
THEOREM FewTimbresSuffice ==
  ASSUME FewTimbres
  PROVE  Spec => []TableSuffices
<1>1. Sound => TableSuffices
  <2> SUFFICES ASSUME Sound, pending # Null, Used(tc) = Entries
               PROVE  FALSE
    BY DEF TableSuffices
  <2>1. /\ tc \in CacheRec /\ Unique(tc) /\ pending \in Timbres
        /\ index_timbre(tc, pending) = {}
    BY DEF Sound, Solid
  <2> DEFINE Others == Timbres \ {pending}
             f == [e \in Entries |-> tc.timb[e].gnum]
  <2>2. \A e \in Entries : tc.timb[e].gnum \in Others
    <3>1. SUFFICES ASSUME NEW e \in Entries PROVE tc.timb[e].gnum \in Others
      OBVIOUS
    <3>2. e \in Used(tc)
      OBVIOUS
    <3>3. tc.timb[e].gnum \in Timbres
      BY <2>1, <3>2, UsedRec
    <3> QED BY <2>1, <3>2, <3>3 DEF index_timbre
  <2>3. f \in Injection(Entries, Others)
    <3>1. f \in [Entries -> Others]
      BY <2>2
    <3>2. \A d, e \in Entries : f[d] = f[e] => d = e
      BY <2>1 DEF Unique
    <3> HIDE DEF f
    <3> QED BY <3>1, <3>2 DEF Injection, IsInjective
  <2> HIDE DEF f
  <2>4. /\ IsFiniteSet(Others)
        /\ Cardinality(Others) = Cardinality(Timbres) - 1
        /\ Cardinality(Timbres) \in Nat
    BY <2>1, FS_RemoveElement, FS_CardinalityType DEF FewTimbres
  <2> HIDE DEF Others
  <2>5. Cardinality(Entries) = MAX_TIMBS /\ MAX_TIMBS \in Nat
    <3>1. MAX_TIMBS \in Nat \ {0}
      BY CacheAssumption DEF CacheAssumption
    <3>2. Cardinality(Entries)
            = IF 0 > MAX_TIMBS - 1 THEN 0 ELSE MAX_TIMBS - 1 - 0 + 1
      BY <3>1, FS_Interval DEF Entries
    <3> QED BY <3>1, <3>2
  <2>6. Cardinality(Entries) <= Cardinality(Others)
    BY <2>3, <2>4, FS_Injection
  <2> QED BY <2>4, <2>5, <2>6 DEF FewTimbres
<1> QED BY <1>1, SoundAlways, PTL

(* With so few timbres the cache stays consistent, and a protected timbre  *)
(* stays in its entry, whatever is installed when.                         *)
THEOREM FewTimbresConsistent ==
  ASSUME FewTimbres
  PROVE  Spec => []CacheConsistent /\ ProtectedStays
<1>1. Spec => []TableSuffices
  BY FewTimbresSuffice
<1> QED BY <1>1, CacheConsistentAlways, ProtectedStaysAlways, PTL

=============================================================================
