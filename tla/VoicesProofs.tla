---------------------------- MODULE VoicesProofs ---------------------------
(***************************************************************************)
(* Proofs about the voice allocator, for every number of slots, voices and *)
(* pairs.  Everything rests on VoiceOwnership: from "V_channel says        *)
(* exactly what the slots say" it follows that a search finds only voices  *)
(* nobody uses, that a release disturbs no other slot, and with that what  *)
(* the connection register and the key-on bits hold.  At the end, the      *)
(* level of an operator's envelope.                                        *)
(***************************************************************************)
EXTENDS ChipVoices, Envelope, FiniteSetTheorems, WellFoundedInduction, TLAPS

----------------------------------------------------------------------------
(* Lemmas about the data. *)

(* Counting slots gives a natural number. *)
LEMMA SlotCounts == \A T \in SUBSET Slots : Cardinality(T) \in Nat
<1>1. IsFiniteSet(Slots)
  BY FS_Interval, VoicesAssumption DEF VoicesAssumption, Slots
<1> QED
  BY <1>1, FS_Subset, FS_CardinalityType

(* A remainder is below the modulus. *)
LEMMA ModRange ==
  ASSUME NEW x \in Int, NEW n \in Nat \ {0}
  PROVE  (x % n) \in 0 .. n - 1
  OBVIOUS

(* A full turn of the rover visits every place. *)
LEMMA TurnVisits ==
  ASSUME NEW n \in Nat \ {0}, NEW r \in 0 .. n - 1 \cup {-1}, NEW v \in 0 .. n - 1
  PROVE  \E j \in 1 .. n : (r + j) % n = v
<1>1. ASSUME NEW x \in 0 .. n - 1 PROVE (x % n) = x /\ ((x + n) % n) = x
  OBVIOUS
<1>2. CASE v > r
  <2>1. v - r \in 1 .. n /\ r + (v - r) = v
    BY <1>2
  <2>2. (r + (v - r)) % n = v
    BY <2>1, <1>1
  <2> QED BY <2>1, <2>2
<1>3. CASE v <= r
  <2>1. v - r + n \in 1 .. n /\ r + (v - r + n) = v + n
    BY <1>3
  <2>2. (r + (v - r + n)) % n = v
    BY <2>1, <1>1
  <2> QED BY <2>1, <2>2
<1> QED BY <1>2, <1>3

(* The base of a pair has its own bit and no other. *)
LEMMA BaseBit ==
  ASSUME NEW b \in Bases
  PROVE  conn_sel(b) = {b} /\ b \in Voice /\ b + Span \in Voice
  BY VoicesAssumption DEF VoicesAssumption, conn_sel, Bases, Voice

(* The contents of a busy slot are a slot record. *)
LEMMA BusyRec ==
  ASSUME TypeOK, NEW s \in Busy
  PROVE  /\ s \in Slots /\ S[s] \in SlotRec /\ S[s] # Free
         /\ S[s].type \in {2, 4} /\ S[s].voice \in Voice \cup {None}
         /\ S[s].channel \in Chans
         /\ Uses(s) = Halves(S[s].type, S[s].voice)
  BY DEF TypeOK, Busy, SlotRec, Uses

(* What a slot uses: nothing, its voice, or its voice and the second half. *)
LEMMA UsesCases ==
  ASSUME TypeOK, PairsWhole, NEW s \in Slots
  PROVE  /\ Uses(s) \subseteq Voice
         /\ s \notin Busy => Uses(s) = {}
         /\ s \in Busy /\ S[s].voice = None => Uses(s) = {}
         /\ s \in Busy /\ S[s].voice # None /\ S[s].type = 2 => Uses(s) = {S[s].voice}
         /\ s \in Busy /\ S[s].voice # None /\ S[s].type = 4 =>
              Uses(s) = {S[s].voice, S[s].voice + Span} /\ S[s].voice \in Bases
<1>1. CASE s \notin Busy
  BY <1>1 DEF Busy, Uses
<1>2. CASE s \in Busy
  <2>1. S[s].type \in {2, 4} /\ S[s].voice \in Voice \cup {None}
        /\ Uses(s) = Halves(S[s].type, S[s].voice)
    BY <1>2, BusyRec
  <2>2. S[s].type = 4 /\ S[s].voice # None => S[s].voice \in Bases
    BY <1>2 DEF PairsWhole
  <2> QED
    BY <1>2, <2>1, <2>2, BaseBit DEF Halves
<1> QED BY <1>1, <1>2

----------------------------------------------------------------------------
(* The effect of freeing slots. *)

(* Freeing the slots R and the voices they use keeps the ownership. *)
LEMMA FreeKeepsOwnership ==
  ASSUME TypeOK, VoiceOwnership, NEW R \in SUBSET Slots,
         S' = [s \in Slots |-> IF s \in R THEN Free ELSE S[s]],
         V_channel' = [v \in Voice |->
            IF v \in UNION {Uses(s) : s \in R} THEN None ELSE V_channel[v]]
  PROVE  /\ VoiceOwnership'
         /\ \A s \in Slots : Uses(s)' = IF s \in R THEN {} ELSE Uses(s)
         /\ Busy' = Busy \ R
<1>1. \A s \in Slots : Uses(s)' = IF s \in R THEN {} ELSE Uses(s)
  BY DEF Uses
<1>2. Busy' = Busy \ R
  BY DEF Busy
<1>3. PairsWhole'
  BY <1>2 DEF VoiceOwnership, PairsWhole, Busy
<1>4. Exclusive'
  BY <1>1 DEF VoiceOwnership, Exclusive
<1>5. Accounted'
  <2> SUFFICES ASSUME NEW v \in Voice
               PROVE  \/ V_channel'[v] = None /\ \A s \in Slots : v \notin Uses(s)'
                      \/ \E s \in Busy' : v \in Uses(s)' /\ V_channel'[v] = S'[s].channel
    BY DEF Accounted
  <2>1. CASE v \in UNION {Uses(s) : s \in R}
    <3>1. PICK q \in R : v \in Uses(q)
      BY <2>1
    <3>2. \A s \in Slots : s # q => v \notin Uses(s)
      BY <3>1 DEF VoiceOwnership, Exclusive
    <3>3. V_channel'[v] = None
      BY <2>1
    <3> QED BY <1>1, <3>1, <3>2, <3>3
  <2>2. CASE v \notin UNION {Uses(s) : s \in R}
    <3>1. V_channel'[v] = V_channel[v]
      BY <2>2
    <3>2. CASE V_channel[v] = None /\ \A s \in Slots : v \notin Uses(s)
      BY <1>1, <3>1, <3>2
    <3>3. ASSUME NEW s \in Busy, v \in Uses(s), V_channel[v] = S[s].channel
          PROVE  s \in Busy' /\ v \in Uses(s)' /\ V_channel'[v] = S'[s].channel
      <4>1. s \notin R /\ s \in Slots
        BY <2>2, <3>3 DEF Busy
      <4> QED BY <1>1, <1>2, <3>1, <3>3, <4>1
    <3> QED BY <3>2, <3>3 DEF VoiceOwnership, Accounted
  <2> QED BY <2>1, <2>2
<1> QED BY <1>1, <1>2, <1>3, <1>4, <1>5 DEF VoiceOwnership

(* Running update_voice on any voiced slots leaves every voiced slot with  *)
(* the connection bit it needs: no other slot shares its pair.             *)
LEMMA JoinedMatches ==
  ASSUME TypeOK, VoiceOwnership, ConnMatches, NEW T \in SUBSET Busy,
         NEW s \in Busy, S[s].voice # None
  PROVE  IF S[s].type = 4
         THEN conn_sel(S[s].voice) \subseteq Joined({S[q] : q \in Voiced(T)})
         ELSE conn_sel(S[s].voice) \cap Joined({S[q] : q \in Voiced(T)}) = {}
<1> DEFINE Q == {S[q] : q \in Voiced(T)}
<1>0. PairsWhole /\ s \in Slots
  BY DEF VoiceOwnership, Busy
<1>1. ASSUME NEW b, b \in Joined(Q)
      PROVE  \/ b \in conn_shadow
             \/ \E q \in Voiced(T) : S[q].type = 4 /\ b \in conn_sel(S[q].voice)
  BY <1>1 DEF Joined
<1>2. ASSUME NEW b, b \notin Joined(Q)
      PROVE  \/ /\ b \notin conn_shadow
                /\ \A q \in Voiced(T) : S[q].type = 4 => b \notin conn_sel(S[q].voice)
             \/ \E q \in Voiced(T) : S[q].type = 2 /\ b \in conn_sel(S[q].voice)
  BY <1>2 DEF Joined
<1>3. ASSUME NEW q \in Voiced(T)
      PROVE  q \in Busy /\ q \in Slots /\ S[q].voice # None
  BY DEF Voiced, Busy
<1>4. CASE S[s].type = 4
  <2>1. S[s].voice \in Bases /\ Uses(s) = {S[s].voice, S[s].voice + Span}
    BY <1>0, <1>4, UsesCases
  <2>2. conn_sel(S[s].voice) = {S[s].voice} /\ S[s].voice \in conn_shadow
    BY <1>4, <2>1, BaseBit DEF ConnMatches
  <2>3. ASSUME NEW q \in Voiced(T), S[q].type = 2, S[s].voice \in conn_sel(S[q].voice)
        PROVE  FALSE
    <3>1. S[q].voice \in Uses(s)
      BY <2>1, <2>3 DEF conn_sel
    <3>2. S[q].voice \in Uses(q)
      BY <1>0, <1>3, <2>3, UsesCases
    <3>3. q # s
      BY <1>4, <2>3
    <3> QED BY <1>0, <1>3, <3>1, <3>2, <3>3 DEF VoiceOwnership, Exclusive
  <2>4. S[s].voice \in Joined(Q)
    BY <1>2, <2>2, <2>3
  <2> QED BY <1>4, <2>2, <2>4
<1>5. CASE S[s].type # 4
  <2>1. S[s].type = 2 /\ Uses(s) = {S[s].voice}
    BY <1>0, <1>5, UsesCases, BusyRec
  <2>2. conn_sel(S[s].voice) \cap conn_shadow = {}
    BY <1>5 DEF ConnMatches
  <2>3. ASSUME NEW b, b \in conn_sel(S[s].voice), b \in Joined(Q)
        PROVE  FALSE
    <3>1. PICK q \in Voiced(T) : S[q].type = 4 /\ b \in conn_sel(S[q].voice)
      BY <1>1, <2>2, <2>3
    <3>2. S[q].voice \in Bases /\ Uses(q) = {S[q].voice, S[q].voice + Span}
      BY <1>0, <1>3, <3>1, UsesCases
    <3>3. b = S[q].voice
      BY <3>1, <3>2, BaseBit
    <3>4. S[s].voice \in Uses(q)
      BY <2>3, <3>2, <3>3 DEF conn_sel
    <3>5. q # s
      BY <2>1, <3>1
    <3> QED BY <1>0, <1>3, <2>1, <3>4, <3>5 DEF VoiceOwnership, Exclusive
  <2> QED BY <1>5, <2>3
<1> QED BY <1>4, <1>5

----------------------------------------------------------------------------
(* The inductive invariant, and the messages that only free slots. *)

IInv == TypeOK /\ VoiceOwnership /\ ConnMatches /\ NoStuckVoice /\ SustainHeld

(* A message that frees the slots R, rewrites those of T and keys on those *)
(* of K again.                                                             *)
LEMMA FreeStep ==
  ASSUME IInv, NEW R \in SUBSET Busy, NEW T \in SUBSET Busy,
         NEW K \in SUBSET (Slots \ R),
         S' = [s \in Slots |-> IF s \in R THEN Free ELSE S[s]],
         V_channel' = [v \in Voice |->
            IF v \in UNION {Uses(s) : s \in R} THEN None ELSE V_channel[v]],
         conn_shadow' = Joined({S[q] : q \in Voiced(T)}),
         key_on' = (key_on \ UNION {Uses(s) : s \in R}) \cup UNION {Uses(s) : s \in K},
         MIDI_voices' \in [Chans -> 0 .. ByteMod - 1],
         MIDI_sus' \subseteq Chans,
         UNCHANGED <<rover_2op, rover_4op>>,
         \A q \in Busy \ R : S[q].sustain = 1 => S[q].channel \in MIDI_sus'
  PROVE  IInv'
<1>0. TypeOK /\ VoiceOwnership /\ ConnMatches /\ NoStuckVoice /\ SustainHeld
      /\ PairsWhole /\ Exclusive
  BY DEF IInv, VoiceOwnership
<1>1. /\ VoiceOwnership'
      /\ \A s \in Slots : Uses(s)' = IF s \in R THEN {} ELSE Uses(s)
      /\ Busy' = Busy \ R
  <2>1. R \in SUBSET Slots
    BY DEF Busy
  <2> QED BY <1>0, <2>1, FreeKeepsOwnership
<1>2. TypeOK'
  <2>1. S' \in [Slots -> SlotRec \cup {Free}]
    BY <1>0 DEF TypeOK
  <2>2. V_channel' \in [Voice -> Chans \cup {None}]
    BY <1>0 DEF TypeOK
  <2>3. conn_shadow' \subseteq Bases
    BY <1>0 DEF Joined, conn_sel, TypeOK
  <2>4. \A s \in Slots : Uses(s) \subseteq Voice
    BY <1>0, UsesCases
  <2>5. key_on' \subseteq Voice
    BY <1>0, <2>4 DEF TypeOK
  <2> QED BY <1>0, <2>1, <2>2, <2>3, <2>5 DEF TypeOK
<1>3. ConnMatches'
  <2> SUFFICES ASSUME NEW s \in Busy', S'[s].voice # None
               PROVE  IF S'[s].type = 4
                      THEN conn_sel(S'[s].voice) \subseteq conn_shadow'
                      ELSE conn_sel(S'[s].voice) \cap conn_shadow' = {}
    BY DEF ConnMatches, conn_sel
  <2>1. s \in Busy /\ S'[s] = S[s]
    BY <1>1 DEF Busy
  <2> QED BY <1>0, <2>1, JoinedMatches
<1>4. NoStuckVoice'
  <2> SUFFICES ASSUME NEW v
               PROVE  v \in key_on' <=> \E s \in Slots : v \in Uses(s)'
    BY DEF NoStuckVoice
  <2>1. v \in key_on <=> \E s \in Slots : v \in Uses(s)
    BY <1>0 DEF NoStuckVoice
  <2>2. \A s, q \in Slots : s # q => Uses(s) \cap Uses(q) = {}
    BY <1>0 DEF Exclusive
  <2>3. v \in key_on' <=> \/ v \in key_on /\ \A s \in R : v \notin Uses(s)
                          \/ \E s \in K : v \in Uses(s)
    OBVIOUS
  <2>4. R \subseteq Slots
    BY DEF Busy
  <2> QED BY <1>1, <2>1, <2>2, <2>3, <2>4
<1>5. SustainHeld'
  <2>1. \A s \in Busy' : s \in Busy \ R /\ S'[s] = S[s]
    BY <1>1 DEF Busy
  <2> QED BY <2>1 DEF SustainHeld
<1> QED BY <1>1, <1>2, <1>3, <1>4, <1>5 DEF IInv

(* ReleaseSlots is such a step. *)
LEMMA ReleaseStep ==
  ASSUME IInv, NEW R \in SUBSET Busy, ReleaseSlots(R),
         MIDI_sus' \subseteq Chans,
         UNCHANGED <<rover_2op, rover_4op>>,
         \A q \in Busy \ R : S[q].sustain = 1 => S[q].channel \in MIDI_sus'
  PROVE  IInv'
<1>1. MIDI_voices' \in [Chans -> 0 .. ByteMod - 1]
  <2>1. \A c \in Chans : Cardinality({s \in Voiced(R) : S[s].channel = c}) \in Nat
    BY SlotCounts DEF Voiced, Busy
  <2>2. ASSUME NEW c \in Chans
        PROVE  (MIDI_voices[c] - Cardinality({s \in Voiced(R) : S[s].channel = c})) % ByteMod
                 \in 0 .. ByteMod - 1
    <3> DEFINE m == Cardinality({s \in Voiced(R) : S[s].channel = c})
    <3>1. m \in Nat
      BY <2>1
    <3>2. MIDI_voices[c] \in Int
      BY DEF IInv, TypeOK
    <3>3. ByteMod \in Nat \ {0}
      BY VoicesAssumption DEF VoicesAssumption
    <3> HIDE DEF m
    <3>4. MIDI_voices[c] - m \in Int
      BY <3>1, <3>2
    <3>5. ((MIDI_voices[c] - m) % ByteMod) \in 0 .. ByteMod - 1
      BY <3>3, <3>4, ModRange
    <3> QED BY <3>5 DEF m
  <2> QED BY <2>2 DEF ReleaseSlots
<1>2. key_on' = (key_on \ UNION {Uses(s) : s \in R}) \cup UNION {Uses(s) : s \in {}}
  BY DEF ReleaseSlots
<1>3. {} \in SUBSET (Slots \ R)
  OBVIOUS
<1> QED BY <1>1, <1>2, <1>3, FreeStep DEF ReleaseSlots

(* Marking slots as sustained changes nothing else. *)
LEMMA SustainStep ==
  ASSUME IInv, NEW c \in MIDI_sus, NEW T \in SUBSET On(c), Sustain(T),
         UNCHANGED <<V_channel, MIDI_voices, MIDI_sus, rover_2op, rover_4op,
                     conn_shadow, key_on>>
  PROVE  IInv'
<1>0. TypeOK /\ PairsWhole /\ Exclusive /\ Accounted /\ ConnMatches /\ NoStuckVoice
      /\ SustainHeld
  BY DEF IInv, VoiceOwnership
<1>1. \A s \in Slots : s \in T => S[s] \in SlotRec /\ S[s] # Free /\ S[s].channel = c
  BY <1>0, BusyRec DEF On
<1>2. \A s \in Slots : s \in T => /\ S'[s] \in SlotRec /\ S'[s] # Free
                                  /\ S'[s].type = S[s].type
                                  /\ S'[s].voice = S[s].voice
                                  /\ S'[s].channel = c
  BY <1>1, VoicesAssumption DEF VoicesAssumption, Sustain, SlotRec
<1>3. \A s \in Slots : s \notin T => S'[s] = S[s]
  BY DEF Sustain
<1>4. Busy' = Busy
  BY <1>1, <1>2, <1>3 DEF Busy
<1>5. \A s \in Slots : Uses(s)' = Uses(s)
  BY <1>1, <1>2, <1>3 DEF Uses, Halves
<1>6. \A s \in Busy : /\ s \in Slots /\ S'[s].type = S[s].type
                      /\ S'[s].voice = S[s].voice /\ S'[s].channel = S[s].channel
  BY <1>1, <1>2, <1>3 DEF Busy
<1>7. TypeOK'
  <2>1. S' \in [Slots -> SlotRec \cup {Free}]
    BY <1>0, <1>2, <1>3 DEF TypeOK, Sustain
  <2> QED BY <1>0, <2>1 DEF TypeOK
<1>8. VoiceOwnership'
  <2>1. PairsWhole'
    BY <1>0, <1>4, <1>6 DEF PairsWhole
  <2>2. Exclusive'
    BY <1>0, <1>5 DEF Exclusive
  <2>3. Accounted'
    BY <1>0, <1>4, <1>5, <1>6 DEF Accounted
  <2> QED BY <2>1, <2>2, <2>3 DEF VoiceOwnership
<1>9. ConnMatches'
  BY <1>0, <1>4, <1>6 DEF ConnMatches, conn_sel
<1>10. NoStuckVoice'
  BY <1>0, <1>5 DEF NoStuckVoice
<1>11. SustainHeld'
  BY <1>0, <1>2, <1>3, <1>4 DEF SustainHeld, Busy
<1> QED BY <1>7, <1>8, <1>9, <1>10, <1>11 DEF IInv

----------------------------------------------------------------------------
(* A note that starts. *)

(* What update_voice does to the connection bits for a single slot. *)
LEMMA JoinedOne ==
  ASSUME NEW r, r.type \in {2, 4}
  PROVE  Joined({r}) = IF r.type = 4 THEN conn_shadow \cup conn_sel(r.voice)
                                     ELSE conn_shadow \ conn_sel(r.voice)
<1>1. CASE r.type = 4
  <2>1. {q \in {r} : q.type = 4} = {r} /\ {q \in {r} : q.type = 2} = {}
    BY <1>1
  <2>2. \A b : b \in UNION {conn_sel(x.voice) : x \in {r}} <=> b \in conn_sel(r.voice)
    OBVIOUS
  <2>3. UNION {conn_sel(x.voice) : x \in {r}} = conn_sel(r.voice)
    BY <2>2
  <2>4. UNION {conn_sel(x.voice) : x \in {}} = {}
    OBVIOUS
  <2> QED BY <1>1, <2>1, <2>3, <2>4 DEF Joined
<1>2. CASE r.type = 2
  <2>1. {q \in {r} : q.type = 2} = {r} /\ {q \in {r} : q.type = 4} = {}
    BY <1>2
  <2>2. \A b : b \in UNION {conn_sel(x.voice) : x \in {r}} <=> b \in conn_sel(r.voice)
    OBVIOUS
  <2>3. UNION {conn_sel(x.voice) : x \in {r}} = conn_sel(r.voice)
    BY <2>2
  <2>4. UNION {conn_sel(x.voice) : x \in {}} = {}
    OBVIOUS
  <2> QED BY <1>2, <2>1, <2>3, <2>4 DEF Joined
<1> QED BY <1>1, <1>2

LEMMA StartStep ==
  ASSUME IInv, NEW s \in Slots \ Busy, NEW t \in {2, 4}, NEW c \in Chans,
         NEW n \in Keys, NEW v \in Voice \cup {None},
         Start(s, t, c, n, v),
         \A u \in Halves(t, v) : u \in Voice /\ V_channel[u] = None,
         t = 4 /\ v # None => v \in Bases,
         UNCHANGED MIDI_sus,
         rover_2op' \in Voice \cup {-1},
         rover_4op' \in Pairs \cup {-1}
  PROVE  IInv'
<1> DEFINE r == [type |-> t, voice |-> v, channel |-> c, key |-> n, sustain |-> 0]
<1>0. TypeOK /\ PairsWhole /\ Exclusive /\ Accounted /\ ConnMatches /\ NoStuckVoice
      /\ SustainHeld
  BY DEF IInv, VoiceOwnership
<1>1. r \in SlotRec /\ r # Free
  BY VoicesAssumption DEF VoicesAssumption, SlotRec
<1>2. S' = [S EXCEPT ![s] = r]
      /\ V_channel' = [u \in Voice |-> IF u \in Halves(t, v) THEN c ELSE V_channel[u]]
  BY DEF Start
<1>3. S'[s] = r /\ \A q \in Slots : q # s => S'[q] = S[q]
  BY <1>0, <1>2 DEF TypeOK
<1>4. Busy' = Busy \cup {s}
  BY <1>1, <1>3 DEF Busy
<1>5. Uses(s)' = Halves(t, v) /\ \A q \in Slots : q # s => Uses(q)' = Uses(q)
  BY <1>1, <1>3 DEF Uses
<1>6. Uses(s) = {}
  BY DEF Uses, Busy
<1>7. \A q \in Slots : Uses(q) \cap Halves(t, v) = {}
  <2> SUFFICES ASSUME NEW q \in Slots, NEW u \in Halves(t, v), u \in Uses(q)
               PROVE  FALSE
    OBVIOUS
  <2>1. u \in Voice /\ V_channel[u] = None
    OBVIOUS
  <2>2. PICK p \in Busy : u \in Uses(p) /\ V_channel[u] = S[p].channel
    BY <1>0, <2>1 DEF Accounted
  <2> QED BY <1>0, <2>1, <2>2, BusyRec, VoicesAssumption DEF VoicesAssumption
<1>8. PairsWhole'
  BY <1>0, <1>3, <1>4 DEF PairsWhole, Busy
<1>9. Exclusive'
  BY <1>0, <1>5, <1>7 DEF Exclusive
<1>10. Accounted'
  <2> SUFFICES ASSUME NEW u \in Voice
               PROVE  \/ V_channel'[u] = None /\ \A q \in Slots : u \notin Uses(q)'
                      \/ \E q \in Busy' : u \in Uses(q)' /\ V_channel'[u] = S'[q].channel
    BY DEF Accounted
  <2>1. CASE u \in Halves(t, v)
    BY <1>2, <1>3, <1>4, <1>5, <2>1
  <2>2. CASE u \notin Halves(t, v)
    <3>1. V_channel'[u] = V_channel[u]
      BY <1>2, <2>2
    <3>2. CASE V_channel[u] = None /\ \A q \in Slots : u \notin Uses(q)
      BY <1>5, <2>2, <3>1, <3>2
    <3>3. ASSUME NEW q \in Busy, u \in Uses(q), V_channel[u] = S[q].channel
          PROVE  q \in Busy' /\ u \in Uses(q)' /\ V_channel'[u] = S'[q].channel
      BY <1>3, <1>4, <1>5, <3>1, <3>3 DEF Busy
    <3> QED BY <1>0, <3>2, <3>3 DEF Accounted
  <2> QED BY <2>1, <2>2
<1>11. VoiceOwnership'
  BY <1>8, <1>9, <1>10 DEF VoiceOwnership
<1>12. ConnMatches'
  <2> SUFFICES ASSUME NEW q \in Busy', S'[q].voice # None
               PROVE  IF S'[q].type = 4
                      THEN conn_sel(S'[q].voice) \subseteq conn_shadow'
                      ELSE conn_sel(S'[q].voice) \cap conn_shadow' = {}
    BY DEF ConnMatches, conn_sel
  <2>1. conn_shadow' = IF v = None THEN conn_shadow ELSE Joined({r})
    BY DEF Start
  <2>2. v # None => conn_shadow' = IF t = 4 THEN conn_shadow \cup conn_sel(v)
                                            ELSE conn_shadow \ conn_sel(v)
    <3>1. r.type = t /\ r.voice = v
      OBVIOUS
    <3> HIDE DEF r
    <3> QED BY <2>1, <3>1, JoinedOne
  <2>3. CASE q = s
    BY <1>3, <2>2, <2>3
  <2>4. CASE q # s
    <3>1. q \in Busy /\ q \in Slots /\ S'[q] = S[q] /\ S[q].voice # None
      BY <1>3, <1>4, <2>4 DEF Busy
    <3>2. CASE v = None
      BY <1>0, <2>1, <3>1, <3>2 DEF ConnMatches
    <3>3. CASE v # None /\ S[q].type = 4
      <4>1. S[q].voice \in Bases /\ Uses(q) = {S[q].voice, S[q].voice + Span}
        BY <1>0, <3>1, <3>3, UsesCases
      <4>2. conn_sel(S[q].voice) = {S[q].voice} /\ S[q].voice \in conn_shadow
        BY <1>0, <3>1, <3>3, <4>1, BaseBit DEF ConnMatches
      <4>3. v \in Halves(t, v)
        BY <3>3 DEF Halves
      <4>4. S[q].voice \notin conn_sel(v)
        BY <1>7, <3>1, <4>1, <4>3 DEF conn_sel
      <4> QED BY <2>2, <3>1, <3>3, <4>2, <4>4
    <3>4. CASE v # None /\ S[q].type # 4
      <4>1. S[q].type = 2 /\ Uses(q) = {S[q].voice}
        BY <1>0, <3>1, <3>4, UsesCases, BusyRec
      <4>2. conn_sel(S[q].voice) \cap conn_shadow = {}
        BY <1>0, <3>1, <3>4 DEF ConnMatches
      <4>3. ASSUME t = 4 PROVE conn_sel(v) \cap conn_sel(S[q].voice) = {}
        <5>1. v \in Bases /\ Halves(t, v) = {v, v + Span}
          BY <3>4, <4>3 DEF Halves
        <5>2. conn_sel(v) = {v}
          BY <5>1, BaseBit
        <5> QED BY <1>7, <3>1, <4>1, <5>1, <5>2 DEF conn_sel
      <4> QED BY <2>2, <3>1, <3>4, <4>2, <4>3
    <3> QED BY <3>2, <3>3, <3>4
  <2> QED BY <2>3, <2>4
<1>13. NoStuckVoice'
  <2>1. key_on' = key_on \cup Halves(t, v)
    BY DEF Start
  <2> SUFFICES ASSUME NEW u
               PROVE  u \in key_on' <=> \E q \in Slots : u \in Uses(q)'
    BY DEF NoStuckVoice
  <2>2. u \in key_on <=> \E q \in Slots : u \in Uses(q)
    BY <1>0 DEF NoStuckVoice
  <2> QED BY <1>5, <1>6, <2>1, <2>2
<1>14. SustainHeld'
  BY <1>0, <1>3, <1>4 DEF SustainHeld, Busy
<1>15. TypeOK'
  <2>1. S' \in [Slots -> SlotRec \cup {Free}]
    BY <1>0, <1>1, <1>2 DEF TypeOK
  <2>2. V_channel' \in [Voice -> Chans \cup {None}]
    BY <1>0, <1>2 DEF TypeOK
  <2>3. MIDI_voices' \in [Chans -> 0 .. ByteMod - 1]
    <3>1. CASE v = None
      BY <1>0, <3>1 DEF TypeOK, Start
    <3>2. CASE v # None
      <4>1. MIDI_voices' = [MIDI_voices EXCEPT ![c] = (MIDI_voices[c] + 1) % ByteMod]
        BY <3>2 DEF Start
      <4>2. MIDI_voices[c] + 1 \in Int /\ ByteMod \in Nat \ {0}
        BY <1>0, VoicesAssumption DEF TypeOK, VoicesAssumption
      <4>3. ((MIDI_voices[c] + 1) % ByteMod) \in 0 .. ByteMod - 1
        BY <4>2, ModRange
      <4> QED BY <1>0, <4>1, <4>3 DEF TypeOK
    <3> QED BY <3>1, <3>2
  <2>4. conn_shadow' \subseteq Bases
    BY <1>0 DEF Start, Joined, conn_sel, TypeOK
  <2>5. key_on' \subseteq Voice
    BY <1>0 DEF Start, TypeOK
  <2> QED BY <1>0, <2>1, <2>2, <2>3, <2>4, <2>5 DEF TypeOK
<1> QED BY <1>11, <1>12, <1>13, <1>14, <1>15 DEF IInv

(* What assign_voice starts: a voice that is free and, for a four-operator *)
(* note, a pair of which both halves are free; or none.                    *)
LEMMA AssignStarts ==
  ASSUME TypeOK, NEW s, NEW t, NEW c, NEW n, assign_voice(s, t, c, n)
  PROVE  \E v \in Voice \cup {None} :
           /\ Start(s, t, c, n, v)
           /\ \A u \in Halves(t, v) : u \in Voice /\ V_channel[u] = None
           /\ t = 4 /\ v # None => v \in Bases
           /\ rover_2op' \in Voice \cup {-1}
           /\ rover_4op' \in Pairs \cup {-1}
<1>0. /\ NUM_PAIRS \in Nat \ {0} /\ NUM_VOICES \in Nat \ {0}
      /\ rover_4op \in Int /\ rover_2op \in Int
  BY VoicesAssumption DEF VoicesAssumption, TypeOK, Pairs, Voice
<1>1. CASE t = 4
  <2>1. PICK k \in 1 .. NUM_PAIRS :
          LET i == (rover_4op + k) % NUM_PAIRS IN
          /\ Start(s, t, c, n, IF i \in Free4 THEN op4_voice[i] ELSE None)
          /\ rover_4op' = i
          /\ rover_2op' = rover_2op
    BY <1>1 DEF assign_voice
  <2> DEFINE i == (rover_4op + k) % NUM_PAIRS
  <2>2. i \in Pairs
    <3>1. rover_4op + k \in Int
      BY <1>0
    <3> QED BY <1>0, <3>1, ModRange DEF Pairs
  <2>3. /\ Start(s, t, c, n, IF i \in Free4 THEN op4_voice[i] ELSE None)
        /\ rover_4op' = i /\ rover_2op' = rover_2op
    BY <2>1
  <2> HIDE DEF i
  <2>4. CASE i \in Free4
    <3>1. Halves(t, op4_voice[i]) \subseteq {op4_voice[i], op4_voice[i] + Span}
      BY <1>1 DEF Halves
    <3>2. op4_voice[i] \in Bases /\ op4_voice[i] \in Voice /\ op4_voice[i] + Span \in Voice
      BY <2>2, VoicesAssumption DEF VoicesAssumption, Bases
    <3>3. V_channel[op4_voice[i]] = None /\ V_channel[op4_voice[i] + Span] = None
      BY <2>4 DEF Free4
    <3> QED BY <2>2, <2>3, <2>4, <3>1, <3>2, <3>3 DEF TypeOK
  <2>5. CASE i \notin Free4
    BY <2>2, <2>3, <2>5 DEF TypeOK, Halves
  <2> QED BY <2>4, <2>5
<1>2. CASE t = 2
  <2>1. PICK k \in 1 .. NUM_VOICES :
          LET i == (rover_2op + k) % NUM_VOICES IN
          /\ Start(s, t, c, n, IF i \in Free2 THEN i ELSE None)
          /\ rover_2op' = i
          /\ rover_4op' = rover_4op
    BY <1>2 DEF assign_voice
  <2> DEFINE i == (rover_2op + k) % NUM_VOICES
  <2>2. i \in Voice
    <3>1. rover_2op + k \in Int
      BY <1>0
    <3> QED BY <1>0, <3>1, ModRange DEF Voice
  <2>3. /\ Start(s, t, c, n, IF i \in Free2 THEN i ELSE None)
        /\ rover_2op' = i /\ rover_4op' = rover_4op
    BY <2>1
  <2> HIDE DEF i
  <2>4. CASE i \in Free2
    <3>1. Halves(t, i) \subseteq {i} /\ V_channel[i] = None
      BY <1>2, <2>4 DEF Halves, Free2
    <3> QED BY <1>2, <2>2, <2>3, <2>4, <3>1 DEF TypeOK
  <2>5. CASE i \notin Free2
    BY <2>2, <2>3, <2>5 DEF TypeOK, Halves
  <2> QED BY <2>4, <2>5
<1> QED BY <1>1, <1>2 DEF assign_voice

----------------------------------------------------------------------------
(* The invariant holds initially and every message keeps it. *)

LEMMA InitIInv == Init => IInv
<1> SUFFICES ASSUME Init PROVE IInv
  OBVIOUS
<1>1. Busy = {} /\ \A s \in Slots : S[s] = Free /\ Uses(s) = {}
  BY DEF Init, Busy, Uses
<1>2. TypeOK
  BY VoicesAssumption DEF VoicesAssumption, Init, TypeOK
<1>3. VoiceOwnership
  BY <1>1 DEF Init, VoiceOwnership, PairsWhole, Exclusive, Accounted
<1>4. NoStuckVoice
  BY <1>1 DEF Init, NoStuckVoice
<1> QED BY <1>1, <1>2, <1>3, <1>4 DEF IInv, ConnMatches, SustainHeld

LEMMA ResetIInv == init_synth => IInv'
<1> SUFFICES ASSUME init_synth PROVE IInv'
  OBVIOUS
<1>1. Busy' = {} /\ \A s \in Slots : S'[s] = Free /\ Uses(s)' = {}
  BY DEF init_synth, Busy, Uses
<1>2. TypeOK'
  BY VoicesAssumption DEF VoicesAssumption, init_synth, TypeOK
<1>3. VoiceOwnership'
  BY <1>1 DEF init_synth, VoiceOwnership, PairsWhole, Exclusive, Accounted
<1>4. NoStuckVoice'
  BY <1>1 DEF init_synth, NoStuckVoice
<1> QED BY <1>1, <1>2, <1>3, <1>4 DEF IInv, ConnMatches, SustainHeld

LEMMA NoteOnIInv ==
  ASSUME IInv, NEW c \in Chans, NEW n \in Keys, note_on(c, n)
  PROVE  IInv'
<1>1. PICK s \in Slots \ Busy, t \in {2, 4} : assign_voice(s, t, c, n)
  BY DEF note_on
<1>2. TypeOK /\ MIDI_sus' = MIDI_sus
  BY DEF IInv, note_on
<1>3. PICK v \in Voice \cup {None} :
           /\ Start(s, t, c, n, v)
           /\ \A u \in Halves(t, v) : u \in Voice /\ V_channel[u] = None
           /\ t = 4 /\ v # None => v \in Bases
           /\ rover_2op' \in Voice \cup {-1}
           /\ rover_4op' \in Pairs \cup {-1}
  BY <1>1, <1>2, AssignStarts
<1> QED BY <1>1, <1>2, <1>3, StartStep

(* Keys going off, with the pedal up or down. *)
LEMMA KeysOffIInv ==
  ASSUME IInv, NEW c \in Chans, NEW T \in SUBSET On(c), KeysOff(c, T),
         UNCHANGED <<MIDI_sus, rover_2op, rover_4op>>
  PROVE  IInv'
<1>1. CASE c \in MIDI_sus
  BY <1>1, SustainStep DEF KeysOff
<1>2. CASE c \notin MIDI_sus
  <2>1. ReleaseSlots(T) /\ T \in SUBSET Busy
    BY <1>2 DEF KeysOff, On
  <2>2. MIDI_sus' \subseteq Chans
    BY DEF IInv, TypeOK
  <2>3. \A q \in Busy \ T : S[q].sustain = 1 => S[q].channel \in MIDI_sus'
    BY DEF IInv, SustainHeld
  <2> QED BY <2>1, <2>2, <2>3, ReleaseStep
<1> QED BY <1>1, <1>2

(* When the pedal of c comes up no sustained slot is left on c. *)
LEMMA PedalTakesAll ==
  ASSUME IInv, NEW c \in Chans, MIDI_sus' = MIDI_sus \ {c}
  PROVE  /\ PedalSlots(c) \in SUBSET Busy
         /\ MIDI_sus' \subseteq Chans
         /\ \A q \in Busy \ PedalSlots(c) :
              S[q].sustain = 1 => S[q].channel \in MIDI_sus'
<1>1. PedalSlots(c) \in SUBSET Busy
  BY DEF PedalSlots, On
<1>2. MIDI_sus' \subseteq Chans
  BY DEF IInv, TypeOK
<1>3. \A q \in Busy \ PedalSlots(c) :
        S[q].sustain = 1 => S[q].channel \in MIDI_sus'
  <2> SUFFICES ASSUME NEW q \in Busy, q \notin PedalSlots(c), S[q].sustain = 1
               PROVE  S[q].channel \in MIDI_sus'
    OBVIOUS
  <2>1. S[q].channel \in MIDI_sus
    BY DEF IInv, SustainHeld
  <2>2. S[q].channel # c
    BY DEF PedalSlots, On
  <2> QED BY <2>1, <2>2
<1> QED BY <1>1, <1>2, <1>3

LEMMA PedalUpIInv ==
  ASSUME IInv, NEW c \in Chans, pedal_up(c)
  PROVE  IInv'
<1>1. /\ MIDI_sus' = MIDI_sus \ {c} /\ ReleaseSlots(PedalSlots(c))
      /\ UNCHANGED <<rover_2op, rover_4op>>
  BY DEF pedal_up
<1> QED BY <1>1, PedalTakesAll, ReleaseStep

(* Who owns which voice depends on the slots and V_channel only. *)
LEMMA OwnershipStays ==
  ASSUME VoiceOwnership, UNCHANGED <<S, V_channel>>
  PROVE  /\ VoiceOwnership' /\ Busy' = Busy
         /\ \A s \in Slots : Uses(s)' = Uses(s)
<1>1. S' = S /\ V_channel' = V_channel
  OBVIOUS
<1>2. Busy' = Busy /\ \A s \in Slots : Uses(s)' = Uses(s)
  BY <1>1 DEF Busy, Uses
<1>3. PairsWhole'
  BY <1>1, <1>2 DEF VoiceOwnership, PairsWhole
<1>4. Exclusive'
  BY <1>2 DEF VoiceOwnership, Exclusive
<1>5. Accounted'
  <2>1. \A v \in Voice :
          \/ V_channel[v] = None /\ \A s \in Slots : v \notin Uses(s)
          \/ \E s \in Busy : v \in Uses(s) /\ V_channel[v] = S[s].channel
    BY DEF VoiceOwnership, Accounted
  <2>2. \A s \in Busy : s \in Slots
    BY DEF Busy
  <2> QED BY <1>1, <1>2, <2>1, <2>2 DEF Accounted
<1> QED BY <1>2, <1>3, <1>4, <1>5 DEF VoiceOwnership

LEMMA PedalDownIInv ==
  ASSUME IInv, NEW c \in Chans, pedal_down(c)
  PROVE  IInv'
<1>1. /\ MIDI_sus' = MIDI_sus \cup {c}
      /\ UNCHANGED <<S, V_channel, MIDI_voices, rover_2op, rover_4op,
                     conn_shadow, key_on>>
  BY DEF pedal_down
<1>2. TypeOK'
  BY <1>1 DEF IInv, TypeOK
<1>3. /\ VoiceOwnership' /\ Busy' = Busy
      /\ \A s \in Slots : Uses(s)' = Uses(s)
  BY <1>1, OwnershipStays DEF IInv
<1>5. ConnMatches'
  BY <1>1, <1>3 DEF IInv, ConnMatches, conn_sel
<1>6. NoStuckVoice'
  BY <1>1, <1>3 DEF IInv, NoStuckVoice
<1>7. SustainHeld'
  BY <1>1, <1>3 DEF IInv, SustainHeld
<1> QED BY <1>2, <1>3, <1>5, <1>6, <1>7 DEF IInv

LEMMA ResetControllersIInv ==
  ASSUME IInv, NEW c \in Chans, reset_all_controllers(c)
  PROVE  IInv'
<1> DEFINE R == PedalSlots(c)
           K == Voiced(On(c) \ R)
<1>1. /\ MIDI_sus' = MIDI_sus \ {c}
      /\ S' = [s \in Slots |-> IF s \in R THEN Free ELSE S[s]]
      /\ V_channel' = [v \in Voice |->
           IF v \in UNION {Uses(s) : s \in R} THEN None ELSE V_channel[v]]
      /\ MIDI_voices' = [MIDI_voices EXCEPT ![c] =
           (MIDI_voices[c] - Cardinality(Voiced(R))) % ByteMod]
      /\ conn_shadow' = Joined({S[s] : s \in Voiced(On(c))})
      /\ key_on' = (key_on \ UNION {Uses(s) : s \in R}) \cup UNION {Uses(s) : s \in K}
      /\ UNCHANGED <<rover_2op, rover_4op>>
  BY DEF reset_all_controllers
<1>2. /\ R \in SUBSET Busy /\ MIDI_sus' \subseteq Chans
      /\ \A q \in Busy \ R : S[q].sustain = 1 => S[q].channel \in MIDI_sus'
  BY <1>1, PedalTakesAll
<1>3. On(c) \in SUBSET Busy /\ K \in SUBSET (Slots \ R)
  BY DEF On, Voiced, Busy
<1>4. MIDI_voices' \in [Chans -> 0 .. ByteMod - 1]
  <2> DEFINE m == Cardinality(Voiced(R))
  <2>1. m \in Nat
    BY <1>2, SlotCounts DEF Voiced, Busy
  <2>2. MIDI_voices \in [Chans -> 0 .. ByteMod - 1] /\ MIDI_voices[c] \in Int
        /\ ByteMod \in Nat \ {0}
    BY VoicesAssumption DEF VoicesAssumption, IInv, TypeOK
  <2>3. MIDI_voices' = [MIDI_voices EXCEPT ![c] = (MIDI_voices[c] - m) % ByteMod]
    BY <1>1
  <2> HIDE DEF m
  <2>4. MIDI_voices[c] - m \in Int
    BY <2>1, <2>2
  <2>5. ((MIDI_voices[c] - m) % ByteMod) \in 0 .. ByteMod - 1
    BY <2>2, <2>4, ModRange
  <2> QED BY <2>2, <2>3, <2>5
<1> HIDE DEF R, K
<1> QED BY <1>1, <1>2, <1>3, <1>4, FreeStep

LEMMA RefreshIInv ==
  ASSUME IInv, NEW c \in Chans, refresh(c)
  PROVE  IInv'
<1>1. /\ conn_shadow' = Joined({S[s] : s \in Voiced(On(c))})
      /\ UNCHANGED <<S, V_channel, MIDI_voices, MIDI_sus, rover_2op, rover_4op>>
      /\ \/ key_on' = key_on
         \/ key_on' = key_on \cup UNION {Uses(s) : s \in On(c)}
  BY DEF refresh
<1>2. PICK K \in {{}, On(c)} : key_on' = key_on \cup UNION {Uses(s) : s \in K}
  BY <1>1
<1>3. /\ {} \in SUBSET Busy /\ On(c) \in SUBSET Busy
      /\ K \in SUBSET (Slots \ {})
  BY DEF On, Busy
<1>4. /\ S' = [s \in Slots |-> IF s \in {} THEN Free ELSE S[s]]
      /\ V_channel' = [v \in Voice |->
           IF v \in UNION {Uses(s) : s \in {}} THEN None ELSE V_channel[v]]
      /\ MIDI_voices' \in [Chans -> 0 .. ByteMod - 1]
      /\ MIDI_sus' \subseteq Chans
  BY <1>1 DEF IInv, TypeOK
<1>5. key_on' = (key_on \ UNION {Uses(s) : s \in {}}) \cup UNION {Uses(s) : s \in K}
  BY <1>2
<1>6. \A q \in Busy \ {} : S[q].sustain = 1 => S[q].channel \in MIDI_sus'
  BY <1>1 DEF IInv, SustainHeld
<1> QED BY <1>1, <1>3, <1>4, <1>5, <1>6, FreeStep

LEMMA StutterIInv == IInv /\ UNCHANGED vars => IInv'
<1> SUFFICES ASSUME IInv, UNCHANGED vars PROVE IInv'
  OBVIOUS
<1>1. /\ S' = S /\ V_channel' = V_channel /\ MIDI_voices' = MIDI_voices
      /\ MIDI_sus' = MIDI_sus /\ rover_2op' = rover_2op /\ rover_4op' = rover_4op
      /\ conn_shadow' = conn_shadow /\ key_on' = key_on
  BY DEF vars
<1>2. /\ VoiceOwnership' /\ Busy' = Busy
      /\ \A s \in Slots : Uses(s)' = Uses(s)
  BY <1>1, OwnershipStays DEF IInv
<1>3. TypeOK'
  BY <1>1 DEF IInv, TypeOK
<1>5. ConnMatches'
  BY <1>1, <1>2 DEF IInv, ConnMatches, conn_sel
<1>6. NoStuckVoice' /\ SustainHeld'
  BY <1>1, <1>2 DEF IInv, NoStuckVoice, SustainHeld
<1> QED BY <1>2, <1>3, <1>5, <1>6 DEF IInv

LEMMA NextIInv == IInv /\ [Next]_vars => IInv'
<1> SUFFICES ASSUME IInv, [Next]_vars PROVE IInv'
  OBVIOUS
<1>1. CASE init_synth
  BY <1>1, ResetIInv
<1>2. ASSUME NEW c \in Chans, NEW n \in Keys, note_on(c, n) PROVE IInv'
  BY <1>2, NoteOnIInv
<1>3. ASSUME NEW c \in Chans, NEW n \in Keys, note_off(c, n) PROVE IInv'
  <2>1. WithKey(c, n) \in SUBSET On(c)
    BY DEF WithKey
  <2> QED BY <1>3, <2>1, KeysOffIInv DEF note_off
<1>4. ASSUME NEW c \in Chans, all_notes_off(c) PROVE IInv'
  <2>1. On(c) \in SUBSET On(c)
    OBVIOUS
  <2> QED BY <1>4, <2>1, KeysOffIInv DEF all_notes_off
<1>5. ASSUME NEW c \in Chans, pedal_down(c) PROVE IInv'
  BY <1>5, PedalDownIInv
<1>6. ASSUME NEW c \in Chans, pedal_up(c) PROVE IInv'
  BY <1>6, PedalUpIInv
<1>7. ASSUME NEW c \in Chans, reset_all_controllers(c) PROVE IInv'
  BY <1>7, ResetControllersIInv
<1>8. ASSUME NEW c \in Chans, refresh(c) PROVE IInv'
  BY <1>8, RefreshIInv
<1>9. CASE UNCHANGED vars
  BY <1>9, StutterIInv
<1> QED BY <1>1, <1>2, <1>3, <1>4, <1>5, <1>6, <1>7, <1>8, <1>9 DEF Next, Message

LEMMA Inductive == Spec => []IInv
<1> QED BY InitIInv, NextIInv, PTL DEF Spec

----------------------------------------------------------------------------
(* The search of the rovers is complete. *)

(* A search that ends on a taken place has seen every place taken.         *)
LEMMA SearchComplete ==
  ASSUME NEW n \in Nat \ {0}, NEW r \in 0 .. n - 1 \cup {-1}, NEW F,
         NEW k \in 1 .. n, Stops(r, n, F, k), (r + k) % n \notin F
  PROVE  \A v \in 0 .. n - 1 : v \notin F
<1> SUFFICES ASSUME NEW v \in 0 .. n - 1 PROVE v \notin F
  OBVIOUS
<1>1. k = n /\ \A j \in 1 .. k - 1 : (r + j) % n \notin F
  BY DEF Stops
<1>2. PICK j \in 1 .. n : (r + j) % n = v
  BY TurnVisits
<1>3. j = k \/ j \in 1 .. k - 1
  BY <1>1
<1> QED BY <1>1, <1>2, <1>3

LEMMA AssignIdle ==
  ASSUME TypeOK, NEW s \in Slots, NEW t, NEW c, NEW n,
         assign_voice(s, t, c, n), S'[s].voice = None
  PROVE  IF S'[s].type = 4
         THEN \A b \in Bases : V_channel[b] # None \/ V_channel[b + Span] # None
         ELSE \A v \in Voice : V_channel[v] # None
<1>0. /\ NUM_PAIRS \in Nat \ {0} /\ NUM_VOICES \in Nat \ {0}
      /\ rover_4op \in 0 .. NUM_PAIRS - 1 \cup {-1}
      /\ rover_2op \in 0 .. NUM_VOICES - 1 \cup {-1}
  BY VoicesAssumption DEF VoicesAssumption, TypeOK, Pairs, Voice
<1>1. ASSUME NEW v, Start(s, t, c, n, v) PROVE S'[s].voice = v /\ S'[s].type = t
  BY <1>1 DEF Start, TypeOK
<1>2. CASE t = 4
  <2>1. PICK k \in 1 .. NUM_PAIRS :
          /\ Stops(rover_4op, NUM_PAIRS, Free4, k)
          /\ Start(s, t, c, n, IF (rover_4op + k) % NUM_PAIRS \in Free4
                               THEN op4_voice[(rover_4op + k) % NUM_PAIRS] ELSE None)
    BY <1>2 DEF assign_voice
  <2>2. (rover_4op + k) % NUM_PAIRS \notin Free4
    <3>1. SUFFICES ASSUME (rover_4op + k) % NUM_PAIRS \in Free4 PROVE FALSE
      OBVIOUS
    <3>2. op4_voice[(rover_4op + k) % NUM_PAIRS] = None
      BY <1>1, <2>1, <3>1
    <3>3. op4_voice[(rover_4op + k) % NUM_PAIRS] \in Voice
      BY <3>1, VoicesAssumption DEF VoicesAssumption, Free4
    <3> QED BY <3>2, <3>3 DEF Voice, None
  <2>3. \A i \in Pairs : i \notin Free4
    BY <1>0, <2>1, <2>2, SearchComplete DEF Pairs
  <2>4. S'[s].type = 4
    BY <1>1, <1>2, <2>1
  <2>5. \A b \in Bases : V_channel[b] # None \/ V_channel[b + Span] # None
    BY <2>3 DEF Bases, Free4
  <2> QED BY <2>4, <2>5
<1>3. CASE t = 2
  <2>1. PICK k \in 1 .. NUM_VOICES :
          /\ Stops(rover_2op, NUM_VOICES, Free2, k)
          /\ Start(s, t, c, n, IF (rover_2op + k) % NUM_VOICES \in Free2
                               THEN (rover_2op + k) % NUM_VOICES ELSE None)
    BY <1>3 DEF assign_voice
  <2>2. (rover_2op + k) % NUM_VOICES \notin Free2
    <3>1. SUFFICES ASSUME (rover_2op + k) % NUM_VOICES \in Free2 PROVE FALSE
      OBVIOUS
    <3>2. (rover_2op + k) % NUM_VOICES = None
      BY <1>1, <2>1, <3>1
    <3>3. (rover_2op + k) % NUM_VOICES \in Voice
      BY <3>1 DEF Free2
    <3> QED BY <3>2, <3>3 DEF Voice, None
  <2>3. \A v \in Voice : v \notin Free2
    BY <1>0, <2>1, <2>2, SearchComplete DEF Voice
  <2>4. S'[s].type = 2
    BY <1>1, <1>3, <2>1
  <2>5. \A v \in Voice : V_channel[v] # None
    BY <2>3 DEF Free2
  <2> QED BY <2>4, <2>5
<1> QED BY <1>2, <1>3 DEF assign_voice

(* Only note_on fills a free slot. *)
LEMMA FilledByNoteOn ==
  ASSUME TypeOK, [Next]_vars, NEW s \in Slots, S[s] = Free, S'[s] # Free
  PROVE  \E c \in Chans, n \in Keys, t \in {2, 4} : assign_voice(s, t, c, n)
<1>0. s \notin Busy
  BY DEF Busy
<1>1. ASSUME NEW c \in Chans, NEW n \in Keys, note_on(c, n)
      PROVE  \E t \in {2, 4} : assign_voice(s, t, c, n)
  <2>1. PICK q \in Slots \ Busy, t \in {2, 4} : assign_voice(q, t, c, n)
    BY <1>1 DEF note_on
  <2>2. PICK v \in Voice \cup {None} : Start(q, t, c, n, v)
    BY <2>1, AssignStarts
  <2>3. q = s
    BY <2>2 DEF Start, TypeOK
  <2> QED BY <2>1, <2>3
<1>2. ASSUME NEW c \in Chans, NEW T \in SUBSET On(c), KeysOff(c, T) PROVE FALSE
  <2>1. s \notin T
    BY <1>0 DEF On
  <2>2. S'[s] = S[s]
    BY <1>2, <2>1 DEF KeysOff, Sustain, ReleaseSlots
  <2> QED BY <2>2
<1>3. ASSUME NEW c \in Chans, NEW n \in Keys, note_off(c, n) PROVE FALSE
  <2>1. WithKey(c, n) \in SUBSET On(c)
    BY DEF WithKey
  <2> QED BY <1>2, <1>3, <2>1 DEF note_off
<1>4. ASSUME NEW c \in Chans, all_notes_off(c) PROVE FALSE
  <2>1. On(c) \in SUBSET On(c)
    OBVIOUS
  <2> QED BY <1>2, <1>4, <2>1 DEF all_notes_off
<1>5. ASSUME NEW c \in Chans, pedal_up(c) \/ reset_all_controllers(c) PROVE FALSE
  BY <1>5 DEF pedal_up, reset_all_controllers, ReleaseSlots
<1>6. ASSUME NEW c \in Chans, pedal_down(c) \/ refresh(c) PROVE FALSE
  BY <1>6 DEF pedal_down, refresh
<1>7. CASE init_synth
  BY <1>7 DEF init_synth
<1>8. CASE UNCHANGED vars
  BY <1>8 DEF vars
<1> QED BY <1>1, <1>3, <1>4, <1>5, <1>6, <1>7, <1>8 DEF Next, Message

----------------------------------------------------------------------------
(* The theorems. *)

(* The allocator's arrays, rovers and byte counters keep their types       *)
(* whatever MIDI messages arrive.                                          *)
THEOREM TypeCorrect == Spec => []TypeOK
<1>1. IInv => TypeOK
  BY DEF IInv
<1> QED BY <1>1, Inductive, PTL

(* No voice, and no half of a pair, ever serves two slots, and V_channel   *)
(* says of every voice exactly what the slots say.                         *)
THEOREM OwnershipAlways == Spec => []VoiceOwnership
<1>1. IInv => VoiceOwnership
  BY DEF IInv
<1> QED BY <1>1, Inductive, PTL

(* The connection-select register always agrees with the notes playing,    *)
(* although released notes leave their bits behind, and the key-on bits of *)
(* the chip are always those of the busy slots.                            *)
THEOREM HardwareMatchesAlways == Spec => []HardwareMatches
<1>1. IInv => HardwareMatches
  BY DEF IInv, HardwareMatches
<1> QED BY <1>1, Inductive, PTL

(* A note is held by the pedal only where the pedal is down.               *)
THEOREM SustainHeldAlways == Spec => []SustainHeld
<1>1. IInv => SustainHeld
  BY DEF IInv
<1> QED BY <1>1, Inductive, PTL

(* A note stays without a voice only when every voice, or one half of every*)
(* pair, was taken: the search that starts after the rover misses none.    *)
THEOREM NoVoiceIdleAlways == Spec => NoVoiceIdle
<1>1. TypeOK /\ [Next]_vars =>
        [\A s \in Slots :
           S[s] = Free /\ S'[s] # Free /\ S'[s].voice = None =>
             IF S'[s].type = 4
             THEN \A b \in Bases : V_channel[b] # None \/ V_channel[b + Span] # None
             ELSE \A v \in Voice : V_channel[v] # None]_vars
  BY FilledByNoteOn, AssignIdle
<1> QED BY <1>1, TypeCorrect, PTL DEF Spec, NoVoiceIdle

----------------------------------------------------------------------------
(* The allocator implements the pool. *)

(* Messages that free the slots R return what they hold, all at once. *)
LEMMA FreeReturns ==
  ASSUME NEW R \in SUBSET Slots,
         S' = [s \in Slots |-> IF s \in R THEN Free ELSE S[s]]
  PROVE  Pool!Next
<1>1. \A s \in Slots : Uses(s)' = IF s \in R THEN {} ELSE Uses(s)
  BY DEF Uses
<1>2. Pool!Return(R)
  BY <1>1 DEF Pool!Return
<1> QED BY <1>2 DEF Pool!Next

(* A note that starts is granted a voice or a pair nobody holds, or starts *)
(* without one and the pool stutters.                                      *)
LEMMA StartGrants ==
  ASSUME IInv, NEW s \in Slots \ Busy, NEW t \in {2, 4}, NEW c \in Chans,
         NEW n \in Keys, NEW v \in Voice \cup {None},
         Start(s, t, c, n, v),
         \A u \in Halves(t, v) : u \in Voice /\ V_channel[u] = None,
         t = 4 /\ v # None => v \in Bases
  PROVE  Pool!Next \/ UNCHANGED [q \in Slots |-> Uses(q)]
<1>0. TypeOK /\ Accounted
  BY DEF IInv, VoiceOwnership
<1>1. /\ S'[s].type = t /\ S'[s].voice = v /\ S'[s] # Free
      /\ \A q \in Slots : q # s => S'[q] = S[q]
  BY <1>0, VoicesAssumption DEF VoicesAssumption, Start, TypeOK, SlotRec
<1>2. Uses(s)' = Halves(t, v) /\ \A q \in Slots : q # s => Uses(q)' = Uses(q)
  BY <1>1 DEF Uses
<1>3. Uses(s) = {} /\ s \in Slots
  BY DEF Uses, Busy
<1>4. CASE v = None
  <2>1. \A q \in Slots : Uses(q)' = Uses(q)
    BY <1>2, <1>3, <1>4 DEF Halves
  <2> QED BY <2>1
<1>5. CASE v # None
  <2>1. Halves(t, v) \in {{u} : u \in Voice} \cup {{b, b + Span} : b \in Bases}
    BY <1>5 DEF Halves
  <2>2. ASSUME NEW q \in Slots, NEW u \in Halves(t, v), u \in Uses(q) PROVE FALSE
    <3>1. PICK p \in Busy : V_channel[u] = S[p].channel
      BY <1>0, <2>2 DEF Accounted
    <3> QED BY <1>0, <3>1, BusyRec, VoicesAssumption DEF VoicesAssumption
  <2> DEFINE held == [q \in Slots |-> Uses(q)]
  <2>3. Halves(t, v) \cap UNION {held[q] : q \in Slots} = {}
    BY <2>2
  <2>4. held' = [held EXCEPT ![s] = Halves(t, v)] /\ held[s] = {}
    BY <1>2, <1>3
  <2> HIDE DEF held
  <2>5. Pool!Grant(s)
    <3>1. \E U \in {{u} : u \in Voice} \cup {{b, b + Span} : b \in Bases} :
            /\ U \cap UNION {held[q] : q \in Slots} = {}
            /\ held' = [held EXCEPT ![s] = U]
      BY <2>1, <2>3, <2>4
    <3> QED BY <2>4, <3>1 DEF Pool!Grant, Pool!InUse, held
  <2> QED BY <1>3, <2>5 DEF Pool!Next
<1> QED BY <1>4, <1>5

LEMMA StepImplements ==
  ASSUME IInv, [Next]_vars
  PROVE  Pool!Next \/ UNCHANGED [s \in Slots |-> Uses(s)]
<1> DEFINE Goal == Pool!Next \/ UNCHANGED [s \in Slots |-> Uses(s)]
<1>0. TypeOK
  BY DEF IInv
<1>1. ASSUME NEW c \in Chans, NEW n \in Keys, note_on(c, n) PROVE Goal
  <2>1. PICK s \in Slots \ Busy, t \in {2, 4} : assign_voice(s, t, c, n)
    BY <1>1 DEF note_on
  <2>2. PICK v \in Voice \cup {None} :
           /\ Start(s, t, c, n, v)
           /\ \A u \in Halves(t, v) : u \in Voice /\ V_channel[u] = None
           /\ t = 4 /\ v # None => v \in Bases
    BY <1>0, <2>1, AssignStarts
  <2> QED BY <2>2, StartGrants
<1>2. ASSUME S' = S PROVE Goal
  <2>1. \A s \in Slots : Uses(s)' = Uses(s)
    BY <1>2 DEF Uses
  <2> QED BY <2>1
<1>3. ASSUME NEW c \in Chans, NEW T \in SUBSET On(c), KeysOff(c, T) PROVE Goal
  <2>1. CASE c \in MIDI_sus
    <3>1. S' = [s \in Slots |-> IF s \in T THEN [S[s] EXCEPT !.sustain = 1] ELSE S[s]]
      BY <1>3, <2>1 DEF KeysOff, Sustain
    <3>2. ASSUME NEW s \in T
          PROVE  /\ S[s] # Free /\ S'[s] # Free
                 /\ S'[s].type = S[s].type /\ S'[s].voice = S[s].voice
      <4>1. s \in Slots /\ S[s] \in SlotRec /\ S[s] # Free
        BY <1>0, BusyRec DEF On
      <4>2. S'[s] = [S[s] EXCEPT !.sustain = 1]
        BY <3>1, <4>1
      <4>3. S'[s] \in SlotRec
        BY <4>1, <4>2 DEF SlotRec
      <4> QED
        BY <4>1, <4>2, <4>3, VoicesAssumption DEF VoicesAssumption, SlotRec
    <3>3. \A s \in Slots : s \notin T => S'[s] = S[s]
      BY <3>1
    <3>4. \A s \in Slots : Uses(s)' = Uses(s)
      BY <3>2, <3>3 DEF Uses
    <3> QED BY <3>4
  <2>2. CASE c \notin MIDI_sus
    <3>1. T \in SUBSET Slots
      BY DEF On, Busy
    <3> QED BY <1>3, <2>2, <3>1, FreeReturns DEF KeysOff, ReleaseSlots
  <2> QED BY <2>1, <2>2
<1>4. ASSUME NEW c \in Chans, NEW n \in Keys, note_off(c, n) PROVE Goal
  <2>1. WithKey(c, n) \in SUBSET On(c)
    BY DEF WithKey
  <2> QED BY <1>3, <1>4, <2>1 DEF note_off
<1>5. ASSUME NEW c \in Chans, all_notes_off(c) PROVE Goal
  <2>1. On(c) \in SUBSET On(c)
    OBVIOUS
  <2> QED BY <1>3, <1>5, <2>1 DEF all_notes_off
<1>6. ASSUME NEW c \in Chans, pedal_up(c) \/ reset_all_controllers(c) PROVE Goal
  <2>1. PedalSlots(c) \in SUBSET Slots
    BY DEF PedalSlots, On, Busy
  <2>2. S' = [s \in Slots |-> IF s \in PedalSlots(c) THEN Free ELSE S[s]]
    BY <1>6 DEF pedal_up, reset_all_controllers, ReleaseSlots
  <2> QED BY <2>1, <2>2, FreeReturns
<1>7. ASSUME NEW c \in Chans, pedal_down(c) \/ refresh(c) PROVE Goal
  <2>1. S' = S
    BY <1>7 DEF pedal_down, refresh
  <2> QED BY <1>2, <2>1
<1>8. CASE init_synth
  <2>1. S' = [s \in Slots |-> IF s \in Slots THEN Free ELSE S[s]]
    BY <1>8 DEF init_synth
  <2> QED BY <2>1, FreeReturns
<1>9. CASE UNCHANGED vars
  BY <1>2, <1>9 DEF vars
<1> QED BY <1>1, <1>4, <1>5, <1>6, <1>7, <1>8, <1>9 DEF Next, Message

(* The Yamaha voice allocator implements the abstract pool: voices are     *)
(* granted singly or in whole pairs, never to two slots, and a slot gives  *)
(* back all it holds at once.                                              *)
THEOREM AllocatorImplementsPool == Spec => ImplementsPool
<1>1. Init => Pool!Init
  <2> SUFFICES ASSUME Init PROVE Pool!Init
    OBVIOUS
  <2>1. \A s \in Slots : Uses(s) = {}
    BY DEF Init, Uses
  <2> QED BY <2>1 DEF Pool!Init
<1>2. IInv /\ [Next]_vars => [Pool!Next]_[s \in Slots |-> Uses(s)]
  BY StepImplements
<1> QED BY <1>1, <1>2, Inductive, PTL DEF Spec, ImplementsPool, Pool!Spec

----------------------------------------------------------------------------
(* The counts of voices per channel. *)

(* Sets of slots are finite and have at most as many elements as there are *)
(* slots, which a byte can hold.                                           *)
LEMMA CountBound ==
  ASSUME NEW T \in SUBSET Slots
  PROVE  IsFiniteSet(T) /\ Cardinality(T) \in 0 .. NUM_SLOTS
<1>1. IsFiniteSet(Slots) /\ Cardinality(Slots) = NUM_SLOTS /\ NUM_SLOTS \in Nat
  BY FS_Interval, VoicesAssumption DEF VoicesAssumption, Slots
<1>2. IsFiniteSet(T) /\ Cardinality(T) <= NUM_SLOTS /\ Cardinality(T) \in Nat
  BY <1>1, FS_Subset, FS_CardinalityType
<1> QED BY <1>1, <1>2

(* A byte holds a number below 2^8 as it is. *)
LEMMA ByteHolds ==
  ASSUME NEW n \in 0 .. NUM_SLOTS
  PROVE  (n % ByteMod) = n
<1>1. n \in 0 .. ByteMod - 1 /\ ByteMod \in Nat \ {0}
  BY VoicesAssumption DEF VoicesAssumption
<1> QED BY <1>1

(* The voiced slots of channel c that are in R are those of the channel    *)
(* that go when the slots R are freed, and the count follows.              *)
LEMMA FreeCounts ==
  ASSUME TypeOK, VoiceCount, NEW R \in SUBSET Busy, NEW c \in Chans,
         S' = [s \in Slots |-> IF s \in R THEN Free ELSE S[s]]
  PROVE  (MIDI_voices[c] - Cardinality({s \in Voiced(R) : S[s].channel = c})) % ByteMod
           = Cardinality(Voiced(On(c))')
<1> DEFINE A == Voiced(On(c))
           B == {s \in Voiced(R) : S[s].channel = c}
<1>1. B \subseteq A /\ A \cap B = B
  BY DEF Voiced, On
<1>2. Voiced(On(c))' = A \ B
  BY DEF Voiced, On, Busy
<1>3. A \in SUBSET Slots /\ A \ B \in SUBSET Slots
  BY DEF Voiced, On, Busy
<1>4. MIDI_voices[c] = Cardinality(A)
  BY DEF VoiceCount
<1> HIDE DEF A, B
<1>5. Cardinality(A \ B) = Cardinality(A) - Cardinality(B)
  BY <1>1, <1>3, CountBound, FS_Difference
<1>6. (Cardinality(A \ B) % ByteMod) = Cardinality(A \ B)
  BY <1>3, CountBound, ByteHolds
<1>7. (MIDI_voices[c] - Cardinality(B)) % ByteMod = Cardinality(Voiced(On(c))')
  BY <1>2, <1>4, <1>5, <1>6
<1> QED BY <1>7 DEF B

(* A slot that only gets its sustain mark counts as before. *)
LEMMA SustainCounts ==
  ASSUME TypeOK, VoiceCount, NEW c \in Chans, NEW T \in SUBSET On(c), Sustain(T),
         UNCHANGED MIDI_voices
  PROVE  VoiceCount'
<1>1. \A s \in T : s \in Slots /\ S[s] \in SlotRec /\ S[s] # Free
  BY BusyRec DEF On
<1>2. \A s \in T : /\ S'[s] \in SlotRec /\ S'[s] # Free
                   /\ S'[s].voice = S[s].voice /\ S'[s].channel = S[s].channel
  BY <1>1, VoicesAssumption DEF VoicesAssumption, Sustain, SlotRec
<1>3. \A s \in Slots : s \notin T => S'[s] = S[s]
  BY DEF Sustain
<1>4. ASSUME NEW d \in Chans PROVE Voiced(On(d))' = Voiced(On(d))
  BY <1>1, <1>2, <1>3 DEF Voiced, On, Busy
<1> QED BY <1>4 DEF VoiceCount

LEMMA ReleaseCounts ==
  ASSUME TypeOK, VoiceCount, NEW R \in SUBSET Busy, ReleaseSlots(R)
  PROVE  VoiceCount'
  BY FreeCounts DEF ReleaseSlots, VoiceCount

(* A note that starts with a voice counts one more on its channel, one     *)
(* that starts without counts nothing.                                     *)
LEMMA StartCounts ==
  ASSUME TypeOK, VoiceCount, NEW s \in Slots \ Busy, NEW t \in {2, 4}, NEW c \in Chans,
         NEW n \in Keys, NEW v \in Voice \cup {None}, Start(s, t, c, n, v)
  PROVE  VoiceCount'
<1> DEFINE r == [type |-> t, voice |-> v, channel |-> c, key |-> n, sustain |-> 0]
<1>1. r \in SlotRec /\ r # Free
  BY VoicesAssumption DEF VoicesAssumption, SlotRec
<1>2. S' = [S EXCEPT ![s] = r]
  BY DEF Start
<1>3. S'[s] = r /\ \A q \in Slots : q # s => S'[q] = S[q]
  BY <1>2 DEF TypeOK
<1>4. r.voice = v /\ r.channel = c
  OBVIOUS
<1>5. Busy' = Busy \cup {s}
  BY <1>1, <1>3 DEF Busy
<1> HIDE DEF r
<1> SUFFICES ASSUME NEW d \in Chans
             PROVE  MIDI_voices'[d] = Cardinality(Voiced(On(d))')
  BY DEF VoiceCount
<1> DEFINE A == Voiced(On(d))
<1>6. A \in SUBSET Slots /\ s \notin A /\ MIDI_voices[d] = Cardinality(A)
  BY DEF Voiced, On, Busy, VoiceCount
<1>7. CASE v # None /\ d = c
  <2>1. Voiced(On(d))' = A \cup {s}
    BY <1>3, <1>4, <1>5, <1>7 DEF Voiced, On, Busy
  <2>2. A \cup {s} \in SUBSET Slots
    BY <1>6
  <2> HIDE DEF A
  <2>3. Cardinality(A \cup {s}) = Cardinality(A) + 1
    BY <1>6, CountBound, FS_AddElement
  <2>4. (Cardinality(A \cup {s}) % ByteMod) = Cardinality(A \cup {s})
    BY <2>2, CountBound, ByteHolds
  <2>5. MIDI_voices'[d] = (MIDI_voices[d] + 1) % ByteMod
    BY <1>7 DEF Start, TypeOK
  <2> QED BY <1>6, <2>1, <2>3, <2>4, <2>5
<1>8. CASE v = None \/ d # c
  <2>1. Voiced(On(d))' = A
    BY <1>3, <1>4, <1>5, <1>8 DEF Voiced, On, Busy
  <2>2. MIDI_voices'[d] = MIDI_voices[d]
    BY <1>8 DEF Start, TypeOK
  <2> QED BY <1>6, <2>1, <2>2
<1> QED BY <1>7, <1>8

LEMMA KeysOffCounts ==
  ASSUME TypeOK, VoiceCount, NEW c \in Chans, NEW T \in SUBSET On(c), KeysOff(c, T)
  PROVE  VoiceCount'
<1>1. T \in SUBSET Busy
  BY DEF On
<1> QED BY <1>1, SustainCounts, ReleaseCounts DEF KeysOff

(* After Reset All Controllers only the counts of that channel change: the *)
(* pedal frees slots of no other.                                          *)
LEMMA ResetControllersCounts ==
  ASSUME TypeOK, VoiceCount, NEW c \in Chans, reset_all_controllers(c)
  PROVE  VoiceCount'
<1> DEFINE R == PedalSlots(c)
<1>1. R \in SUBSET Busy /\ \A s \in R : S[s].channel = c
  BY DEF PedalSlots, On
<1>2. S' = [s \in Slots |-> IF s \in R THEN Free ELSE S[s]]
  BY DEF reset_all_controllers
<1>3. MIDI_voices' = [MIDI_voices EXCEPT ![c] = (@ - Cardinality(Voiced(R))) % ByteMod]
  BY DEF reset_all_controllers
<1>4. {s \in Voiced(R) : S[s].channel = c} = Voiced(R)
  BY <1>1 DEF Voiced
<1> HIDE DEF R
<1>5. MIDI_voices'[c] = Cardinality(Voiced(On(c))')
  <2>1. MIDI_voices'[c] = (MIDI_voices[c] - Cardinality(Voiced(R))) % ByteMod
    BY <1>3 DEF TypeOK
  <2> QED BY <1>1, <1>2, <1>4, <2>1, FreeCounts
<1>6. ASSUME NEW d \in Chans, d # c
      PROVE  MIDI_voices'[d] = Cardinality(Voiced(On(d))')
  <2>1. Voiced(On(d))' = Voiced(On(d))
    BY <1>1, <1>2, <1>6 DEF Voiced, On, Busy
  <2>2. MIDI_voices'[d] = MIDI_voices[d]
    BY <1>3, <1>6 DEF TypeOK
  <2> QED BY <2>1, <2>2 DEF VoiceCount
<1> QED BY <1>5, <1>6 DEF VoiceCount

LEMMA SameCounts ==
  ASSUME VoiceCount, S' = S, MIDI_voices' = MIDI_voices
  PROVE  VoiceCount'
  BY DEF VoiceCount, Voiced, On, Busy

LEMMA NextCounts ==
  ASSUME TypeOK, VoiceCount, [Next]_vars
  PROVE  VoiceCount'
<1>1. ASSUME NEW c \in Chans, NEW n \in Keys, note_on(c, n) PROVE VoiceCount'
  <2>1. PICK s \in Slots \ Busy, t \in {2, 4} : assign_voice(s, t, c, n)
    BY <1>1 DEF note_on
  <2>2. PICK v \in Voice \cup {None} : Start(s, t, c, n, v)
    BY <2>1, AssignStarts
  <2> QED BY <2>2, StartCounts
<1>2. ASSUME NEW c \in Chans, NEW n \in Keys, note_off(c, n) PROVE VoiceCount'
  <2>1. WithKey(c, n) \in SUBSET On(c)
    BY DEF WithKey
  <2> QED BY <1>2, <2>1, KeysOffCounts DEF note_off
<1>3. ASSUME NEW c \in Chans, all_notes_off(c) PROVE VoiceCount'
  <2>1. On(c) \in SUBSET On(c)
    OBVIOUS
  <2> QED BY <1>3, <2>1, KeysOffCounts DEF all_notes_off
<1>4. ASSUME NEW c \in Chans, pedal_up(c) PROVE VoiceCount'
  <2>1. PedalSlots(c) \in SUBSET Busy
    BY DEF PedalSlots, On
  <2> QED BY <1>4, <2>1, ReleaseCounts DEF pedal_up
<1>5. ASSUME NEW c \in Chans, reset_all_controllers(c) PROVE VoiceCount'
  BY <1>5, ResetControllersCounts
<1>6. ASSUME NEW c \in Chans, pedal_down(c) \/ refresh(c) PROVE VoiceCount'
  BY <1>6, SameCounts DEF pedal_down, refresh
<1>7. CASE init_synth
  <2>1. \A c \in Chans : Voiced(On(c))' = {}
    BY <1>7 DEF init_synth, Voiced, On, Busy
  <2> QED BY <1>7, <2>1, FS_EmptySet DEF init_synth, VoiceCount
<1>8. CASE UNCHANGED vars
  BY <1>8, SameCounts DEF vars
<1> QED BY <1>1, <1>2, <1>3, <1>4, <1>5, <1>6, <1>7, <1>8 DEF Next, Message

(* The byte that counts the voices of a channel never wraps and is never   *)
(* off by one, whatever slots a message frees at once, and a note the pedal*)
(* holds is on a channel whose pedal is down.                              *)
THEOREM ChannelsAccountedAlways == Spec => []ChannelsAccounted
<1>1. Init => VoiceCount
  <2> SUFFICES ASSUME Init PROVE VoiceCount
    OBVIOUS
  <2>1. \A c \in Chans : Voiced(On(c)) = {}
    BY DEF Init, Voiced, On, Busy
  <2> QED BY <2>1, FS_EmptySet DEF Init, VoiceCount
<1>2. TypeOK /\ VoiceCount /\ [Next]_vars => VoiceCount'
  BY NextCounts
<1>3. VoiceCount /\ SustainHeld => ChannelsAccounted
  BY DEF ChannelsAccounted
<1> QED BY <1>1, <1>2, <1>3, TypeCorrect, SustainHeldAlways, PTL DEF Spec

----------------------------------------------------------------------------
(* The chip attached: its register writes never hold a message up or       *)
(* change what it does to the slots, so what is proved of the allocator    *)
(* holds of the driver with its chip.                                      *)

LEMMA MessageRefines ==
  ASSUME NEW c \in Chans, ChipMessage(c)
  PROVE  Message(c)
<1>1. ASSUME NEW n \in Keys, ChipNoteOn(c, n) PROVE Message(c)
  BY <1>1 DEF ChipNoteOn, Message
<1>2. ASSUME NEW n \in Keys, ChipNoteOff(c, n) PROVE Message(c)
  BY <1>2 DEF ChipNoteOff, Message
<1>3. CASE ChipNotesOff(c)
  BY <1>3 DEF ChipNotesOff, Message
<1>4. CASE ChipPedalDown(c)
  BY <1>4 DEF ChipPedalDown, Message
<1>5. CASE ChipPedalUp(c)
  BY <1>5 DEF ChipPedalUp, Message
<1>6. CASE ChipReset_controllers(c)
  BY <1>6 DEF ChipReset_controllers, Message
<1>7. CASE ChipRefresh(c)
  BY <1>7 DEF ChipRefresh, Message
<1> QED BY <1>1, <1>2, <1>3, <1>4, <1>5, <1>6, <1>7 DEF ChipMessage

(* The driver that writes to a chip implements the driver that only keeps  *)
(* its books.                                                              *)
THEOREM ChipImplementsAllocator == ChipSpec => Spec
<1>1. ChipInit => Init
  BY DEF ChipInit
<1>2. [ChipNext]_allVars => [Next]_vars
  <2>1. ASSUME ChipInitSynth PROVE Next
    BY <2>1 DEF ChipInitSynth, Next
  <2>2. ASSUME NEW c \in Chans, ChipMessage(c) PROVE Next
    BY <2>2, MessageRefines DEF Next
  <2>3. ASSUME UNCHANGED allVars PROVE UNCHANGED vars
    BY <2>3 DEF allVars
  <2> QED BY <2>1, <2>2, <2>3 DEF ChipNext
<1> QED BY <1>1, <1>2, PTL DEF ChipSpec, Spec

(* With the chip attached, no voice and no half of a pair serves two       *)
(* notes, and the driver's record of them is exact.                        *)
THEOREM ChipOwnership == ChipSpec => []VoiceOwnership
  BY ChipImplementsAllocator, OwnershipAlways

(* With the chip attached, the allocator is still a pool of voices.        *)
THEOREM ChipImplementsPool == ChipSpec => ImplementsPool
  BY ChipImplementsAllocator, AllocatorImplementsPool

----------------------------------------------------------------------------
(* Sets of numbers that hold 0, and with each number the next, hold all.   *)
LEMMA Upwards ==
  ASSUME NEW N \in Nat, NEW G, 0 \in G, \A n \in 0 .. N - 1 : n \in G => n + 1 \in G
  PROVE  0 .. N \subseteq G
<1> DEFINE rest == {n \in 0 .. N : n \notin G}
           R == {ss \in Nat \X Nat : ss[1] < ss[2]}
<1>1. SUFFICES ASSUME rest # {} PROVE FALSE
  OBVIOUS
<1>2. IsWellFoundedOn(R, Nat)
  BY NatLessThanWellFounded DEF OpToRel
<1>3. rest \in SUBSET Nat
  OBVIOUS
<1>4. PICK m \in rest : \A n \in rest : ~ (<<n, m>> \in R)
  <2> HIDE DEF R, rest
  <2> QED BY <1>1, <1>2, <1>3, WFMin
<1>5. m \in 0 .. N /\ m \notin G /\ m # 0
  BY <1>4
<1>6. m - 1 \in 0 .. N - 1
  BY <1>5
<1>7. m - 1 \notin rest
  <2>1. <<m - 1, m>> \in R
    BY <1>5
  <2> HIDE DEF R
  <2> QED BY <1>4, <2>1
<1>8. m - 1 \in G
  BY <1>6, <1>7
<1> QED BY <1>5, <1>6, <1>8

(* A loop of N rounds over values of X, and its values round by round. *)
Loops(X, x, N, F, f) ==
  /\ f \in [0 .. N -> X]
  /\ f[0] = x /\ \A n \in 0 .. N - 1 : f[n + 1] = F[n][f[n]]

LEMMA LoopDefined ==
  ASSUME NEW X, NEW x \in X, NEW N \in Nat, NEW F \in [0 .. N - 1 -> [X -> X]]
  PROVE  \E f : Loops(X, x, N, F, f)
<1> DEFINE Upto(f, n) ==
             f \in [0 .. n -> X] /\ f[0] = x /\ \A k \in 0 .. n - 1 : f[k + 1] = F[k][f[k]]
           G == {n \in 0 .. N : \E f : Upto(f, n)}
<1>1. 0 \in G
  <2> DEFINE h == [n \in 0 .. 0 |-> x]
  <2>1. h \in [0 .. 0 -> X] /\ h[0] = x
    OBVIOUS
  <2> HIDE DEF h
  <2>2. 0 .. 0 - 1 = {}
    OBVIOUS
  <2>3. Upto(h, 0)
    BY <2>1, <2>2
  <2> QED BY <2>3
<1>2. ASSUME NEW n \in 0 .. N - 1, n \in G PROVE n + 1 \in G
  <2>1. PICK f : Upto(f, n)
    BY <1>2
  <2> DEFINE y == F[n][f[n]]
             g == [k \in 0 .. n + 1 |-> IF k = n + 1 THEN y ELSE f[k]]
  <2>2. n \in Nat /\ n + 1 \in 0 .. N /\ f[n] \in X /\ y \in X
    BY <2>1
  <2>3. g \in [0 .. n + 1 -> X]
    BY <2>1, <2>2
  <2>4. g[0] = x /\ g[n + 1] = y /\ \A k \in 0 .. n : g[k] = f[k]
    BY <2>1, <2>2
  <2> HIDE DEF g
  <2>5. ASSUME NEW k \in 0 .. n PROVE g[k + 1] = F[k][g[k]]
    <3>1. CASE k = n
      BY <2>4, <3>1
    <3>2. CASE k # n
      <4>1. k \in 0 .. n - 1 /\ k + 1 \in 0 .. n
        BY <2>2, <3>2
      <4> QED BY <2>1, <2>4, <4>1
    <3> QED BY <3>1, <3>2
  <2>6. Upto(g, n + 1)
    BY <2>2, <2>3, <2>4, <2>5
  <2> QED BY <2>2, <2>6
<1>3. 0 .. N \subseteq G
  <2> HIDE DEF G
  <2> QED BY <1>1, <1>2, Upwards
<1>4. N \in G
  <2> HIDE DEF G
  <2> QED BY <1>3
<1>5. PICK f : Upto(f, N)
  BY <1>4
<1> QED BY <1>5 DEF Loops

----------------------------------------------------------------------------
(* The values of a chip. *)
Chip ==
  [sel : SUBSET Bases, mode : [Voice -> {"2op", "4op", "4op2"}], con : [Voice -> {0, 1}],
   mod : [Op -> Op \cup {Zero}], out : [Voice -> SUBSET Op],
   key : SUBSET Op, scaled : SUBSET Op]

(* The two channels of a pair are in matching modes. *)
Paired(x) ==
  \A v \in Voice :
    /\ x.mode[v] = "4op"  => v \in Bases /\ x.mode[v + Span] = "4op2"
    /\ x.mode[v] = "4op2" => v - Span \in Bases /\ x.mode[v - Span] = "4op"

(* The routing of one channel, and of a pair, for its connection bits. *)
Two(x, v) ==
  LET a == <<v, 0>>  b == <<v, 1>> IN
  /\ x.mod[a] = a
  /\ x.mod[b] = IF x.con[v] = 0 THEN a ELSE Zero
  /\ x.out[v] = IF x.con[v] = 0 THEN {b} ELSE {a, b}

Four(x, v) ==
  LET a == <<v, 0>>         b == <<v, 1>>
      c == <<v + Span, 0>>  d == <<v + Span, 1>>
      c1 == x.con[v]        c2 == x.con[v + Span] IN
  /\ x.mod[a] = a
  /\ x.mod[b] = IF c1 = 0 THEN a ELSE Zero
  /\ x.mod[c] = IF c1 = 0 /\ c2 = 1 THEN Zero ELSE b
  /\ x.mod[d] = IF c1 = 1 /\ c2 = 1 THEN Zero ELSE c
  /\ x.out[v] = {}
  /\ x.out[v + Span] = {d} \cup (IF c1 = 1 THEN {a} ELSE {})
                           \cup (IF c1 = 1 /\ c2 = 1 THEN {c} ELSE {})
                           \cup (IF c1 = 0 /\ c2 = 1 THEN {b} ELSE {})

RoutedAt(x, v) ==
  /\ x.mode[v] = "2op" => Two(x, v)
  /\ x.mode[v] = "4op" => Four(x, v)

(* The chip's routing is always that of its modes and bits. *)
Good(x) == x \in Chip /\ Paired(x) /\ \A v \in Voice : RoutedAt(x, v)

(* Two chips differ at most in what concerns the routing of G. *)
SameBut(x, y, G) ==
  /\ y \in Chip
  /\ y.sel = x.sel /\ y.key = x.key /\ y.scaled = x.scaled
  /\ \A u \in Voice \ G :
       /\ y.mod[<<u, 0>>] = x.mod[<<u, 0>>] /\ y.mod[<<u, 1>>] = x.mod[<<u, 1>>]
       /\ y.out[u] = x.out[u] /\ y.con[u] = x.con[u] /\ y.mode[u] = x.mode[u]

LEMMA Channels ==
  /\ Bases \subseteq Voice
  /\ \A b \in Bases : b + Span \in Voice /\ b + Span \notin Bases /\ b + Span # b
                      /\ b - Span \notin Bases /\ (b + Span) - Span = b
  /\ Voice \subseteq Nat /\ Span \in Nat \ {0}
  BY VoicesAssumption DEF Bases, Voice, Pairs

LEMMA Route2Fields ==
  ASSUME NEW x \in Chip, NEW v \in Voice
  PROVE  SameBut(x, Route2(x, v), {v}) /\ Two(Route2(x, v), v)
         /\ Route2(x, v).con = x.con /\ Route2(x, v).mode = x.mode
<1> DEFINE a == <<v, 0>>  b == <<v, 1>>
           m == [x.mod EXCEPT ![a] = a, ![b] = IF x.con[v] = 0 THEN a ELSE Zero]
           o == IF x.con[v] = 0 THEN {b} ELSE {a, b}
           y == [x EXCEPT !.mod = m, !.out[v] = o]
<1>1. Route2(x, v) = y
  BY DEF Route2
<1>2. a \in Op /\ b \in Op /\ a # b
  BY DEF Op
<1>3. m \in [Op -> Op \cup {Zero}] /\ m[a] = a /\ m[b] = IF x.con[v] = 0 THEN a ELSE Zero
  BY <1>2 DEF Chip
<1>4. \A u \in Voice \ {v} : m[<<u, 0>>] = x.mod[<<u, 0>>] /\ m[<<u, 1>>] = x.mod[<<u, 1>>]
  BY DEF Chip, Op
<1>5. o \in SUBSET Op
  BY <1>2
<1> HIDE DEF m, o
<1>6. /\ y \in Chip /\ y.mod = m /\ y.out = [x.out EXCEPT ![v] = o]
      /\ y.sel = x.sel /\ y.key = x.key /\ y.scaled = x.scaled /\ y.con = x.con /\ y.mode = x.mode
  BY <1>3, <1>5 DEF Chip
<1>7. y.out[v] = o /\ \A u \in Voice \ {v} : y.out[u] = x.out[u]
  BY <1>6 DEF Chip
<1> HIDE DEF y
<1>8. SameBut(x, y, {v})
  BY <1>4, <1>6, <1>7 DEF SameBut
<1>9. Two(y, v)
  BY <1>3, <1>6, <1>7 DEF Two, o
<1> QED BY <1>1, <1>6, <1>8, <1>9

LEMMA Route4Fields ==
  ASSUME NEW x \in Chip, NEW v \in Bases
  PROVE  SameBut(x, Route4(x, v), {v, v + Span}) /\ Four(Route4(x, v), v)
         /\ Route4(x, v).con = x.con /\ Route4(x, v).mode = x.mode
<1> DEFINE a == <<v, 0>>  b == <<v, 1>>  c == <<v + Span, 0>>  d == <<v + Span, 1>>
           c1 == x.con[v]  c2 == x.con[v + Span]
           mb == IF c1 = 0 THEN a ELSE Zero
           mc == IF c1 = 0 /\ c2 = 1 THEN Zero ELSE b
           md == IF c1 = 1 /\ c2 = 1 THEN Zero ELSE c
           m == [x.mod EXCEPT ![a] = a, ![b] = mb, ![c] = mc, ![d] = md]
           e == {d} \cup (IF c1 = 1 THEN {a} ELSE {})
                    \cup (IF c1 = 1 /\ c2 = 1 THEN {c} ELSE {})
                    \cup (IF c1 = 0 /\ c2 = 1 THEN {b} ELSE {})
           o == [x.out EXCEPT ![v] = {}, ![v + Span] = e]
           y == [x EXCEPT !.mod = m, !.out = o]
<1>1. Route4(x, v) = y
  BY DEF Route4
<1>2. v \in Voice /\ v + Span \in Voice /\ v # v + Span
  BY Channels
<1>3. a \in Op /\ b \in Op /\ c \in Op /\ d \in Op
      /\ a # b /\ a # c /\ a # d /\ b # c /\ b # d /\ c # d
  BY <1>2 DEF Op
<1>4. mb \in Op \cup {Zero} /\ mc \in Op \cup {Zero} /\ md \in Op \cup {Zero} /\ e \in SUBSET Op
  BY <1>3
<1>5. \A u \in Voice \ {v, v + Span}, i \in {0, 1} :
        <<u, i>> \in Op /\ <<u, i>> # a /\ <<u, i>> # b /\ <<u, i>> # c /\ <<u, i>> # d
  BY DEF Op
<1>6. x.mod \in [Op -> Op \cup {Zero}] /\ x.out \in [Voice -> SUBSET Op]
  BY DEF Chip
<1> HIDE DEF a, b, c, d, mb, mc, md, e
<1>7. /\ m \in [Op -> Op \cup {Zero}] /\ m[a] = a /\ m[b] = mb /\ m[c] = mc /\ m[d] = md
      /\ \A p \in Op : p # a /\ p # b /\ p # c /\ p # d => m[p] = x.mod[p]
  BY <1>3, <1>4, <1>6
<1>8. o \in [Voice -> SUBSET Op] /\ o[v] = {} /\ o[v + Span] = e
      /\ \A u \in Voice \ {v, v + Span} : o[u] = x.out[u]
  BY <1>2, <1>4, <1>6
<1> HIDE DEF m, o
<1>9. /\ y \in Chip /\ y.mod = m /\ y.out = o
      /\ y.sel = x.sel /\ y.key = x.key /\ y.scaled = x.scaled /\ y.con = x.con /\ y.mode = x.mode
  BY <1>7, <1>8 DEF Chip
<1> HIDE DEF y
<1>10. SameBut(x, y, {v, v + Span})
  BY <1>5, <1>7, <1>8, <1>9 DEF SameBut
<1>11. Four(y, v)
  BY <1>7, <1>8, <1>9 DEF Four, a, b, c, d, mb, mc, md, e
<1> QED BY <1>1, <1>9, <1>10, <1>11

(* Channels outside of G stay routed, when their pairs are outside too. *)
LEMMA RoutedElsewhere ==
  ASSUME NEW x \in Chip, NEW y, NEW G, SameBut(x, y, G), NEW u \in Voice \ G, RoutedAt(x, u),
         x.mode[u] = "4op" => u \in Bases /\ u + Span \notin G
  PROVE  RoutedAt(y, u)
<1>1. y.mode[u] = x.mode[u]
  BY DEF SameBut
<1>2. CASE x.mode[u] = "2op"
  BY <1>1, <1>2 DEF RoutedAt, Two, SameBut
<1>3. CASE x.mode[u] = "4op"
  <2>1. u + Span \in Voice \ G
    BY <1>3, Channels
  <2> QED BY <1>1, <1>3, <2>1 DEF RoutedAt, Four, SameBut
<1> QED BY <1>1, <1>2, <1>3 DEF RoutedAt

LEMMA GoodAgain ==
  ASSUME NEW x, Good(x), NEW y \in Chip,
         y.mode = x.mode, y.con = x.con, y.mod = x.mod, y.out = x.out
  PROVE  Good(y)
<1>1. Paired(y)
  BY DEF Good, Paired
<1>2. ASSUME NEW v \in Voice PROVE RoutedAt(y, v)
  <2>1. RoutedAt(x, v)
    BY DEF Good
  <2>2. Two(x, v) => Two(y, v)
    BY DEF Two
  <2>3. Four(x, v) => Four(y, v)
    BY DEF Four
  <2> QED BY <2>1, <2>2, <2>3 DEF RoutedAt
<1> QED BY <1>1, <1>2 DEF Good

(* A write of C0 sets the channel's bit and routes the channel, or the     *)
(* pair it belongs to, anew.                                               *)
BitWritten(x, y, v, c) ==
  /\ Good(y) /\ y.sel = x.sel /\ y.key = x.key /\ y.scaled = x.scaled /\ y.mode = x.mode
  /\ y.con = [x.con EXCEPT ![v] = c]

LEMMA WriteC0Good ==
  ASSUME NEW x, Good(x), NEW v \in Voice, NEW c \in {0, 1}
  PROVE  BitWritten(x, WriteC0(x, v, c), v, c)
<1> DEFINE z == [x EXCEPT !.con[v] = c]
           y == UpdateAlg(z, v)
           G == IF x.mode[v] = "2op" THEN {v}
                ELSE IF x.mode[v] = "4op" THEN {v, v + Span} ELSE {v, v - Span}
<1>1. WriteC0(x, v, c) = y
  BY DEF WriteC0
<1>2. x \in Chip /\ Paired(x) /\ \A u \in Voice : RoutedAt(x, u)
  BY DEF Good
<1>3. /\ z \in Chip /\ z.con = [x.con EXCEPT ![v] = c]
      /\ z.sel = x.sel /\ z.key = x.key /\ z.scaled = x.scaled /\ z.mode = x.mode
      /\ z.mod = x.mod /\ z.out = x.out
  BY <1>2 DEF Chip
<1> HIDE DEF z
<1>4. x.mode[v] \in {"2op", "4op", "4op2"}
  BY <1>2 DEF Chip
<1>5. SameBut(x, z, {v})
  BY <1>2, <1>3 DEF SameBut, Chip
<1>6. /\ y \in Chip /\ y.con = z.con /\ y.mode = z.mode /\ SameBut(z, y, G)
      /\ \A u \in G : RoutedAt(y, u)
  <2>1. CASE x.mode[v] = "2op"
    <3>1. y = Route2(z, v)
      BY <1>3, <2>1 DEF UpdateAlg
    <3>2. SameBut(z, y, {v}) /\ Two(y, v) /\ y.con = z.con /\ y.mode = z.mode
      BY <1>3, <3>1, Route2Fields
    <3> HIDE DEF y
    <3> QED BY <1>3, <2>1, <3>2 DEF RoutedAt, SameBut
  <2>2. CASE x.mode[v] = "4op"
    <3>1. y = Route4(z, v) /\ v \in Bases /\ x.mode[v + Span] = "4op2"
      BY <1>2, <1>3, <2>2 DEF UpdateAlg, Paired
    <3>2. SameBut(z, y, {v, v + Span}) /\ Four(y, v) /\ y.con = z.con /\ y.mode = z.mode
      BY <1>3, <3>1, Route4Fields
    <3> HIDE DEF y
    <3> QED BY <1>3, <2>2, <3>1, <3>2 DEF RoutedAt, SameBut
  <2>3. CASE x.mode[v] = "4op2"
    <3>1. v - Span \in Bases /\ x.mode[v - Span] = "4op" /\ v \notin Bases
          /\ (v - Span) + Span = v
      BY <1>2, <2>3, Channels DEF Paired
    <3>2. y = Route4(z, v - Span)
      BY <1>3, <2>3, <3>1 DEF UpdateAlg, Other
    <3>3. SameBut(z, y, {v, v - Span}) /\ Four(y, v - Span) /\ y.con = z.con /\ y.mode = z.mode
      <4>1. {v - Span, (v - Span) + Span} = {v, v - Span}
        BY <3>1
      <4> QED BY <1>3, <3>1, <3>2, <4>1, Route4Fields
    <3> HIDE DEF y
    <3> QED BY <1>3, <2>3, <3>1, <3>3 DEF RoutedAt, SameBut
  <2> QED BY <1>4, <2>1, <2>2, <2>3
<1>7. v \in G
  OBVIOUS
<1> HIDE DEF y
<1>8. SameBut(x, y, G)
  BY <1>5, <1>6, <1>7 DEF SameBut
<1>9. ASSUME NEW u \in Voice \ G PROVE RoutedAt(y, u)
  <2>1. ASSUME x.mode[u] = "4op" PROVE u \in Bases /\ u + Span \notin G
    <3>1. u \in Bases /\ x.mode[u + Span] = "4op2" /\ (u + Span) - Span = u
      BY <1>2, <2>1, Channels DEF Paired
    <3>2. CASE x.mode[v] = "2op"
      BY <3>1, <3>2
    <3>3. CASE x.mode[v] = "4op"
      <4>1. v \in Bases /\ u # v
        BY <1>2, <1>7, <3>3 DEF Paired
      <4>2. u + Span # v + Span
        BY <4>1, <3>1, Channels
      <4> QED BY <3>1, <3>3, <4>1, <4>2
    <3>4. CASE x.mode[v] = "4op2"
      <4>1. v - Span \in Bases /\ x.mode[v - Span] = "4op" /\ u # v - Span
        BY <1>2, <3>4 DEF Paired
      <4>2. u + Span # v
        BY <3>1, <4>1, Channels
      <4> QED BY <3>1, <3>4, <4>1, <4>2
    <3> QED BY <1>4, <3>2, <3>3, <3>4
  <2> HIDE DEF G
  <2> QED BY <1>2, <1>8, <2>1, RoutedElsewhere
<1>10. Paired(y)
  BY <1>2, <1>3, <1>6 DEF Paired
<1>11. Good(y)
  <2> HIDE DEF G
  <2> QED BY <1>6, <1>9, <1>10 DEF Good
<1> HIDE DEF G
<1> QED BY <1>1, <1>3, <1>6, <1>8, <1>11 DEF SameBut, BitWritten

(* A bit of the connection-select register sets the modes of its pair. *)
PairMode(x, y, b, first, second) ==
  /\ Good(y) /\ y.sel = x.sel /\ y.key = x.key /\ y.scaled = x.scaled /\ y.con = x.con
  /\ y.mode = [x.mode EXCEPT ![b] = first, ![b + Span] = second]

LEMMA PairElsewhere ==
  ASSUME NEW x, Good(x), NEW b \in Bases, NEW u \in Voice \ {b, b + Span}, x.mode[u] = "4op"
  PROVE  u \in Bases /\ u + Span \notin {b, b + Span}
<1>1. u \in Bases
  BY DEF Good, Paired
<1> QED BY <1>1, Channels

ModesSet(x, y, b, first, second) ==
  y = [x EXCEPT !.mode = [@ EXCEPT ![b] = first, ![b + Span] = second]]

ModesAre(x, y, b, first, second) ==
  /\ Paired(y) /\ SameBut(x, y, {b, b + Span}) /\ y.con = x.con
  /\ y.mode = [x.mode EXCEPT ![b] = first, ![b + Span] = second]
  /\ y.mode[b] = first /\ y.mode[b + Span] = second

LEMMA PairModes ==
  ASSUME NEW x, Good(x), NEW b \in Bases, NEW first, NEW second,
         first \in {"2op", "4op"}, second \in {"2op", "4op2"}, first = "4op" <=> second = "4op2",
         NEW y, ModesSet(x, y, b, first, second)
  PROVE  ModesAre(x, y, b, first, second)
<1> DEFINE m == [x.mode EXCEPT ![b] = first, ![b + Span] = second]
<1>1. x \in Chip /\ Paired(x)
  BY DEF Good
<1>2. b \in Voice /\ b + Span \in Voice /\ b # b + Span
  BY Channels
<1>3. first \in {"2op", "4op"} /\ second \in {"2op", "4op2"} /\ (first = "4op" <=> second = "4op2")
  OBVIOUS
<1>4. /\ m \in [Voice -> {"2op", "4op", "4op2"}] /\ m[b] = first /\ m[b + Span] = second
      /\ \A u \in Voice \ {b, b + Span} : m[u] = x.mode[u]
  BY <1>1, <1>2, <1>3 DEF Chip
<1>5. y = [x EXCEPT !.mode = m]
  BY DEF ModesSet
<1> HIDE DEF m
<1>6. /\ y \in Chip /\ y.mode = m /\ y.con = x.con /\ y.sel = x.sel /\ y.key = x.key
      /\ y.scaled = x.scaled /\ y.mod = x.mod /\ y.out = x.out
  BY <1>1, <1>4, <1>5 DEF Chip
<1>7. SameBut(x, y, {b, b + Span})
  BY <1>4, <1>6 DEF SameBut
<1>8. Paired(y)
  <2>1. SUFFICES ASSUME NEW v \in Voice
        PROVE  /\ m[v] = "4op"  => v \in Bases /\ m[v + Span] = "4op2"
               /\ m[v] = "4op2" => v - Span \in Bases /\ m[v - Span] = "4op"
    BY <1>6 DEF Paired
  <2>2. CASE v = b
    BY <1>3, <1>4, <2>2
  <2>3. CASE v = b + Span
    <3>1. v - Span = b
      BY <2>3, Channels
    <3> QED BY <1>3, <1>4, <2>3, <3>1
  <2>4. CASE v \notin {b, b + Span}
    <3>1. m[v] = x.mode[v]
      BY <1>4, <2>4
    <3>2. ASSUME m[v] = "4op" PROVE v \in Bases /\ m[v + Span] = "4op2"
      <4>1. v \in Bases /\ v + Span \notin {b, b + Span}
        BY <2>4, <3>1, <3>2, PairElsewhere
      <4>2. v + Span \in Voice /\ x.mode[v + Span] = "4op2"
        BY <1>1, <3>1, <3>2, <4>1, Channels DEF Paired
      <4> QED BY <1>4, <4>1, <4>2
    <3>3. ASSUME m[v] = "4op2" PROVE v - Span \in Bases /\ m[v - Span] = "4op"
      <4>1. v - Span \in Bases /\ x.mode[v - Span] = "4op"
        BY <1>1, <3>1, <3>3 DEF Paired
      <4>2. v - Span # b /\ v - Span # b + Span /\ v - Span \in Voice
        BY <2>4, <4>1, Channels
      <4> QED BY <1>4, <4>1, <4>2
    <3> QED BY <3>2, <3>3
  <2> QED BY <2>2, <2>3, <2>4
<1> QED BY <1>4, <1>6, <1>7, <1>8 DEF m, ModesAre

LEMMA JoinGood ==
  ASSUME NEW x, Good(x), NEW b \in Bases
  PROVE  PairMode(x, Join(x, b), b, "4op", "4op2")
<1> DEFINE z == [x EXCEPT !.mode = [@ EXCEPT ![b] = "4op", ![b + Span] = "4op2"]]
           y == Route4(z, b)
           G == {b, b + Span}
<1>1. /\ Paired(z) /\ SameBut(x, z, G) /\ z.con = x.con
      /\ z.mode = [x.mode EXCEPT ![b] = "4op", ![b + Span] = "4op2"]
      /\ z.mode[b] = "4op" /\ z.mode[b + Span] = "4op2"
  <2>1. ModesSet(x, z, b, "4op", "4op2")
    BY DEF ModesSet
  <2> HIDE DEF z
  <2>2. ModesAre(x, z, b, "4op", "4op2")
    BY <2>1, PairModes
  <2> QED BY <2>2 DEF ModesAre
<1> HIDE DEF z
<1>2. Join(x, b) = y
  BY <1>1 DEF Join, UpdateAlg, z
<1>3. SameBut(z, y, G) /\ Four(y, b) /\ y.con = z.con /\ y.mode = z.mode
  BY <1>1, Route4Fields DEF SameBut
<1> HIDE DEF y
<1>4. SameBut(x, y, G)
  BY <1>1, <1>3 DEF SameBut
<1>5. ASSUME NEW u \in Voice PROVE RoutedAt(y, u)
  <2>1. CASE u \in G
    BY <1>1, <1>3, <2>1 DEF RoutedAt
  <2>2. CASE u \notin G
    <3>1. x.mode[u] = "4op" => u \in Bases /\ u + Span \notin G
      BY <2>2, PairElsewhere
    <3> HIDE DEF G
    <3> QED BY <1>4, <2>2, <3>1, RoutedElsewhere DEF Good
  <2> QED BY <2>1, <2>2
<1>6. Good(y)
  BY <1>1, <1>3, <1>4, <1>5 DEF Good, SameBut, Paired
<1> QED BY <1>1, <1>2, <1>3, <1>4, <1>6 DEF PairMode, SameBut

LEMMA PartGood ==
  ASSUME NEW x, Good(x), NEW b \in Bases
  PROVE  PairMode(x, Part(x, b), b, "2op", "2op")
<1> DEFINE z == [x EXCEPT !.mode = [@ EXCEPT ![b] = "2op", ![b + Span] = "2op"]]
           t == Route2(z, b)
           y == Route2(t, b + Span)
           G == {b, b + Span}
<1>1. /\ Paired(z) /\ SameBut(x, z, G) /\ z.con = x.con
      /\ z.mode = [x.mode EXCEPT ![b] = "2op", ![b + Span] = "2op"]
      /\ z.mode[b] = "2op" /\ z.mode[b + Span] = "2op"
  <2>1. ModesSet(x, z, b, "2op", "2op")
    BY DEF ModesSet
  <2> HIDE DEF z
  <2>2. ModesAre(x, z, b, "2op", "2op")
    BY <2>1, PairModes
  <2> QED BY <2>2 DEF ModesAre
<1> HIDE DEF z
<1>2. b \in Voice /\ b + Span \in Voice /\ b # b + Span
  BY Channels
<1>3. SameBut(z, t, {b}) /\ Two(t, b) /\ t.con = z.con /\ t.mode = z.mode
  BY <1>1, <1>2, Route2Fields DEF SameBut
<1>4. Part(x, b) = y
  BY <1>1, <1>3 DEF Part, UpdateAlg, z
<1> HIDE DEF t
<1>5. SameBut(t, y, {b + Span}) /\ Two(y, b + Span) /\ y.con = t.con /\ y.mode = t.mode
  BY <1>2, <1>3, Route2Fields DEF SameBut
<1> HIDE DEF y
<1>6. Two(y, b)
  BY <1>2, <1>3, <1>5 DEF Two, SameBut
<1>7. SameBut(x, y, G)
  BY <1>1, <1>3, <1>5 DEF SameBut
<1>8. ASSUME NEW u \in Voice PROVE RoutedAt(y, u)
  <2>1. CASE u \in G
    BY <1>1, <1>3, <1>5, <1>6, <2>1 DEF RoutedAt
  <2>2. CASE u \notin G
    <3>1. x.mode[u] = "4op" => u \in Bases /\ u + Span \notin G
      BY <2>2, PairElsewhere
    <3> HIDE DEF G
    <3> QED BY <1>7, <2>2, <3>1, RoutedElsewhere DEF Good
  <2> QED BY <2>1, <2>2
<1>9. Good(y)
  BY <1>1, <1>3, <1>5, <1>7, <1>8 DEF Good, SameBut, Paired
<1> QED BY <1>1, <1>3, <1>4, <1>5, <1>7, <1>9 DEF PairMode, SameBut

(* The modes are those of the register's bits sel. *)
ModesOf(x, sel) == \A b \in Bases : x.mode[b] = IF b \in sel THEN "4op" ELSE "2op"

(* Two good chips that differ in modes and routing only. *)
Rerouted(x, y) ==
  Good(y) /\ y.sel = x.sel /\ y.key = x.key /\ y.scaled = x.scaled /\ y.con = x.con

LEMMA Set4OpGood ==
  ASSUME NEW x, Good(x), NEW sel \in SUBSET Bases
  PROVE  Rerouted(x, Set4Op(x, sel)) /\ ModesOf(Set4Op(x, sel), sel)
<1> DEFINE X == {y \in Chip : Rerouted(x, y)}
           N == NUM_PAIRS
           Step(y, b) == IF b \in sel THEN Join(y, b) ELSE Part(y, b)
           F == [n \in 0 .. N - 1 |-> [y \in X |-> Step(y, op4_voice[n])]]
           after == CHOOSE g : g = [i \in 0 .. N |->
                      IF i = 0 THEN x
                      ELSE IF op4_voice[i - 1] \in sel THEN Join(g[i - 1], op4_voice[i - 1])
                      ELSE Part(g[i - 1], op4_voice[i - 1])]
<1>1. Set4Op(x, sel) = after[N]
  BY DEF Set4Op
<1>2. N \in Nat \ {0} /\ \A n \in 0 .. N - 1 : op4_voice[n] \in Bases
  BY VoicesAssumption DEF Bases, Pairs
<1>3. x \in X
  BY DEF Good, Rerouted
<1>4. ASSUME NEW y \in X, NEW b \in Bases
      PROVE  /\ Step(y, b) \in X
             /\ Step(y, b).mode = [y.mode EXCEPT ![b] = IF b \in sel THEN "4op" ELSE "2op",
                                                ![b + Span] = IF b \in sel THEN "4op2" ELSE "2op"]
  <2>1. CASE b \in sel
    <3>1. PairMode(y, Join(y, b), b, "4op", "4op2")
      BY JoinGood DEF Rerouted
    <3> QED BY <2>1, <3>1 DEF PairMode, Rerouted, Good
  <2>2. CASE b \notin sel
    <3>1. PairMode(y, Part(y, b), b, "2op", "2op")
      BY PartGood DEF Rerouted
    <3> QED BY <2>2, <3>1 DEF PairMode, Rerouted, Good
  <2> QED BY <2>1, <2>2
<1>5. \E f : Loops(X, x, N, F, f)
  <2>1. F \in [0 .. N - 1 -> [X -> X]]
    <3> HIDE DEF X, Step
    <3> QED BY <1>2, <1>4
  <2>2. N \in Nat
    BY <1>2
  <2> HIDE DEF X, F, N
  <2> QED BY <1>3, <2>1, <2>2, LoopDefined
<1>6. PICK f \in [0 .. N -> X] : f[0] = x /\ \A n \in 0 .. N - 1 : f[n + 1] = F[n][f[n]]
  BY <1>5 DEF Loops
<1>7. \A n \in 0 .. N - 1 : f[n] \in X /\ f[n + 1] = Step(f[n], op4_voice[n])
  <2> HIDE DEF X, Step
  <2>1. SUFFICES ASSUME NEW n \in 0 .. N - 1
        PROVE  f[n] \in X /\ f[n + 1] = Step(f[n], op4_voice[n])
    OBVIOUS
  <2>2. n \in 0 .. N /\ f[n] \in X
    BY <1>2, <1>6
  <2>3. F[n] = [y \in X |-> Step(y, op4_voice[n])]
    OBVIOUS
  <2> QED BY <1>6, <2>2, <2>3
<1>8. f = [i \in 0 .. N |->
             IF i = 0 THEN x
             ELSE IF op4_voice[i - 1] \in sel THEN Join(f[i - 1], op4_voice[i - 1])
             ELSE Part(f[i - 1], op4_voice[i - 1])]
  <2>1. \A i \in 0 .. N : i # 0 => f[i] = Step(f[i - 1], op4_voice[i - 1])
    BY <1>2, <1>7
  <2> QED BY <1>6, <2>1
<1>9. after = [i \in 0 .. N |->
             IF i = 0 THEN x
             ELSE IF op4_voice[i - 1] \in sel THEN Join(after[i - 1], op4_voice[i - 1])
             ELSE Part(after[i - 1], op4_voice[i - 1])]
  BY <1>8
<1> HIDE DEF after
<1>10. \A i \in 0 .. N - 1 : after[i + 1] = Step(after[i], op4_voice[i])
  BY <1>2, <1>9
<1>11. after[0] = x
  BY <1>2, <1>9
<1> DEFINE Upto(n) == /\ after[n] \in X
                      /\ \A j \in 0 .. n - 1 :
                           after[n].mode[op4_voice[j]] =
                             IF op4_voice[j] \in sel THEN "4op" ELSE "2op"
           G == {n \in 0 .. N : Upto(n)}
<1>12. 0 .. N \subseteq G
  <2>1. 0 \in G
    BY <1>2, <1>3, <1>11
  <2>2. ASSUME NEW n \in 0 .. N - 1, n \in G PROVE n + 1 \in G
    <3> DEFINE b == op4_voice[n]
    <3>1. after[n] \in X /\ b \in Bases /\ after[n + 1] = Step(after[n], b) /\ n \in Nat
          /\ n + 1 \in 0 .. N
      BY <1>2, <1>10, <2>2
    <3>2. /\ after[n + 1] \in X
          /\ after[n + 1].mode =
               [after[n].mode EXCEPT ![b] = IF b \in sel THEN "4op" ELSE "2op",
                                     ![b + Span] = IF b \in sel THEN "4op2" ELSE "2op"]
      <4> HIDE DEF X, Step, b
      <4> QED BY <1>4, <3>1
    <3>3. ASSUME NEW j \in 0 .. n
          PROVE  after[n + 1].mode[op4_voice[j]] = IF op4_voice[j] \in sel THEN "4op" ELSE "2op"
      <4>1. op4_voice[j] \in Bases /\ op4_voice[j] \in Voice /\ b \in Voice
            /\ op4_voice[j] # b + Span /\ b # b + Span
        <5>1. j \in 0 .. N - 1
          BY <1>2, <3>1
        <5>2. op4_voice[j] \in Bases
          BY <1>2, <5>1
        <5> HIDE DEF b
        <5> QED BY <3>1, <5>2, Channels
      <4>2. after[n].mode \in [Voice -> {"2op", "4op", "4op2"}]
        BY <3>1 DEF Chip
      <4>3. CASE op4_voice[j] = b
        <5> HIDE DEF b, X, Step, after, Upto
        <5> QED BY <3>2, <4>1, <4>2, <4>3
      <4>4. CASE op4_voice[j] # b
        <5>1. j \in 0 .. n - 1
          BY <3>1, <4>4
        <5>2. after[n].mode[op4_voice[j]] = IF op4_voice[j] \in sel THEN "4op" ELSE "2op"
          BY <2>2, <5>1
        <5> HIDE DEF b, X, Step, after, Upto
        <5> QED BY <3>2, <4>1, <4>2, <4>4, <5>2
      <4> QED BY <4>3, <4>4
    <3>4. (n + 1) - 1 = n
      BY <3>1
    <3> QED BY <3>1, <3>2, <3>3, <3>4
  <2> HIDE DEF G
  <2> QED BY <1>2, <2>1, <2>2, Upwards
<1>13. Upto(N)
  <2>1. N \in 0 .. N
    BY <1>2
  <2> HIDE DEF Upto
  <2> QED BY <1>12, <2>1
<1>14. ModesOf(after[N], sel)
  BY <1>13 DEF ModesOf, Bases, Pairs
<1> QED BY <1>1, <1>13, <1>14

(* A good chip whose modes are those of its register. *)
Settled(x) == Good(x) /\ ModesOf(x, x.sel)


(* What update_voice is called for: a slot that has its voice. *)
Placed(r) == r \in SlotRec /\ r.voice # None /\ (r.type = 4 => r.voice \in Bases)

Held(r) == Halves(r.type, r.voice)
NewSel(x, r) == IF r.type = 4 THEN x.sel \cup conn_sel(r.voice) ELSE x.sel \ conn_sel(r.voice)

LEMMA PlacedHalves ==
  ASSUME NEW r, Placed(r)
  PROVE  /\ r.type \in {2, 4} /\ r.voice \in Voice
         /\ r.type = 4 => r.voice + Span \in Voice /\ Held(r) = {r.voice, r.voice + Span}
         /\ r.type = 2 => Held(r) = {r.voice}
         /\ Held(r) \subseteq Voice
<1>1. r.type \in {2, 4} /\ r.voice \in Voice
  BY DEF Placed, SlotRec
<1>2. r.voice # None /\ (r.type = 4 => r.voice \in Bases)
  BY DEF Placed
<1>3. r.type = 4 => Held(r) = {r.voice, r.voice + Span}
  BY <1>2 DEF Held, Halves
<1>4. r.type = 2 => Held(r) = {r.voice}
  BY <1>2 DEF Held, Halves
<1>5. r.type = 4 => r.voice + Span \in Voice
  BY <1>2, Channels
<1>6. Held(r) \subseteq Voice
  BY <1>1, <1>3, <1>4, <1>5
<1> QED BY <1>1, <1>3, <1>4, <1>5, <1>6

LEMMA ConnectSettled ==
  ASSUME NEW x, Settled(x), NEW r, Placed(r)
  PROVE  LET y == Connect(x, r) IN
         /\ Settled(y) /\ y.sel = NewSel(x, r)
         /\ y.key = x.key /\ y.scaled = x.scaled /\ y.con = x.con
<1> DEFINE sel == NewSel(x, r)
           z == [x EXCEPT !.sel = sel]
<1>1. Connect(x, r) = IF sel = x.sel THEN x ELSE Set4Op(z, sel)
  BY DEF Connect, NewSel
<1>2. CASE sel = x.sel
  BY <1>1, <1>2
<1>3. CASE sel # x.sel
  <2>1. x \in Chip /\ Good(x)
    BY DEF Settled, Good
  <2>2. sel \in SUBSET Bases
    BY <2>1 DEF NewSel, conn_sel, Chip
  <2> HIDE DEF sel
  <2>3. /\ z \in Chip /\ z.sel = sel /\ z.key = x.key /\ z.scaled = x.scaled /\ z.con = x.con
        /\ z.mode = x.mode /\ z.mod = x.mod /\ z.out = x.out
    BY <2>1, <2>2 DEF Chip
  <2> HIDE DEF z
  <2>4. Good(z)
    BY <2>1, <2>3, GoodAgain
  <2>5. Rerouted(z, Set4Op(z, sel)) /\ ModesOf(Set4Op(z, sel), sel)
    BY <2>2, <2>4, Set4OpGood
  <2> QED BY <1>1, <1>3, <2>3, <2>5 DEF Rerouted, Settled, sel
<1> QED BY <1>2, <1>3

(* The registers of one channel: o are the operators with the volume. *)
HalfWritten(x, y, v, o, w, flags, on) ==
  /\ Settled(y) /\ y.sel = x.sel /\ y.mode = x.mode
  /\ y.con = IF "connection" \in flags THEN [x.con EXCEPT ![v] = w % 2] ELSE x.con
  /\ y.scaled = IF "level" \in flags THEN (x.scaled \ Ops({v})) \cup o ELSE x.scaled
  /\ y.key = IF "frequency" \notin flags THEN x.key
             ELSE IF on THEN x.key \cup Keyed(x, v) ELSE x.key \ Keyed(x, v)

ScaledOps(r, w, h) == {<<r.voice + h * Span, i>> : i \in Scaled(r.type, w, h)}

LEMMA ScaledRange ==
  ASSUME NEW t, NEW w \in 0 .. 3, NEW h
  PROVE  Scaled(t, w, h) \subseteq {0, 1}
<1>1. w = 0 \/ w = 1 \/ w = 2 \/ w = 3
  OBVIOUS
<1> QED BY <1>1 DEF Scaled

LEMMA WriteHalfSettled ==
  ASSUME NEW x, Settled(x), NEW r, NEW w \in 0 .. 3, NEW flags, NEW on, NEW h \in {0, 1},
         NEW v \in Voice, v = r.voice + h * Span
  PROVE  HalfWritten(x, WriteHalf(x, r, w, flags, on, h), v, ScaledOps(r, w, h), w, flags, on)
<1> DEFINE o == ScaledOps(r, w, h)
           x1 == IF "level" \in flags
                 THEN [x EXCEPT !.scaled = (@ \ Ops({v})) \cup o] ELSE x
           x2 == IF "connection" \in flags THEN WriteC0(x1, v, w % 2) ELSE x1
           y == IF "frequency" \in flags THEN WriteB0(x2, v, on) ELSE x2
<1>1. WriteHalf(x, r, w, flags, on, h) = y
  BY DEF WriteHalf, ScaledOps
<1>2. x \in Chip /\ Good(x)
  BY DEF Settled, Good
<1>3. o \subseteq Op
  BY ScaledRange DEF ScaledOps, Op
<1> HIDE DEF o
<1>4. /\ x1 \in Chip /\ x1.sel = x.sel /\ x1.key = x.key /\ x1.con = x.con /\ x1.mode = x.mode
      /\ x1.mod = x.mod /\ x1.out = x.out
      /\ x1.scaled = IF "level" \in flags THEN (x.scaled \ Ops({v})) \cup o ELSE x.scaled
  BY <1>2, <1>3 DEF Chip
<1> HIDE DEF x1
<1>5. Good(x1)
  BY <1>2, <1>4, GoodAgain
<1>6. /\ Good(x2) /\ x2.sel = x.sel /\ x2.mode = x.mode /\ x2.key = x.key
      /\ x2.scaled = x1.scaled
      /\ x2.con = IF "connection" \in flags THEN [x.con EXCEPT ![v] = w % 2] ELSE x.con
  <2>1. CASE "connection" \in flags
    <3>1. w % 2 \in {0, 1}
      OBVIOUS
    <3>2. BitWritten(x1, WriteC0(x1, v, w % 2), v, w % 2)
      BY <1>5, <3>1, WriteC0Good
    <3> QED BY <1>4, <2>1, <3>2 DEF BitWritten
  <2>2. CASE "connection" \notin flags
    BY <1>4, <1>5, <2>2
  <2> QED BY <2>1, <2>2
<1> HIDE DEF x2
<1>7. Keyed(x2, v) = Keyed(x, v)
  BY <1>6 DEF Keyed
<1>8. Keyed(x, v) \subseteq Op
  <2>1. x.mode[v] \in {"2op", "4op", "4op2"}
    BY <1>2 DEF Chip
  <2>2. x.mode[v] = "4op" => v + Span \in Voice
    BY <1>2, Channels DEF Good, Paired
  <2> QED BY <2>1, <2>2 DEF Keyed, Ops, Op
<1>9. x2 \in Chip
  BY <1>6 DEF Good
<1>10. /\ y \in Chip /\ y.sel = x2.sel /\ y.con = x2.con /\ y.mode = x2.mode
       /\ y.mod = x2.mod /\ y.out = x2.out /\ y.scaled = x2.scaled
       /\ y.key = IF "frequency" \notin flags THEN x2.key
                  ELSE IF on THEN x2.key \cup Keyed(x, v) ELSE x2.key \ Keyed(x, v)
  <2> DEFINE k == IF on THEN x2.key \cup Keyed(x, v) ELSE x2.key \ Keyed(x, v)
  <2>1. k \in SUBSET Op
    BY <1>8, <1>9 DEF Chip
  <2>2. y = IF "frequency" \in flags THEN [x2 EXCEPT !.key = k] ELSE x2
    BY <1>7 DEF WriteB0
  <2> HIDE DEF k, y
  <2>3. CASE "frequency" \in flags
    <3>1. y = [x2 EXCEPT !.key = k]
      BY <2>2, <2>3
    <3>2. /\ y \in Chip /\ y.sel = x2.sel /\ y.con = x2.con /\ y.mode = x2.mode
          /\ y.mod = x2.mod /\ y.out = x2.out /\ y.scaled = x2.scaled /\ y.key = k
      BY <1>9, <2>1, <3>1 DEF Chip
    <3> QED BY <2>3, <3>2 DEF k
  <2>4. CASE "frequency" \notin flags
    BY <1>9, <2>2, <2>4
  <2> QED BY <2>3, <2>4
<1> HIDE DEF y
<1>11. Good(y)
  BY <1>6, <1>10, GoodAgain
<1>12. Settled(y)
  BY <1>6, <1>10, <1>11 DEF Settled, ModesOf
<1> QED BY <1>1, <1>4, <1>6, <1>10, <1>12 DEF HalfWritten, o

(* All the registers of a slot's voice. *)
VoiceWritten(x, y, r, w, flags, on) ==
  /\ Settled(y) /\ y.sel = NewSel(x, r)
  /\ y.con = [v \in Voice |-> IF v \in Held(r) /\ "connection" \in flags
                              THEN w % 2 ELSE x.con[v]]
  /\ y.scaled = IF "level" \notin flags THEN x.scaled
                ELSE (x.scaled \ Ops(Held(r))) \cup ScaledOps(r, w, 0)
                       \cup (IF r.type = 4 THEN ScaledOps(r, w, 1) ELSE {})
  /\ y.key = IF "frequency" \notin flags THEN x.key
             ELSE IF on THEN x.key \cup Ops(Held(r)) ELSE x.key \ Ops(Held(r))

LEMMA UpdateVoice ==
  ASSUME NEW x, Settled(x), NEW r, Placed(r), NEW w \in 0 .. 3, NEW flags, NEW on
  PROVE  VoiceWritten(x, update_voice(x, r, w, flags, on), r, w, flags, on)
<1> DEFINE y == Connect(x, r)
           z == IF r.type = 4 THEN WriteHalf(y, r, w, flags, on, 1) ELSE y
           q == WriteHalf(z, r, w, flags, on, 0)
           v == r.voice
<1>1. update_voice(x, r, w, flags, on) = q
  BY DEF update_voice, Placed
<1>2. Settled(y) /\ y.sel = NewSel(x, r) /\ y.key = x.key /\ y.scaled = x.scaled /\ y.con = x.con
  BY ConnectSettled
<1>3. /\ r.type \in {2, 4} /\ v \in Voice
      /\ r.type = 4 => v + Span \in Voice /\ Held(r) = {v, v + Span} /\ v \in Bases
      /\ r.type = 2 => Held(r) = {v}
  BY PlacedHalves DEF Placed
<1>4. v = r.voice + 0 * Span /\ v + Span = r.voice + 1 * Span
  <2>1. v \in Nat /\ Span \in Nat
    BY <1>3, Channels
  <2>2. 0 * Span = 0 /\ 1 * Span = Span
    BY <2>1
  <2> QED BY <2>1, <2>2
<1>5. y.mode[v] = (IF r.type = 4 THEN "4op" ELSE "2op")
      /\ (r.type = 4 => y.mode[v + Span] = "4op2")
  <2>1. y \in Chip /\ Paired(y) /\ ModesOf(y, NewSel(x, r))
    BY <1>2 DEF Settled, Good
  <2> HIDE DEF y, v
  <2>2. CASE r.type = 4
    <3>1. v \in conn_sel(v) /\ v \in Bases
      BY <1>3, <2>2 DEF conn_sel
    <3>2. v \in NewSel(x, r)
      BY <2>2, <3>1 DEF NewSel, v
    <3> QED BY <2>1, <2>2, <3>1, <3>2, <1>3 DEF ModesOf, Paired
  <2>3. CASE r.type = 2
    <3>1. y.mode[v] # "4op"
      <4>1. ASSUME v \in Bases PROVE v \notin NewSel(x, r)
        BY <2>3, <4>1 DEF NewSel, conn_sel, v
      <4> QED BY <2>1, <4>1, <1>3 DEF ModesOf, Paired
    <3>2. y.mode[v] # "4op2"
      <4>1. SUFFICES ASSUME v - Span \in Bases, y.mode[v - Span] = "4op" PROVE FALSE
        BY <2>1, <1>3 DEF Paired
      <4>2. v - Span \in conn_sel(v)
        <5>1. (v - Span) + Span = v
          BY <1>3, Channels
        <5> QED BY <4>1, <5>1 DEF conn_sel
      <4>3. v - Span \notin NewSel(x, r)
        BY <2>3, <4>2 DEF NewSel, v
      <4> QED BY <2>1, <4>1, <4>3 DEF ModesOf
    <3> QED BY <1>3, <2>1, <2>3, <3>1, <3>2 DEF Chip
  <2> QED BY <1>3, <2>2, <2>3
<1>6. x.con \in [Voice -> {0, 1}]
  BY DEF Settled, Good, Chip
<1> HIDE DEF y
<1>7. CASE r.type = 2
  <2>1. z = y
    BY <1>7
  <2>2. HalfWritten(y, q, v, ScaledOps(r, w, 0), w, flags, on)
    <3> HIDE DEF v
    <3> QED BY <1>2, <1>3, <1>4, <2>1, WriteHalfSettled
  <2>3. Keyed(y, v) = Ops(Held(r))
    BY <1>3, <1>5, <1>7 DEF Keyed
  <2> HIDE DEF q, z, v
  <2>4. q.con = [u \in Voice |-> IF u \in Held(r) /\ "connection" \in flags
                                 THEN w % 2 ELSE x.con[u]]
    BY <1>2, <1>3, <1>6, <1>7, <2>2 DEF HalfWritten
  <2> QED BY <1>1, <1>2, <1>3, <1>7, <2>2, <2>3, <2>4 DEF HalfWritten, VoiceWritten
<1>8. CASE r.type = 4
  <2>1. z = WriteHalf(y, r, w, flags, on, 1)
    BY <1>8
  <2>2. HalfWritten(y, z, v + Span, ScaledOps(r, w, 1), w, flags, on)
    <3> HIDE DEF v
    <3> QED BY <1>2, <1>3, <1>4, <1>8, <2>1, WriteHalfSettled
  <2> HIDE DEF z
  <2>3. HalfWritten(z, q, v, ScaledOps(r, w, 0), w, flags, on)
    <3>1. Settled(z)
      BY <2>2 DEF HalfWritten
    <3> HIDE DEF v
    <3> QED BY <1>3, <1>4, <3>1, WriteHalfSettled
  <2>4. Keyed(z, v) = Ops(Held(r)) /\ Keyed(y, v + Span) = {}
    <3>1. z.mode = y.mode
      BY <2>2 DEF HalfWritten
    <3> QED BY <1>3, <1>5, <1>8, <3>1 DEF Keyed
  <2> HIDE DEF q, v
  <2>5. q.con = [u \in Voice |-> IF u \in Held(r) /\ "connection" \in flags
                                 THEN w % 2 ELSE x.con[u]]
    BY <1>2, <1>3, <1>6, <1>8, <2>2, <2>3 DEF HalfWritten
  <2>6. q.key = IF "frequency" \notin flags THEN x.key
                ELSE IF on THEN x.key \cup Ops(Held(r)) ELSE x.key \ Ops(Held(r))
    BY <1>2, <2>2, <2>3, <2>4 DEF HalfWritten
  <2>7. Ops(Held(r)) = Ops({v}) \cup Ops({v + Span})
    BY <1>3, <1>8 DEF Ops
  <2>8. \A o \in ScaledOps(r, w, 1) : o \notin Ops({v})
    <3>1. v + Span # v
      BY <1>3, Channels
    <3> QED BY <1>4, <3>1 DEF ScaledOps, Ops
  <2>9. q.scaled = IF "level" \notin flags THEN x.scaled
                ELSE (x.scaled \ Ops(Held(r))) \cup ScaledOps(r, w, 0) \cup ScaledOps(r, w, 1)
    <3>1. CASE "level" \notin flags
      BY <1>2, <2>2, <2>3, <3>1 DEF HalfWritten
    <3>2. CASE "level" \in flags
      <4>1. q.scaled = (((x.scaled \ Ops({v + Span})) \cup ScaledOps(r, w, 1)) \ Ops({v}))
                         \cup ScaledOps(r, w, 0)
        BY <1>2, <2>2, <2>3, <3>2 DEF HalfWritten
      <4> QED BY <2>7, <2>8, <3>2, <4>1
    <3> QED BY <3>1, <3>2
  <2>10. Settled(q) /\ q.sel = NewSel(x, r)
    BY <1>2, <2>2, <2>3 DEF HalfWritten
  <2> QED BY <1>1, <1>8, <2>5, <2>6, <2>9, <2>10 DEF VoiceWritten
<1> QED BY <1>3, <1>7, <1>8

----------------------------------------------------------------------------
(* The slots.  Written says of the slot contents r, whose connection bits  *)
(* are w, that its channels have the bit and the volume the driver gives.  *)
ScaledFor(r, w) == ScaledOps(r, w, 0) \cup (IF r.type = 4 THEN ScaledOps(r, w, 1) ELSE {})

Written(x, r, w) ==
  /\ \A v \in Held(r) : x.con[v] = w % 2
  /\ x.scaled \cap Ops(Held(r)) = ScaledFor(r, w)

WireOK ==
  /\ wire \in [Slots -> 0 .. 3]
  /\ \A s \in Sounding : <<S[s].type, wire[s]>> \in Timbres

(* The chip is settled, its register is the driver's shadow of it, the     *)
(* keys are on that the driver set, and every sounding slot is written.    *)
ChipInv ==
  /\ Settled(chip)
  /\ chip.sel = conn_shadow
  /\ chip.key = Ops(key_on)
  /\ WireOK
  /\ \A s \in Sounding : Written(chip, S[s], wire[s])

(* Two chips that differ in keys and routing only. *)
Kept(x, y) == Settled(y) /\ y.sel = x.sel /\ y.con = x.con /\ y.scaled = x.scaled

KeysAfter(k, V, flags, on) ==
  IF "frequency" \notin flags THEN k ELSE IF on THEN k \cup Ops(V) ELSE k \ Ops(V)

LEMMA SoundingPlaced ==
  ASSUME IInv, NEW s \in Sounding
  PROVE  s \in Slots /\ s \in Busy /\ Placed(S[s]) /\ Held(S[s]) = Uses(s) /\ S[s].voice # None
         /\ conn_sel(S[s].voice) \subseteq Bases
<1>1. s \in Slots /\ s \in Busy /\ S[s] # Free /\ S[s].voice # None
  BY DEF Sounding, Busy
<1>2. TypeOK /\ PairsWhole
  BY DEF IInv, VoiceOwnership
<1>3. S[s] \in SlotRec /\ Uses(s) = Halves(S[s].type, S[s].voice)
  BY <1>1, <1>2, BusyRec
<1> QED BY <1>1, <1>2, <1>3 DEF PairsWhole, Placed, Held, conn_sel

LEMMA ScaledForOps ==
  ASSUME NEW r, Placed(r), NEW w \in 0 .. 3
  PROVE  ScaledFor(r, w) \subseteq Ops(Held(r))
<1>1. /\ r.type \in {2, 4} /\ r.voice \in Voice
      /\ r.type = 4 => r.voice + Span \in Voice /\ Held(r) = {r.voice, r.voice + Span}
      /\ r.type = 2 => Held(r) = {r.voice}
  BY PlacedHalves
<1>2. r.voice + 0 * Span = r.voice /\ r.voice + 1 * Span = r.voice + Span
  <2>1. r.voice \in Nat /\ Span \in Nat
    BY <1>1, Channels
  <2>2. 0 * Span = 0 /\ 1 * Span = Span
    BY <2>1
  <2> QED BY <2>1, <2>2
<1>3. ScaledOps(r, w, 0) \subseteq Ops({r.voice})
  BY <1>2, ScaledRange DEF ScaledOps, Ops
<1>4. r.type = 4 => ScaledOps(r, w, 1) \subseteq Ops({r.voice + Span})
  BY <1>2, ScaledRange DEF ScaledOps, Ops
<1> QED BY <1>1, <1>3, <1>4 DEF ScaledFor, Ops

(* Writing a slot again, with the flags of any message, changes no more    *)
(* than the keys.                                                          *)
LEMMA SlotWritten ==
  ASSUME IInv, WireOK, NEW x, Settled(x), x.sel = conn_shadow, NEW s \in Busy,
         s \in Sounding => Written(x, S[s], wire[s]), NEW flags, NEW on
  PROVE  LET y == update_voice(x, S[s], wire[s], flags, on) IN
         Kept(x, y) /\ y.key = KeysAfter(x.key, Uses(s), flags, on)
<1> DEFINE r == S[s]
           w == wire[s]
           y == update_voice(x, r, w, flags, on)
<1>1. x \in Chip
  BY DEF Settled, Good
<1>2. CASE s \notin Sounding
  <2>1. r.voice = None /\ Uses(s) = {}
    BY <1>2 DEF Sounding, Uses, Halves
  <2>2. y = x
    BY <2>1 DEF update_voice
  <2>3. Ops({}) = {}
    BY DEF Ops
  <2> QED BY <2>1, <2>2, <2>3 DEF Kept, KeysAfter
<1>3. CASE s \in Sounding
  <2>1. Placed(r) /\ Held(r) = Uses(s) /\ s \in Slots /\ r.voice # None
    BY <1>3, SoundingPlaced
  <2>2. w \in 0 .. 3
    BY <2>1 DEF WireOK
  <2>3. Written(x, r, w)
    BY <1>3
  <2>4. NewSel(x, r) = x.sel
    <3>1. r.type \in {2, 4}
      BY <2>1, PlacedHalves
    <3>2. IF r.type = 4 THEN conn_sel(r.voice) \subseteq conn_shadow
                        ELSE conn_sel(r.voice) \cap conn_shadow = {}
      BY <2>1 DEF IInv, ConnMatches
    <3> QED BY <3>1, <3>2 DEF NewSel
  <2> HIDE DEF r, w
  <2>5. VoiceWritten(x, y, r, w, flags, on)
    <3> HIDE DEF y
    <3> QED BY <2>1, <2>2, UpdateVoice DEF y
  <2> HIDE DEF y
  <2>6. y.con = x.con
    <3>1. x.con = [v \in Voice |-> x.con[v]]
      BY <1>1 DEF Chip
    <3>2. \A v \in Held(r) : x.con[v] = w % 2
      BY <2>3 DEF Written
    <3>3. [v \in Voice |-> IF v \in Held(r) /\ "connection" \in flags THEN w % 2 ELSE x.con[v]]
            = [v \in Voice |-> x.con[v]]
      BY <3>2
    <3> QED BY <2>5, <3>1, <3>3 DEF VoiceWritten
  <2>7. y.scaled = x.scaled
    <3>1. x.scaled \cap Ops(Held(r)) = ScaledFor(r, w)
      BY <2>3 DEF Written
    <3>2. y.scaled = IF "level" \notin flags THEN x.scaled
                     ELSE (x.scaled \ Ops(Held(r))) \cup ScaledFor(r, w)
      BY <2>5 DEF VoiceWritten, ScaledFor
    <3> QED BY <3>1, <3>2
  <2> QED BY <2>1, <2>4, <2>5, <2>6, <2>7 DEF Kept, VoiceWritten, KeysAfter, r, w, y
<1> QED BY <1>2, <1>3

(* The keys of the slots of T that are below n. *)
UsedBelow(T, n) == UNION {Uses(s) : s \in {q \in T : q < n}}

LEMMA NextBelow ==
  ASSUME NEW T \in SUBSET Slots, NEW n \in Nat
  PROVE  /\ n \in T => UsedBelow(T, n + 1) = UsedBelow(T, n) \cup Uses(n)
         /\ n \notin T => UsedBelow(T, n + 1) = UsedBelow(T, n)
<1>1. \A q \in T : q < n + 1 <=> q < n \/ q = n
  <2>1. \A q \in T : q \in Int
    BY DEF Slots
  <2> QED BY <2>1
<1>2. {q \in T : q < n + 1} = {q \in T : q < n} \cup (T \cap {n})
  BY <1>1
<1> QED BY <1>2 DEF UsedBelow

LEMMA AllBelow ==
  ASSUME NEW T \in SUBSET Slots
  PROVE  UsedBelow(T, NUM_SLOTS) = UNION {Uses(s) : s \in T} /\ UsedBelow(T, 0) = {}
<1>1. \A q \in T : q < NUM_SLOTS /\ ~ (q < 0)
  <2>1. NUM_SLOTS \in Nat
    BY VoicesAssumption
  <2>2. \A q \in T : q \in 0 .. NUM_SLOTS - 1
    BY DEF Slots
  <2> QED BY <2>1, <2>2
<1>2. {q \in T : q < NUM_SLOTS} = T /\ {q \in T : q < 0} = {}
  BY <1>1
<1> QED BY <1>2 DEF UsedBelow

LEMMA OpsUnion ==
  ASSUME NEW V, NEW W
  PROVE  Ops(V \cup W) = Ops(V) \cup Ops(W) /\ Ops(V \ W) = Ops(V) \ Ops(W)
  BY DEF Ops

LEMMA KeysTwice ==
  ASSUME NEW k, NEW V, NEW W, NEW flags, NEW on
  PROVE  KeysAfter(KeysAfter(k, V, flags, on), W, flags, on) = KeysAfter(k, V \cup W, flags, on)
<1>1. Ops(V \cup W) = Ops(V) \cup Ops(W)
  BY OpsUnion
<1>2. CASE "frequency" \notin flags
  BY <1>2 DEF KeysAfter
<1>3. CASE "frequency" \in flags /\ on
  BY <1>1, <1>3 DEF KeysAfter
<1>4. CASE "frequency" \in flags /\ ~ on
  BY <1>1, <1>4 DEF KeysAfter
<1> QED BY <1>2, <1>3, <1>4

(* Writing the slots of T, one after another, again changes no more than   *)
(* their keys.                                                             *)
SlotsWritten(x, y, V, flags, on) == Kept(x, y) /\ y.key = KeysAfter(x.key, V, flags, on)

LEMMA RewrittenKeeps ==
  ASSUME IInv, WireOK, NEW x, Settled(x), x.sel = conn_shadow, NEW T \in SUBSET Busy,
         \A s \in T \cap Sounding : Written(x, S[s], wire[s]), NEW flags, NEW on
  PROVE  SlotsWritten(x, Rewritten(x, T, flags, on), UNION {Uses(s) : s \in T}, flags, on)
<1> DEFINE X == {y \in Chip : Kept(x, y)}
           N == NUM_SLOTS
           Step(y, s) == IF s \in T THEN update_voice(y, S[s], wire[s], flags, on) ELSE y
           F == [n \in 0 .. N - 1 |-> [y \in X |-> Step(y, n)]]
           after == CHOOSE g : g = [n \in 0 .. N |->
                      IF n = 0 THEN x
                      ELSE IF n - 1 \in T
                           THEN update_voice(g[n - 1], S[n - 1], wire[n - 1], flags, on)
                      ELSE g[n - 1]]
<1>1. Rewritten(x, T, flags, on) = after[N]
  BY DEF Rewritten
<1>2. N \in Nat /\ T \subseteq Slots /\ Slots = 0 .. N - 1
  BY VoicesAssumption DEF Busy, Slots
<1>3. x \in X
  BY DEF Settled, Good, Kept
<1>4. ASSUME NEW y \in X, NEW s \in 0 .. N - 1
      PROVE  /\ Step(y, s) \in X
             /\ Step(y, s).key = IF s \in T THEN KeysAfter(y.key, Uses(s), flags, on) ELSE y.key
  <2>1. CASE s \in T
    <3>1. s \in Busy /\ Settled(y) /\ y.sel = conn_shadow /\ y.con = x.con /\ y.scaled = x.scaled
      BY <2>1 DEF Kept
    <3>2. s \in Sounding => Written(y, S[s], wire[s])
      <4>1. s \in Sounding => Written(x, S[s], wire[s])
        BY <2>1
      <4> QED BY <3>1, <4>1 DEF Written
    <3>3. Kept(y, update_voice(y, S[s], wire[s], flags, on))
          /\ update_voice(y, S[s], wire[s], flags, on).key = KeysAfter(y.key, Uses(s), flags, on)
      BY <3>1, <3>2, SlotWritten
    <3> QED BY <2>1, <3>1, <3>3 DEF Kept, Settled, Good
  <2>2. CASE s \notin T
    BY <2>2
  <2> QED BY <2>1, <2>2
<1> HIDE DEF X, Step
<1>5. \E f : Loops(X, x, N, F, f)
  <2>1. F \in [0 .. N - 1 -> [X -> X]]
    BY <1>4
  <2>2. N \in Nat
    BY <1>2
  <2> HIDE DEF F, N
  <2> QED BY <1>3, <2>1, <2>2, LoopDefined
<1>6. PICK f \in [0 .. N -> X] : f[0] = x /\ \A n \in 0 .. N - 1 : f[n + 1] = F[n][f[n]]
  BY <1>5 DEF Loops
<1>7. \A n \in 0 .. N - 1 : f[n] \in X /\ f[n + 1] = Step(f[n], n)
  <2>1. SUFFICES ASSUME NEW n \in 0 .. N - 1
        PROVE  f[n] \in X /\ f[n + 1] = Step(f[n], n)
    OBVIOUS
  <2>2. n \in 0 .. N /\ f[n] \in X
    BY <1>2, <1>6
  <2>3. F[n] = [y \in X |-> Step(y, n)]
    OBVIOUS
  <2> QED BY <1>6, <2>2, <2>3
<1>8. f = [n \in 0 .. N |->
             IF n = 0 THEN x
             ELSE IF n - 1 \in T THEN update_voice(f[n - 1], S[n - 1], wire[n - 1], flags, on)
             ELSE f[n - 1]]
  <2>1. \A n \in 0 .. N : n # 0 => f[n] = Step(f[n - 1], n - 1)
    BY <1>2, <1>7
  <2> QED BY <1>6, <2>1 DEF Step
<1>9. after = [n \in 0 .. N |->
             IF n = 0 THEN x
             ELSE IF n - 1 \in T THEN update_voice(after[n - 1], S[n - 1], wire[n - 1], flags, on)
             ELSE after[n - 1]]
  BY <1>8
<1> HIDE DEF after
<1>10. \A n \in 0 .. N - 1 : after[n + 1] = Step(after[n], n)
  BY <1>2, <1>9 DEF Step
<1>11. after[0] = x
  BY <1>2, <1>9
<1> DEFINE Upto(n) == /\ after[n] \in X
                      /\ after[n].key = KeysAfter(x.key, UsedBelow(T, n), flags, on)
           G == {n \in 0 .. N : Upto(n)}
<1>12. 0 .. N \subseteq G
  <2>1. 0 \in G
    <3>1. UsedBelow(T, 0) = {} /\ Ops({}) = {}
      BY <1>2, AllBelow DEF Ops
    <3>2. KeysAfter(x.key, {}, flags, on) = x.key
      <4>1. CASE on
        BY <3>1, <4>1 DEF KeysAfter
      <4>2. CASE ~ on
        BY <3>1, <4>2 DEF KeysAfter
      <4> QED BY <4>1, <4>2
    <3>3. 0 \in 0 .. N
      BY <1>2
    <3> QED BY <1>3, <1>11, <3>1, <3>2, <3>3
  <2>2. ASSUME NEW n \in 0 .. N - 1, n \in G PROVE n + 1 \in G
    <3>1. after[n] \in X /\ after[n + 1] = Step(after[n], n) /\ n \in Nat /\ n + 1 \in 0 .. N
      BY <1>2, <1>10, <2>2
    <3>2. /\ after[n + 1] \in X
          /\ after[n + 1].key = IF n \in T THEN KeysAfter(after[n].key, Uses(n), flags, on)
                                           ELSE after[n].key
      BY <1>4, <3>1
    <3>3. after[n].key = KeysAfter(x.key, UsedBelow(T, n), flags, on)
      BY <2>2
    <3>4. after[n + 1].key = KeysAfter(x.key, UsedBelow(T, n + 1), flags, on)
      <4>1. CASE n \in T
        <5>1. UsedBelow(T, n + 1) = UsedBelow(T, n) \cup Uses(n)
          BY <1>2, <3>1, <4>1, NextBelow
        <5>2. after[n + 1].key
                = KeysAfter(KeysAfter(x.key, UsedBelow(T, n), flags, on), Uses(n), flags, on)
          BY <3>2, <3>3, <4>1
        <5> QED BY <5>1, <5>2, KeysTwice
      <4>2. CASE n \notin T
        <5>1. UsedBelow(T, n + 1) = UsedBelow(T, n)
          BY <1>2, <3>1, <4>2, NextBelow
        <5> QED BY <3>2, <3>3, <4>2, <5>1
      <4> QED BY <4>1, <4>2
    <3> QED BY <3>1, <3>2, <3>4
  <2> HIDE DEF G
  <2> QED BY <1>2, <2>1, <2>2, Upwards
<1>13. Upto(N)
  <2>1. N \in 0 .. N
    BY <1>2
  <2> HIDE DEF Upto
  <2> QED BY <1>12, <2>1
<1> QED BY <1>1, <1>2, <1>13, AllBelow DEF X, SlotsWritten

(* A key-off leaves everything but the keys of its slots. *)
LEMMA KeyOffKeeps ==
  ASSUME IInv, WireOK, NEW x, Settled(x), x.sel = conn_shadow,
         \A s \in Sounding : Written(x, S[s], wire[s]), NEW c, NEW n
  PROVE  /\ Kept(x, KeyOff(x, c, n))
         /\ KeyOff(x, c, n).key = x.key \ Ops(UNION {Uses(s) : s \in WithKey(c, n)})
<1> DEFINE T == WithKey(c, n)
           y == Rewritten(x, T, {"frequency"}, FALSE)
<1>1. T \in SUBSET Busy
  BY DEF WithKey, On
<1> HIDE DEF T
<1>2. SlotsWritten(x, y, UNION {Uses(s) : s \in T}, {"frequency"}, FALSE)
  <2> HIDE DEF y
  <2> QED BY <1>1, RewrittenKeeps DEF y
<1> HIDE DEF y
<1>3. Kept(x, y) /\ y.key = x.key \ Ops(UNION {Uses(s) : s \in T})
  BY <1>2 DEF SlotsWritten, KeysAfter
<1> QED BY <1>3 DEF KeyOff, T, y

(* The slots that the loop over F releases before it comes to slot n. *)
Gone(c, F, n) == UNION {WithKey(c, S[s].key) : s \in {q \in Firsts(F) : q < n}}

LEMMA NextGone ==
  ASSUME NEW c, NEW F \in SUBSET Slots, NEW n \in Nat
  PROVE  /\ n \in Firsts(F) => Gone(c, F, n + 1) = Gone(c, F, n) \cup WithKey(c, S[n].key)
         /\ n \notin Firsts(F) => Gone(c, F, n + 1) = Gone(c, F, n)
<1>1. \A q \in Firsts(F) : q < n + 1 <=> q < n \/ q = n
  <2>1. \A q \in Firsts(F) : q \in Int
    BY DEF Slots, Firsts
  <2> QED BY <2>1
<1>2. {q \in Firsts(F) : q < n + 1} = {q \in Firsts(F) : q < n} \cup (Firsts(F) \cap {n})
  BY <1>1
<1> QED BY <1>2 DEF Gone

(* In the end it has released every slot of a key in F. *)
LEMMA AllGone ==
  ASSUME NEW c, NEW F \in SUBSET On(c)
  PROVE  /\ Gone(c, F, NUM_SLOTS) = {s \in On(c) : \E q \in F : S[q].key = S[s].key}
         /\ Gone(c, F, 0) = {}
<1>1. \A s \in F : s \in Nat /\ s < NUM_SLOTS /\ ~ (s < 0)
  <2>1. NUM_SLOTS \in Nat
    BY VoicesAssumption
  <2>2. \A s \in F : s \in 0 .. NUM_SLOTS - 1
    BY DEF On, Busy, Slots
  <2> QED BY <2>1, <2>2
<1>2. ASSUME NEW q \in F PROVE \E s \in Firsts(F) : S[s].key = S[q].key
  <2> DEFINE same == {s \in F : S[s].key = S[q].key}
             R == {ss \in Nat \X Nat : ss[1] < ss[2]}
  <2>1. q \in same /\ same \in SUBSET Nat
    BY <1>1
  <2>2. IsWellFoundedOn(R, Nat)
    BY NatLessThanWellFounded DEF OpToRel
  <2>3. PICK m \in same : \A s \in same : ~ (<<s, m>> \in R)
    <3> HIDE DEF same, R
    <3> QED BY <2>1, <2>2, WFMin
  <2>4. ASSUME NEW s \in F, S[s].key = S[m].key PROVE m <= s
    <3>1. s \in same /\ s \in Nat /\ m \in Nat
      BY <1>1, <2>4
    <3>2. ~ (<<s, m>> \in R)
      BY <2>3, <3>1
    <3>3. ~ (s < m)
      BY <3>1, <3>2
    <3> QED BY <3>1, <3>3
  <2> QED BY <2>3, <2>4 DEF Firsts
<1>3. {q \in Firsts(F) : q < NUM_SLOTS} = Firsts(F) /\ {q \in Firsts(F) : q < 0} = {}
  BY <1>1 DEF Firsts
<1>4. Firsts(F) \subseteq F
  BY DEF Firsts
<1> QED BY <1>2, <1>3, <1>4 DEF Gone, WithKey

LEMMA ReleasedKeeps ==
  ASSUME IInv, WireOK, NEW x, Settled(x), x.sel = conn_shadow,
         \A s \in Sounding : Written(x, S[s], wire[s]), NEW c, NEW A \in SUBSET On(c)
  PROVE  /\ Kept(x, Released(x, c, A))
         /\ Released(x, c, A).key = x.key \ Ops(UNION {Uses(s) :
               s \in {q \in On(c) : \E z \in A : S[z].key = S[q].key}})
<1> DEFINE X == {y \in Chip : Kept(x, y)}
           N == NUM_SLOTS
           T == Firsts(A)
           Step(y, s) == IF s \in T THEN KeyOff(y, c, S[s].key) ELSE y
           F == [n \in 0 .. N - 1 |-> [y \in X |-> Step(y, n)]]
           after == CHOOSE g : g = [n \in 0 .. N |->
                      IF n = 0 THEN x
                      ELSE IF n - 1 \in T THEN KeyOff(g[n - 1], c, S[n - 1].key)
                      ELSE g[n - 1]]
<1>1. Released(x, c, A) = after[N]
  BY DEF Released
<1>2. N \in Nat /\ T \subseteq Slots /\ Slots = 0 .. N - 1 /\ A \subseteq Slots
  BY VoicesAssumption DEF Busy, Slots, On, Firsts
<1>3. x \in X
  BY DEF Settled, Good, Kept
<1>4. ASSUME NEW y \in X, NEW s \in 0 .. N - 1
      PROVE  /\ Step(y, s) \in X
             /\ Step(y, s).key = IF s \in T
                                 THEN y.key \ Ops(UNION {Uses(q) : q \in WithKey(c, S[s].key)})
                                 ELSE y.key
  <2>1. CASE s \in T
    <3>1. Settled(y) /\ y.sel = conn_shadow /\ y.con = x.con /\ y.scaled = x.scaled
      BY DEF Kept
    <3>2. \A q \in Sounding : Written(y, S[q], wire[q])
      BY <3>1 DEF Written
    <3>3. /\ Kept(y, KeyOff(y, c, S[s].key))
          /\ KeyOff(y, c, S[s].key).key
               = y.key \ Ops(UNION {Uses(q) : q \in WithKey(c, S[s].key)})
      BY <3>1, <3>2, KeyOffKeeps
    <3>4. KeyOff(y, c, S[s].key) \in X
      BY <3>1, <3>3 DEF Kept, Settled, Good
    <3> QED BY <2>1, <3>3, <3>4
  <2>2. CASE s \notin T
    BY <2>2
  <2> QED BY <2>1, <2>2
<1> HIDE DEF X, Step
<1>5. \E f : Loops(X, x, N, F, f)
  <2>1. F \in [0 .. N - 1 -> [X -> X]]
    BY <1>4
  <2>2. N \in Nat
    BY <1>2
  <2> HIDE DEF F, N
  <2> QED BY <1>3, <2>1, <2>2, LoopDefined
<1>6. PICK f \in [0 .. N -> X] : f[0] = x /\ \A n \in 0 .. N - 1 : f[n + 1] = F[n][f[n]]
  BY <1>5 DEF Loops
<1>7. \A n \in 0 .. N - 1 : f[n] \in X /\ f[n + 1] = Step(f[n], n)
  <2>1. SUFFICES ASSUME NEW n \in 0 .. N - 1
        PROVE  f[n] \in X /\ f[n + 1] = Step(f[n], n)
    OBVIOUS
  <2>2. n \in 0 .. N /\ f[n] \in X
    BY <1>2, <1>6
  <2>3. F[n] = [y \in X |-> Step(y, n)]
    OBVIOUS
  <2> QED BY <1>6, <2>2, <2>3
<1>8. f = [n \in 0 .. N |->
             IF n = 0 THEN x
             ELSE IF n - 1 \in T THEN KeyOff(f[n - 1], c, S[n - 1].key)
             ELSE f[n - 1]]
  <2>1. \A n \in 0 .. N : n # 0 => f[n] = Step(f[n - 1], n - 1)
    BY <1>2, <1>7
  <2> QED BY <1>6, <2>1 DEF Step
<1>9. after = [n \in 0 .. N |->
             IF n = 0 THEN x
             ELSE IF n - 1 \in T THEN KeyOff(after[n - 1], c, S[n - 1].key)
             ELSE after[n - 1]]
  BY <1>8
<1> HIDE DEF after
<1>10. \A n \in 0 .. N - 1 : after[n + 1] = Step(after[n], n)
  BY <1>2, <1>9 DEF Step
<1>11. after[0] = x
  BY <1>2, <1>9
<1> DEFINE Silenced(n) == UNION {Uses(s) : s \in Gone(c, A, n)}
           Upto(n) == after[n] \in X /\ after[n].key = x.key \ Ops(Silenced(n))
           G == {n \in 0 .. N : Upto(n)}
<1>12. 0 .. N \subseteq G
  <2>1. 0 \in G
    <3>1. Silenced(0) = {} /\ Ops({}) = {}
      BY <1>2, AllGone DEF Ops
    <3>2. 0 \in 0 .. N
      BY <1>2
    <3> HIDE DEF Silenced
    <3> QED BY <1>3, <1>11, <3>1, <3>2
  <2>2. ASSUME NEW n \in 0 .. N - 1, n \in G PROVE n + 1 \in G
    <3>1. after[n] \in X /\ after[n + 1] = Step(after[n], n) /\ n \in Nat /\ n + 1 \in 0 .. N
      BY <1>2, <1>10, <2>2
    <3> DEFINE new == UNION {Uses(q) : q \in WithKey(c, S[n].key)}
    <3>2. /\ after[n + 1] \in X
          /\ after[n + 1].key = IF n \in T THEN after[n].key \ Ops(new) ELSE after[n].key
      BY <1>4, <3>1
    <3>3. after[n].key = x.key \ Ops(Silenced(n))
      BY <2>2
    <3>4. n \in T => Silenced(n + 1) = Silenced(n) \cup new
      <4>1. n \in T => Gone(c, A, n + 1) = Gone(c, A, n) \cup WithKey(c, S[n].key)
        BY <1>2, <3>1, NextGone
      <4> QED BY <4>1
    <3>5. n \notin T => Silenced(n + 1) = Silenced(n)
      BY <1>2, <3>1, NextGone
    <3> HIDE DEF new, Silenced
    <3>6. Ops(Silenced(n) \cup new) = Ops(Silenced(n)) \cup Ops(new)
      BY OpsUnion
    <3> QED BY <3>1, <3>2, <3>3, <3>4, <3>5, <3>6
  <2> HIDE DEF G
  <2> QED BY <1>2, <2>1, <2>2, Upwards
<1>13. Upto(N)
  <2>1. N \in 0 .. N
    BY <1>2
  <2> HIDE DEF Upto
  <2> QED BY <1>12, <2>1
<1> QED BY <1>1, <1>13, AllGone DEF X

----------------------------------------------------------------------------
(* The messages.  Rewriting slots that have what they need moves no bit of *)
(* the connection-select register.                                         *)
LEMMA JoinedSame ==
  ASSUME IInv, NEW T \in SUBSET Busy
  PROVE  Joined({S[q] : q \in Voiced(T)}) = conn_shadow
<1> DEFINE R == {S[q] : q \in Voiced(T)}
<1>1. ASSUME NEW r \in R
      PROVE  /\ r.type = 4 => conn_sel(r.voice) \subseteq conn_shadow
             /\ r.type = 2 => conn_sel(r.voice) \cap conn_shadow = {}
  <2>1. PICK q \in Voiced(T) : r = S[q]
    OBVIOUS
  <2>2. q \in Busy /\ S[q].voice # None
    BY DEF Voiced
  <2> QED BY <2>1, <2>2 DEF IInv, ConnMatches
<1> HIDE DEF R
<1> DEFINE A == UNION {conn_sel(r.voice) : r \in {q \in R : q.type = 4}}
           B == UNION {conn_sel(r.voice) : r \in {q \in R : q.type = 2}}
<1>2. A \subseteq conn_shadow
  BY <1>1
<1>3. \A b \in B : b \notin conn_shadow
  BY <1>1
<1>4. Joined(R) = (conn_shadow \cup A) \ B
  BY DEF Joined
<1> HIDE DEF A, B
<1>5. Joined(R) = conn_shadow
  BY <1>2, <1>3, <1>4
<1> QED BY <1>5 DEF R

(* A message that starts no note. *)
LEMMA SlotsKept ==
  ASSUME ChipInv, Kept(chip, chip'), conn_shadow' = conn_shadow, chip'.key = Ops(key_on'),
         wire' \in [Slots -> 0 .. 3],
         \A s \in Sounding' : /\ s \in Sounding /\ wire'[s] = wire[s]
                              /\ S'[s].type = S[s].type /\ S'[s].voice = S[s].voice
  PROVE  ChipInv'
<1>1. WireOK'
  BY DEF ChipInv, WireOK
<1>2. ASSUME NEW s \in Sounding' PROVE Written(chip', S'[s], wire'[s])
  <2>1. Written(chip, S[s], wire[s]) /\ wire'[s] = wire[s]
        /\ S'[s].type = S[s].type /\ S'[s].voice = S[s].voice
    BY DEF ChipInv
  <2>2. Held(S'[s]) = Held(S[s]) /\ ScaledFor(S'[s], wire[s]) = ScaledFor(S[s], wire[s])
    BY <2>1 DEF Held, ScaledFor, ScaledOps
  <2> QED BY <2>1, <2>2 DEF Written, Kept
<1>3. Settled(chip') /\ chip'.sel = conn_shadow'
  BY DEF ChipInv, Kept
<1> QED BY <1>1, <1>2, <1>3 DEF ChipInv

LEMMA WiredKeeps ==
  ASSUME WireOK, NEW T, Wired(T)
  PROVE  wire' \in [Slots -> 0 .. 3] /\ \A s \in Slots \ T : wire'[s] = wire[s]
  BY DEF WireOK, Wired

(* The slots of T are released. *)
LEMMA SlotsReleased ==
  ASSUME IInv, ChipInv, NEW T \in SUBSET Busy, ReleaseSlots(T), Wired(T),
         Kept(chip, chip'), chip'.key = chip.key \ Ops(UNION {Uses(s) : s \in T})
  PROVE  ChipInv'
<1>1. conn_shadow' = conn_shadow
  BY JoinedSame DEF ReleaseSlots
<1>2. chip'.key = Ops(key_on')
  <2>1. key_on' = key_on \ UNION {Uses(s) : s \in T}
    BY DEF ReleaseSlots
  <2> QED BY <2>1, OpsUnion DEF ChipInv
<1>3. wire' \in [Slots -> 0 .. 3] /\ \A s \in Slots \ T : wire'[s] = wire[s]
  BY WiredKeeps DEF ChipInv
<1>4. \A s \in Sounding' : /\ s \in Sounding /\ wire'[s] = wire[s]
                           /\ S'[s].type = S[s].type /\ S'[s].voice = S[s].voice
  <2>1. S' = [s \in Slots |-> IF s \in T THEN Free ELSE S[s]]
    BY DEF ReleaseSlots
  <2>2. ASSUME NEW s \in Sounding' PROVE s \in Slots \ T /\ S'[s] = S[s] /\ s \in Sounding
    BY <2>1 DEF Sounding, Busy
  <2> QED BY <1>3, <2>2
<1> QED BY <1>1, <1>2, <1>3, <1>4, SlotsKept

LEMMA ChipSame ==
  ASSUME ChipInv, KeepChip, UNCHANGED <<conn_shadow, key_on>>,
         \A s \in Slots : /\ S'[s] = Free <=> S[s] = Free
                          /\ S[s] # Free => S'[s].type = S[s].type /\ S'[s].voice = S[s].voice
  PROVE  ChipInv'
<1>1. Kept(chip, chip') /\ chip'.key = Ops(key_on')
  BY DEF ChipInv, Kept, KeepChip
<1>2. wire' \in [Slots -> 0 .. 3]
  BY DEF ChipInv, WireOK, KeepChip
<1>3. \A s \in Sounding' : /\ s \in Sounding /\ wire'[s] = wire[s]
                           /\ S'[s].type = S[s].type /\ S'[s].voice = S[s].voice
  BY DEF Sounding, Busy, KeepChip
<1> QED BY <1>1, <1>2, <1>3, SlotsKept

LEMMA ChipSustained ==
  ASSUME IInv, ChipInv, KeepChip, NEW c, NEW T \in SUBSET Busy, KeysOff(c, T), c \in MIDI_sus
  PROVE  ChipInv'
<1>1. Sustain(T) /\ UNCHANGED <<conn_shadow, key_on>>
  BY DEF KeysOff
<1>2. ASSUME NEW s \in Slots
      PROVE  /\ S'[s] = Free <=> S[s] = Free
             /\ S[s] # Free => S'[s].type = S[s].type /\ S'[s].voice = S[s].voice
  <2>1. CASE s \in T
    <3>1. S[s] \in SlotRec /\ S[s] # Free
      BY <2>1, BusyRec DEF IInv
    <3>2. S'[s] = [S[s] EXCEPT !.sustain = 1]
      BY <1>1, <2>1 DEF Sustain
    <3>3. S'[s] \in SlotRec /\ S'[s].type = S[s].type /\ S'[s].voice = S[s].voice
      BY <3>1, <3>2 DEF SlotRec
    <3>4. Free \notin SlotRec
      BY VoicesAssumption
    <3> QED BY <3>1, <3>3, <3>4
  <2>2. CASE s \notin T
    BY <1>1, <2>2 DEF Sustain
  <2> QED BY <2>1, <2>2
<1> QED BY <1>1, <1>2, ChipSame

(* Preconditions of the loops. *)
LEMMA ChipReady ==
  ASSUME ChipInv
  PROVE  /\ WireOK /\ Settled(chip) /\ chip.sel = conn_shadow
         /\ \A s \in Sounding : Written(chip, S[s], wire[s])
  BY DEF ChipInv

LEMMA NoteOffChip ==
  ASSUME IInv, ChipInv, NEW c \in Chans, NEW n, ChipNoteOff(c, n)
  PROVE  ChipInv'
<1>1. KeysOff(c, WithKey(c, n)) /\ WithKey(c, n) \in SUBSET Busy
  BY DEF ChipNoteOff, note_off, WithKey, On
<1>2. CASE c \in MIDI_sus
  BY <1>1, <1>2, ChipSustained DEF ChipNoteOff
<1>3. CASE c \notin MIDI_sus
  <2>1. chip' = KeyOff(chip, c, n) /\ Wired(WithKey(c, n)) /\ ReleaseSlots(WithKey(c, n))
    BY <1>1, <1>3 DEF ChipNoteOff, KeysOff
  <2>2. Kept(chip, chip') /\ chip'.key = chip.key \ Ops(UNION {Uses(s) : s \in WithKey(c, n)})
    BY <2>1, ChipReady, KeyOffKeeps
  <2> QED BY <1>1, <2>1, <2>2, SlotsReleased
<1> QED BY <1>2, <1>3

LEMMA NotesOffChip ==
  ASSUME IInv, ChipInv, NEW c \in Chans, ChipNotesOff(c)
  PROVE  ChipInv'
<1>1. KeysOff(c, On(c)) /\ On(c) \in SUBSET Busy
  BY DEF ChipNotesOff, all_notes_off, On
<1>2. CASE c \in MIDI_sus
  BY <1>1, <1>2, ChipSustained DEF ChipNotesOff
<1>3. CASE c \notin MIDI_sus
  <2>1. chip' = Released(chip, c, On(c)) /\ Wired(On(c)) /\ ReleaseSlots(On(c))
    BY <1>1, <1>3 DEF ChipNotesOff, KeysOff
  <2>2. {q \in On(c) : \E z \in On(c) : S[z].key = S[q].key} = On(c)
    OBVIOUS
  <2>3. Kept(chip, chip') /\ chip'.key = chip.key \ Ops(UNION {Uses(s) : s \in On(c)})
    <3>1. On(c) \in SUBSET On(c)
      OBVIOUS
    <3>2. /\ Kept(chip, Released(chip, c, On(c)))
          /\ Released(chip, c, On(c)).key = chip.key \ Ops(UNION {Uses(s) :
               s \in {q \in On(c) : \E z \in On(c) : S[z].key = S[q].key}})
      BY <3>1, ChipReady, ReleasedKeeps
    <3> QED BY <2>1, <2>2, <3>2
  <2> QED BY <1>1, <2>1, <2>3, SlotsReleased
<1> QED BY <1>2, <1>3

(* The loop at the end of the pedal releases the pedal's slots. *)
LEMMA PedalReleased ==
  ASSUME IInv, ChipInv, NEW c
  PROVE  /\ Kept(chip, Released(chip, c, Sustained(c)))
         /\ Released(chip, c, Sustained(c)).key
              = chip.key \ Ops(UNION {Uses(s) : s \in PedalSlots(c)})
<1>1. Sustained(c) \in SUBSET On(c)
  BY DEF Sustained
<1>2. {q \in On(c) : \E z \in Sustained(c) : S[z].key = S[q].key} = PedalSlots(c)
  BY DEF PedalSlots, Sustained
<1>3. /\ Kept(chip, Released(chip, c, Sustained(c)))
      /\ Released(chip, c, Sustained(c)).key = chip.key \ Ops(UNION {Uses(s) :
           s \in {q \in On(c) : \E z \in Sustained(c) : S[z].key = S[q].key}})
  BY <1>1, ChipReady, ReleasedKeeps
<1> QED BY <1>2, <1>3

LEMMA PedalUpChip ==
  ASSUME IInv, ChipInv, NEW c \in Chans, ChipPedalUp(c)
  PROVE  ChipInv'
<1>1. chip' = Released(chip, c, Sustained(c)) /\ Wired(PedalSlots(c)) /\ ReleaseSlots(PedalSlots(c))
  BY DEF ChipPedalUp, pedal_up
<1>2. PedalSlots(c) \in SUBSET Busy
  BY DEF PedalSlots, On
<1> QED BY <1>1, <1>2, PedalReleased, SlotsReleased

LEMMA ResetControllersChip ==
  ASSUME IInv, ChipInv, NEW c \in Chans, ChipReset_controllers(c)
  PROVE  ChipInv'
<1> DEFINE P == PedalSlots(c)
           T == On(c) \ P
           x == Released(chip, c, Sustained(c))
<1>1. reset_all_controllers(c) /\ chip' = Rewritten(x, T, AllRegs, TRUE) /\ Wired(P)
  BY DEF ChipReset_controllers
<1>2. T \in SUBSET Busy /\ P \in SUBSET On(c)
  BY DEF PedalSlots, On
<1>3. Kept(chip, x) /\ x.key = chip.key \ Ops(UNION {Uses(s) : s \in P})
  BY PedalReleased
<1> HIDE DEF x, P
<1>4. Settled(x) /\ x.sel = conn_shadow /\ \A s \in T \cap Sounding : Written(x, S[s], wire[s])
  BY <1>3, ChipReady DEF Kept, Written
<1>5. SlotsWritten(x, Rewritten(x, T, AllRegs, TRUE), UNION {Uses(s) : s \in T}, AllRegs, TRUE)
  <2> HIDE DEF T
  <2> QED BY <1>2, <1>4, ChipReady, RewrittenKeeps
<1>6. Kept(x, chip') /\ chip'.key = x.key \cup Ops(UNION {Uses(s) : s \in T})
  BY <1>1, <1>5 DEF SlotsWritten, KeysAfter, AllRegs
<1>7. Kept(chip, chip')
  BY <1>3, <1>6 DEF Kept
<1>8. conn_shadow' = conn_shadow
  <2>1. On(c) \in SUBSET Busy
    BY DEF On
  <2> QED BY <1>1, <2>1, JoinedSame DEF reset_all_controllers
<1>9. chip'.key = Ops(key_on')
  <2> DEFINE gone == UNION {Uses(s) : s \in P}
             rest == UNION {Uses(s) : s \in T}
  <2>1. UNION {Uses(s) : s \in Voiced(T)} = rest
    <3>1. \A s \in T : s \notin Voiced(T) => Uses(s) = {}
      BY <1>2 DEF Voiced, Uses, Halves
    <3>2. Voiced(T) \subseteq T
      BY DEF Voiced
    <3> QED BY <3>1, <3>2
  <2>2. key_on' = (key_on \ gone) \cup rest
    BY <1>1, <2>1 DEF reset_all_controllers, P
  <2>3. chip'.key = (Ops(key_on) \ Ops(gone)) \cup Ops(rest)
    BY <1>3, <1>6 DEF ChipInv
  <2> HIDE DEF gone, rest
  <2>4. Ops((key_on \ gone) \cup rest) = Ops(key_on \ gone) \cup Ops(rest)
        /\ Ops(key_on \ gone) = Ops(key_on) \ Ops(gone)
    BY OpsUnion
  <2> QED BY <2>2, <2>3, <2>4
<1>10. wire' \in [Slots -> 0 .. 3] /\ \A s \in Slots \ P : wire'[s] = wire[s]
  BY <1>1, ChipReady, WiredKeeps
<1>11. \A s \in Sounding' : /\ s \in Sounding /\ wire'[s] = wire[s]
                            /\ S'[s].type = S[s].type /\ S'[s].voice = S[s].voice
  <2>1. S' = [s \in Slots |-> IF s \in P THEN Free ELSE S[s]]
    BY <1>1 DEF reset_all_controllers, P
  <2>2. ASSUME NEW s \in Sounding' PROVE s \in Slots \ P /\ S'[s] = S[s] /\ s \in Sounding
    BY <2>1 DEF Sounding, Busy
  <2> QED BY <1>10, <2>2
<1> QED BY <1>7, <1>8, <1>9, <1>10, <1>11, SlotsKept

LEMMA RefreshChip ==
  ASSUME IInv, ChipInv, NEW c \in Chans, ChipRefresh(c)
  PROVE  ChipInv'
<1> DEFINE T == On(c)
           V == UNION {Uses(s) : s \in T}
<1>1. PICK flags \in {{"level"}, {"connection"}, {"frequency"}} :
        chip' = Rewritten(chip, T, flags, TRUE)
  BY DEF ChipRefresh
<1>2. refresh(c) /\ wire' = wire
  BY DEF ChipRefresh
<1>3. T \in SUBSET Busy
  BY DEF On
<1>4. SlotsWritten(chip, Rewritten(chip, T, flags, TRUE), UNION {Uses(s) : s \in T}, flags, TRUE)
  <2> HIDE DEF T
  <2>1. \A s \in T \cap Sounding : Written(chip, S[s], wire[s])
    BY ChipReady
  <2> QED BY <1>3, <2>1, ChipReady, RewrittenKeeps
<1>5. V \subseteq key_on
  BY <1>3 DEF IInv, NoStuckVoice, Busy
<1>6. key_on' = key_on
  BY <1>2, <1>5 DEF refresh
<1>7. chip'.key = Ops(key_on')
  <2>1. key_on \cup V = key_on
    BY <1>5
  <2> HIDE DEF V
  <2>2. Ops(key_on) \cup Ops(V) = Ops(key_on)
    BY <2>1, OpsUnion
  <2> QED BY <1>1, <1>4, <1>6, <2>2 DEF SlotsWritten, KeysAfter, ChipInv, V
<1>8. conn_shadow' = conn_shadow
  BY <1>2, <1>3, JoinedSame DEF refresh
<1>9. \A s \in Sounding' : /\ s \in Sounding /\ wire'[s] = wire[s]
                           /\ S'[s].type = S[s].type /\ S'[s].voice = S[s].voice
  BY <1>2 DEF refresh, Sounding, Busy
<1>10. Kept(chip, chip') /\ wire' \in [Slots -> 0 .. 3]
  BY <1>1, <1>2, <1>4, ChipReady DEF SlotsWritten, WireOK
<1> QED BY <1>7, <1>8, <1>9, <1>10, SlotsKept

(* A note starts in a free slot, on voices no other slot uses. *)
LEMMA NoteOnChip ==
  ASSUME IInv, IInv', TimbresAssumption, ChipInv, NEW c \in Chans, NEW n \in Keys, ChipNoteOn(c, n)
  PROVE  ChipInv'
<1>1. PICK s \in Slots, w \in 0 .. 3 :
        /\ S[s] = Free /\ S'[s] # Free /\ <<S'[s].type, w>> \in Timbres
        /\ wire' = [wire EXCEPT ![s] = w]
        /\ chip' = update_voice(chip, S'[s], w, AllRegs, TRUE)
  BY DEF ChipNoteOn
<1>2. PICK q \in Slots \ Busy, t \in {2, 4} : assign_voice(q, t, c, n)
  BY DEF ChipNoteOn, note_on
<1>3. TypeOK /\ VoiceOwnership
  BY DEF IInv
<1>4. PICK v \in Voice \cup {None} : Start(q, t, c, n, v)
  BY <1>2, <1>3, AssignStarts
<1> DEFINE r == [type |-> t, voice |-> v, channel |-> c, key |-> n, sustain |-> 0]
<1>5. S' = [S EXCEPT ![q] = r]
  BY <1>4 DEF Start
<1>6. q = s /\ S'[s] = r /\ \A z \in Slots \ {s} : S'[z] = S[z]
  <2>1. S \in [Slots -> SlotRec \cup {Free}]
    BY <1>3 DEF TypeOK
  <2> HIDE DEF r
  <2> QED BY <1>1, <1>5, <2>1
<1>7. r.type = t /\ r.voice = v /\ r.type \in {2, 4}
  OBVIOUS
<1>8. key_on' = key_on \cup Halves(t, v)
      /\ conn_shadow' = IF v = None THEN conn_shadow ELSE Joined({r})
  BY <1>4 DEF Start
<1> HIDE DEF r
<1>9. WireOK'
  <2>1. wire' \in [Slots -> 0 .. 3] /\ wire'[s] = w /\ \A z \in Slots \ {s} : wire'[z] = wire[z]
    BY <1>1 DEF ChipInv, WireOK
  <2>2. ASSUME NEW z \in Sounding' PROVE <<S'[z].type, wire'[z]>> \in Timbres
    <3>1. CASE z = s
      BY <1>1, <2>1, <3>1
    <3>2. CASE z # s
      <4>1. z \in Slots \ {s} /\ z \in Sounding
        BY <1>6, <3>2 DEF Sounding, Busy
      <4>2. <<S[z].type, wire[z]>> \in Timbres
        BY <4>1 DEF ChipInv, WireOK
      <4> QED BY <1>6, <2>1, <4>1, <4>2
    <3> QED BY <3>1, <3>2
  <2> QED BY <2>1, <2>2 DEF WireOK
<1>10. wire'[s] = w /\ \A z \in Slots \ {s} : wire'[z] = wire[z]
  BY <1>1 DEF ChipInv, WireOK
<1>11. \A z \in Sounding' \ {s} : z \in Sounding /\ z \in Slots
  BY <1>6 DEF Sounding, Busy
<1>12. Settled(chip) /\ chip.sel = conn_shadow /\ chip.key = Ops(key_on)
       /\ \A z \in Sounding : Written(chip, S[z], wire[z])
  BY DEF ChipInv
<1>13. CASE v = None
  <2>1. chip' = chip
    BY <1>1, <1>6, <1>7, <1>13 DEF update_voice
  <2>2. s \notin Sounding'
    BY <1>6, <1>7, <1>13 DEF Sounding
  <2>3. key_on' = key_on /\ conn_shadow' = conn_shadow
    BY <1>8, <1>13 DEF Halves
  <2>4. \A z \in Sounding' : Written(chip', S'[z], wire'[z])
    BY <1>6, <1>10, <1>11, <1>12, <2>1, <2>2
  <2> QED BY <1>9, <1>12, <2>1, <2>3, <2>4 DEF ChipInv
<1>14. CASE v # None
  <2>1. s \in Sounding'
    BY <1>1, <1>6, <1>7, <1>14 DEF Sounding, Busy
  <2>2. Placed(r) /\ Held(r) = Uses(s)'
    <3>1. s \in Busy' /\ TypeOK' /\ PairsWhole'
      BY <2>1 DEF Sounding, IInv, VoiceOwnership
    <3>2. S'[s] \in SlotRec
      BY <3>1 DEF TypeOK, Busy
    <3>3. S'[s].type = 4 => S'[s].voice \in Bases
      BY <1>6, <1>7, <1>14, <3>1 DEF PairsWhole
    <3> QED BY <1>1, <1>6, <1>7, <1>14, <3>2, <3>3 DEF Placed, Held, Uses
  <2>3. VoiceWritten(chip, chip', r, w, AllRegs, TRUE)
    BY <1>1, <1>6, <1>12, <2>2, UpdateVoice
  <2>4. Settled(chip') /\ chip'.sel = NewSel(chip, r) /\ chip'.key = chip.key \cup Ops(Held(r))
    BY <2>3 DEF VoiceWritten, AllRegs
  <2>5. chip'.sel = conn_shadow'
    <3>1. conn_shadow' = IF r.type = 4 THEN conn_shadow \cup conn_sel(r.voice)
                                       ELSE conn_shadow \ conn_sel(r.voice)
      BY <1>7, <1>8, <1>14, JoinedOne
    <3> QED BY <1>12, <2>4, <3>1 DEF NewSel
  <2>6. chip'.key = Ops(key_on')
    <3>1. Held(r) = Halves(t, v)
      BY <1>7 DEF Held
    <3>2. Ops(key_on \cup Halves(t, v)) = Ops(key_on) \cup Ops(Halves(t, v))
      BY OpsUnion
    <3> QED BY <1>8, <1>12, <2>4, <3>1, <3>2
  <2>7. Held(r) \subseteq Voice
    BY <2>2, PlacedHalves
  <2>8. /\ \A u \in Held(r) : chip'.con[u] = w % 2
        /\ \A u \in Voice \ Held(r) : chip'.con[u] = chip.con[u]
        /\ chip'.scaled = (chip.scaled \ Ops(Held(r))) \cup ScaledFor(r, w)
    BY <2>3, <2>7 DEF VoiceWritten, AllRegs, ScaledFor
  <2>9. ScaledFor(r, w) \subseteq Ops(Held(r))
    BY <2>2, ScaledForOps
  <2>10. Written(chip', S'[s], wire'[s])
    BY <1>6, <1>10, <2>8, <2>9 DEF Written
  <2>11. ASSUME NEW z \in Sounding', z # s PROVE Written(chip', S'[z], wire'[z])
    <3>1. z \in Sounding /\ z \in Slots /\ S'[z] = S[z] /\ wire'[z] = wire[z]
      BY <1>6, <1>10, <1>11, <2>11
    <3>2. Held(S[z]) = Uses(z)' /\ Held(S[z]) \subseteq Voice
      <4>1. Placed(S[z]) /\ Held(S[z]) = Uses(z) /\ z \in Slots
        BY <3>1, SoundingPlaced
      <4> QED BY <3>1, <4>1, PlacedHalves DEF Uses
    <3>3. Held(S[z]) \cap Held(r) = {}
      <4>1. Uses(z)' \cap Uses(s)' = {}
        BY <3>1, <2>11 DEF IInv, VoiceOwnership, Exclusive
      <4> QED BY <2>2, <3>2, <4>1
    <3>4. Written(chip, S[z], wire[z])
      BY <1>12, <3>1
    <3>5. \A u \in Held(S[z]) : chip'.con[u] = wire[z] % 2
      BY <2>8, <3>2, <3>3, <3>4 DEF Written
    <3>6. Ops(Held(S[z])) \cap Ops(Held(r)) = {}
      BY <3>3 DEF Ops
    <3>7. chip'.scaled \cap Ops(Held(S[z])) = chip.scaled \cap Ops(Held(S[z]))
      BY <2>8, <2>9, <3>6
    <3> QED BY <3>1, <3>4, <3>5, <3>7 DEF Written
  <2> QED BY <1>9, <2>4, <2>5, <2>6, <2>10, <2>11 DEF ChipInv
<1> QED BY <1>13, <1>14

LEMMA ResetGood == Good(ChipReset) /\ ChipReset.sel = {} /\ ChipReset.key = {}
                   /\ ModesOf(ChipReset, {})
<1>1. /\ ChipReset.sel = {} /\ ChipReset.key = {} /\ ChipReset.scaled = {}
      /\ ChipReset.mode = [v \in Voice |-> "2op"] /\ ChipReset.con = [v \in Voice |-> 0]
      /\ ChipReset.mod = [o \in Op |-> IF o[2] = 0 THEN o ELSE <<o[1], 0>>]
      /\ ChipReset.out = [v \in Voice |-> {<<v, 1>>}]
      /\ ChipReset = [sel |-> {}, mode |-> ChipReset.mode, con |-> ChipReset.con,
                      mod |-> ChipReset.mod, out |-> ChipReset.out, key |-> {}, scaled |-> {}]
  BY DEF ChipReset
<1> DEFINE m == [o \in Op |-> IF o[2] = 0 THEN o ELSE <<o[1], 0>>]
<1>2. \A v \in Voice : <<v, 0>> \in Op /\ <<v, 1>> \in Op /\ m[<<v, 0>>] = <<v, 0>> /\ m[<<v, 1>>] = <<v, 0>>
  BY DEF Op
<1>3. m \in [Op -> Op \cup {Zero}]
  BY DEF Op
<1> HIDE DEF m
<1>4. ChipReset.mod = m
  BY <1>1 DEF m
<1>5. ChipReset \in Chip
  <2> DEFINE d == [v \in Voice |-> "2op"]
             z == [v \in Voice |-> 0]
             o == [v \in Voice |-> {<<v, 1>>}]
  <2>1. d \in [Voice -> {"2op", "4op", "4op2"}] /\ z \in [Voice -> {0, 1}]
    OBVIOUS
  <2>2. o \in [Voice -> SUBSET Op]
    BY <1>2
  <2>3. ChipReset = [sel |-> {}, mode |-> d, con |-> z, mod |-> m, out |-> o,
                     key |-> {}, scaled |-> {}]
    BY DEF ChipReset, m
  <2> HIDE DEF d, z, o
  <2>4. [sel |-> {}, mode |-> d, con |-> z, mod |-> m, out |-> o,
         key |-> {}, scaled |-> {}] \in Chip
    BY <1>3, <2>1, <2>2 DEF Chip
  <2> QED BY <2>3, <2>4
<1>6. \A v \in Voice : RoutedAt(ChipReset, v)
  BY <1>1, <1>2, <1>4 DEF RoutedAt, Two
<1>7. Paired(ChipReset)
  BY <1>1 DEF Paired
<1>8. ModesOf(ChipReset, {})
  BY <1>1, Channels DEF ModesOf
<1> QED BY <1>1, <1>5, <1>6, <1>7, <1>8 DEF Good

LEMMA ResetChip ==
  ASSUME NEW x, x = ChipReset, NEW z, z = [s \in Slots |-> 0]
  PROVE  Settled(x) /\ x.sel = {} /\ x.key = Ops({}) /\ z \in [Slots -> 0 .. 3]
  BY ResetGood DEF Settled, Ops

LEMMA InitChip ==
  ASSUME ChipInit
  PROVE  ChipInv
<1>1. Sounding = {} /\ conn_shadow = {} /\ key_on = {}
  BY DEF ChipInit, Init, Sounding, Busy
<1> QED BY <1>1, ResetChip DEF ChipInit, ChipInv, WireOK

LEMMA InitSynthChip ==
  ASSUME ChipInitSynth
  PROVE  ChipInv'
<1>1. Sounding' = {} /\ conn_shadow' = {} /\ key_on' = {}
  BY DEF ChipInitSynth, init_synth, Sounding, Busy
<1> QED BY <1>1, ResetChip DEF ChipInitSynth, ChipInv, WireOK

LEMMA ChipStep ==
  ASSUME IInv, IInv', TimbresAssumption, ChipInv, [ChipNext]_allVars
  PROVE  ChipInv'
<1>1. CASE ChipInitSynth
  BY <1>1, InitSynthChip
<1>2. ASSUME NEW c \in Chans, ChipMessage(c) PROVE ChipInv'
  <2>1. ASSUME NEW n \in Keys, ChipNoteOn(c, n) PROVE ChipInv'
    BY <2>1, NoteOnChip
  <2>2. ASSUME NEW n \in Keys, ChipNoteOff(c, n) PROVE ChipInv'
    BY <2>2, NoteOffChip
  <2>3. CASE ChipNotesOff(c)
    BY <2>3, NotesOffChip
  <2>4. CASE ChipPedalDown(c)
    <3>1. KeepChip /\ UNCHANGED <<S, conn_shadow, key_on>>
      BY <2>4 DEF ChipPedalDown, pedal_down
    <3> QED BY <3>1, ChipSame
  <2>5. CASE ChipPedalUp(c)
    BY <2>5, PedalUpChip
  <2>6. CASE ChipReset_controllers(c)
    BY <2>6, ResetControllersChip
  <2>7. CASE ChipRefresh(c)
    BY <2>7, RefreshChip
  <2> QED BY <1>2, <2>1, <2>2, <2>3, <2>4, <2>5, <2>6, <2>7 DEF ChipMessage
<1>3. CASE UNCHANGED allVars
  <2>1. KeepChip /\ UNCHANGED <<S, conn_shadow, key_on>>
    BY <1>3 DEF allVars, vars, KeepChip
  <2> QED BY <2>1, ChipSame
<1> QED BY <1>1, <1>2, <1>3 DEF ChipNext

----------------------------------------------------------------------------
(* What the settled chip sounds. *)

(* The channels that are routed together with channel v. *)
Together(v) ==
  CASE chip.mode[v] = "2op"  -> {v}
    [] chip.mode[v] = "4op"  -> {v, v + Span}
    [] chip.mode[v] = "4op2" -> {v - Span, v}

LEMMA ZeroIsNone == Zero \notin Op
  BY DEF Zero, Op

(* No channel reaches operators outside of its own, or of its pair. *)
LEMMA StaysHome ==
  ASSUME Good(chip), NEW v \in Voice
  PROVE  /\ chip.mod[<<v, 0>>] \in Ops(Together(v)) \cup {Zero}
         /\ chip.mod[<<v, 1>>] \in Ops(Together(v)) \cup {Zero}
         /\ chip.out[v] \subseteq Ops(Together(v))
<1>1. chip.mode[v] \in {"2op", "4op", "4op2"}
  BY DEF Good, Chip
<1>2. CASE chip.mode[v] = "2op"
  <2>1. Two(chip, v)
    BY <1>2 DEF Good, RoutedAt
  <2>2. Together(v) = {v}
    BY <1>2 DEF Together
  <2> QED BY <2>1, <2>2 DEF Two, Ops
<1>3. CASE chip.mode[v] = "4op"
  <2>1. Four(chip, v)
    BY <1>3 DEF Good, RoutedAt
  <2>2. Together(v) = {v, v + Span}
    BY <1>3 DEF Together
  <2> QED BY <2>1, <2>2 DEF Four, Ops
<1>4. CASE chip.mode[v] = "4op2"
  <2>1. v - Span \in Voice /\ chip.mode[v - Span] = "4op" /\ (v - Span) + Span = v
    BY <1>4, Channels DEF Good, Paired
  <2>2. Four(chip, v - Span)
    BY <2>1 DEF Good, RoutedAt
  <2>3. Together(v) = {v - Span, v}
    BY <1>4 DEF Together
  <2> QED BY <2>1, <2>2, <2>3 DEF Four, Ops
<1> QED BY <1>1, <1>2, <1>3, <1>4

(* A voice, or a pair that is one. *)
Whole(V, v) ==
  \/ V = {v} /\ chip.mode[v] = "2op"
  \/ V = {v, v + Span} /\ chip.mode[v] = "4op"

LEMMA Apart ==
  ASSUME Good(chip), NEW v \in Voice, NEW V, Whole(V, v), NEW u \in Voice \ V
  PROVE  Together(u) \cap V = {}
<1>1. chip.mode[u] \in {"2op", "4op", "4op2"}
  BY DEF Good, Chip
<1>2. Paired(chip)
  BY DEF Good
<1>3. CASE chip.mode[u] = "2op"
  BY <1>3 DEF Together
<1>4. CASE chip.mode[u] = "4op"
  <2>1. u \in Bases /\ chip.mode[u + Span] = "4op2" /\ Together(u) = {u, u + Span}
    BY <1>2, <1>4 DEF Paired, Together
  <2>2. chip.mode[v] = "4op" => u + Span # v + Span
    <3>1. v \in Nat /\ u \in Nat /\ Span \in Nat
      BY Channels
    <3> QED BY <3>1 DEF Whole
  <2> QED BY <2>1, <2>2 DEF Whole
<1>5. CASE chip.mode[u] = "4op2"
  <2>1. u - Span \in Bases /\ chip.mode[u - Span] = "4op" /\ Together(u) = {u - Span, u}
    BY <1>2, <1>5 DEF Paired, Together
  <2>2. CASE V = {v} /\ chip.mode[v] = "2op"
    BY <2>1, <2>2
  <2>3. CASE V = {v, v + Span} /\ chip.mode[v] = "4op"
    <3>1. chip.mode[v + Span] = "4op2" /\ u # v + Span
      BY <1>2, <2>3 DEF Paired
    <3>2. u - Span # v
      <4>1. v \in Nat /\ u \in Nat /\ Span \in Nat
        BY Channels
      <4> QED BY <3>1, <4>1
    <3> QED BY <2>1, <2>3, <3>1, <3>2
  <2> QED BY <2>2, <2>3 DEF Whole
<1> QED BY <1>1, <1>3, <1>4, <1>5

(* Nothing outside of V modulates its operators or lets them be heard. *)
LEMMA NothingOutside ==
  ASSUME Good(chip), NEW v \in Voice, NEW V \in SUBSET Voice, Whole(V, v)
  PROVE  /\ \A p \in Op \ Ops(V) : chip.mod[p] \notin Ops(V)
         /\ HeardFrom(Voice \ V) \cap Ops(V) = {}
<1>1. ASSUME NEW u \in Voice \ V PROVE Ops(Together(u)) \cap Ops(V) = {}
  <2>1. Together(u) \cap V = {}
    BY Apart
  <2> HIDE DEF Whole
  <2> QED BY <2>1 DEF Ops
<1>2. Zero \notin Ops(V)
  BY ZeroIsNone DEF Ops, Op
<1>3. ASSUME NEW p \in Op \ Ops(V) PROVE chip.mod[p] \notin Ops(V)
  <2>1. PICK u \in Voice \ V, i \in {0, 1} : p = <<u, i>>
    BY DEF Op, Ops
  <2> QED BY <1>1, <1>2, <2>1, StaysHome
<1>4. ASSUME NEW u \in Voice \ V PROVE chip.out[u] \cap Ops(V) = {}
  BY <1>1, <1>4, StaysHome
<1> QED BY <1>3, <1>4 DEF HeardFrom

(* The operators that o modulates: those that Separate counts. *)
Fed(o) == {p \in Op \ {o} : chip.mod[p] = o}

LEMMA OneOrNone ==
  /\ \A T : T = {} => Cardinality(T) = 0
  /\ \A T, p : T = {p} => Cardinality(T) = 1
  BY FS_EmptySet, FS_Singleton

(* A two-operator voice is one chain, or two operators heard side by side. *)
LEMMA TwoSeparate ==
  ASSUME Good(chip), NEW v \in Voice, chip.mode[v] = "2op"
  PROVE  Separate({v}) /\ HeardFrom({v}) = (IF chip.con[v] = 0 THEN {} ELSE {<<v, 0>>}) \cup {<<v, 1>>}
<1> DEFINE a == <<v, 0>>  b == <<v, 1>>  V == {v}
<1>1. a \in Op /\ b \in Op /\ a # b /\ Ops(V) = {a, b}
  BY DEF Op, Ops
<1>2. a # Zero /\ b # Zero
  BY <1>1, ZeroIsNone
<1>3. chip.mod[a] = a /\ chip.mod[b] = (IF chip.con[v] = 0 THEN a ELSE Zero)
      /\ chip.out[v] = (IF chip.con[v] = 0 THEN {b} ELSE {a, b})
  BY DEF Good, RoutedAt, Two
<1>4. \A p \in Op : chip.mod[p] \in {a, b} => p \in {a, b}
  <2>1. Whole(V, v)
    BY DEF Whole
  <2> QED BY <1>1, <2>1, NothingOutside
<1>5. HeardFrom(Voice \ V) \cap Ops(V) = {}
  <2>1. Whole(V, v)
    BY DEF Whole
  <2> QED BY <2>1, NothingOutside
<1>6. HeardFrom(V) = chip.out[v]
  BY DEF HeardFrom
<1> HIDE DEF a, b, V
<1>7. Fed(a) = (IF chip.con[v] = 0 THEN {b} ELSE {}) /\ Fed(b) = {}
  BY <1>1, <1>2, <1>3, <1>4 DEF Fed
<1>8. ASSUME NEW o \in Ops(V)
      PROVE  /\ chip.mod[o] = Zero \/ chip.mod[o] \in Ops(V)
             /\ Fed(o) \subseteq Ops(V)
             /\ Cardinality(Fed(o)) + (IF o \in HeardFrom(V) THEN 1 ELSE 0) = 1
  <2>1. CASE chip.con[v] = 0
    <3>1. Cardinality(Fed(a)) = 1 /\ Cardinality(Fed(b)) = 0
      BY <1>7, <2>1, OneOrNone
    <3>2. a \notin HeardFrom(V) /\ b \in HeardFrom(V)
      BY <1>1, <1>3, <1>6, <2>1
    <3>3. Fed(a) = {b} /\ Fed(b) = {} /\ chip.mod[a] = a /\ chip.mod[b] = a
      BY <1>3, <1>7, <2>1
    <3>4. CASE o = a
      BY <1>1, <3>1, <3>2, <3>3, <3>4
    <3>5. CASE o = b
      BY <1>1, <3>1, <3>2, <3>3, <3>5
    <3> QED BY <1>1, <3>4, <3>5
  <2>2. CASE chip.con[v] # 0
    BY <1>1, <1>3, <1>6, <1>7, <2>2, OneOrNone
  <2> QED BY <2>1, <2>2
<1>9. HeardFrom(V) \subseteq Ops(V)
  BY <1>1, <1>3, <1>6
<1>10. Separate(V)
  BY <1>5, <1>8, <1>9 DEF Separate, Fed
<1> QED BY <1>3, <1>6, <1>10 DEF V, a, b

(* A pair whose connection bits agree is one chain, or three. *)
LEMMA FourSeparate ==
  ASSUME Good(chip), NEW v \in Bases, chip.mode[v] = "4op",
         NEW k \in {0, 1}, chip.con[v] = k, chip.con[v + Span] = k
  PROVE  /\ Separate({v, v + Span})
         /\ HeardFrom({v, v + Span}) =
              {<<v + Span, 1>>} \cup (IF k = 0 THEN {} ELSE {<<v, 0>>, <<v + Span, 0>>})
<1> DEFINE a == <<v, 0>>  b == <<v, 1>>  c == <<v + Span, 0>>  d == <<v + Span, 1>>
           V == {v, v + Span}
           mb == IF k = 0 THEN a ELSE Zero
           md == IF k = 0 THEN c ELSE Zero
           e == {d} \cup (IF k = 0 THEN {} ELSE {a, c})
<1>1. v \in Voice /\ v + Span \in Voice /\ v # v + Span
  BY Channels
<1>2. /\ a \in Op /\ b \in Op /\ c \in Op /\ d \in Op
      /\ a # b /\ a # c /\ a # d /\ b # c /\ b # d /\ c # d
      /\ Ops(V) = {a, b, c, d}
  BY <1>1 DEF Op, Ops
<1>3. a # Zero /\ b # Zero /\ c # Zero /\ d # Zero
  BY <1>2, ZeroIsNone
<1>4. Four(chip, v)
  BY <1>1 DEF Good, RoutedAt
<1>5. chip.mod[a] = a /\ chip.mod[b] = mb /\ chip.mod[c] = b /\ chip.mod[d] = md
      /\ chip.out[v] = {} /\ chip.out[v + Span] = e
  <2>1. CASE k = 0
    BY <1>4, <2>1 DEF Four
  <2>2. CASE k = 1
    BY <1>4, <2>2 DEF Four
  <2> QED BY <2>1, <2>2
<1>6. Whole(V, v) /\ V \in SUBSET Voice
  BY <1>1 DEF Whole
<1>7. \A p \in Op : chip.mod[p] \in {a, b, c, d} => p \in {a, b, c, d}
  <2> HIDE DEF V, a, b, c, d
  <2> QED BY <1>1, <1>2, <1>6, NothingOutside
<1>8. HeardFrom(Voice \ V) \cap Ops(V) = {}
  <2> HIDE DEF V
  <2> QED BY <1>1, <1>6, NothingOutside
<1>9. HeardFrom(V) = e
  <2> HIDE DEF e
  <2> QED BY <1>5 DEF HeardFrom
<1> HIDE DEF a, b, c, d, V
<1>10. /\ Fed(a) = IF k = 0 THEN {b} ELSE {}
       /\ Fed(b) = {c}
       /\ Fed(c) = IF k = 0 THEN {d} ELSE {}
       /\ Fed(d) = {}
  <2>1. CASE k = 0
    BY <1>2, <1>3, <1>5, <1>7, <2>1 DEF Fed
  <2>2. CASE k = 1
    BY <1>2, <1>3, <1>5, <1>7, <2>2 DEF Fed
  <2> QED BY <2>1, <2>2
<1>11. ASSUME NEW o \in Ops(V)
       PROVE  /\ chip.mod[o] = Zero \/ chip.mod[o] \in Ops(V)
              /\ Fed(o) \subseteq Ops(V)
              /\ Cardinality(Fed(o)) + (IF o \in HeardFrom(V) THEN 1 ELSE 0) = 1
  <2>1. CASE k = 0
    <3>1. Fed(a) = {b} /\ Fed(b) = {c} /\ Fed(c) = {d} /\ Fed(d) = {}
      BY <1>10, <2>1
    <3>2. /\ Cardinality(Fed(a)) = 1 /\ Cardinality(Fed(b)) = 1
          /\ Cardinality(Fed(c)) = 1 /\ Cardinality(Fed(d)) = 0
      BY <3>1, OneOrNone
    <3>3. HeardFrom(V) = {d}
      BY <1>9, <2>1
    <3>4. chip.mod[a] = a /\ chip.mod[b] = a /\ chip.mod[c] = b /\ chip.mod[d] = c
      BY <1>5, <2>1
    <3>5. CASE o = d
      BY <1>2, <3>1, <3>2, <3>3, <3>4, <3>5
    <3>6. CASE o \in {a, b, c}
      <4>1. Fed(o) \subseteq Ops(V) /\ chip.mod[o] \in Ops(V)
        BY <1>2, <3>1, <3>4, <3>6
      <4>2. Cardinality(Fed(o)) = 1 /\ o \notin HeardFrom(V)
        BY <1>2, <3>2, <3>3, <3>6
      <4> QED BY <4>1, <4>2
    <3> QED BY <1>2, <3>5, <3>6
  <2>2. CASE k = 1
    <3>1. Fed(a) = {} /\ Fed(b) = {c} /\ Fed(c) = {} /\ Fed(d) = {}
      BY <1>10, <2>2
    <3>2. /\ Cardinality(Fed(a)) = 0 /\ Cardinality(Fed(b)) = 1
          /\ Cardinality(Fed(c)) = 0 /\ Cardinality(Fed(d)) = 0
      BY <3>1, OneOrNone
    <3>3. HeardFrom(V) = {a, c, d}
      BY <1>9, <2>2
    <3>4. chip.mod[a] = a /\ chip.mod[b] = Zero /\ chip.mod[c] = b /\ chip.mod[d] = Zero
      BY <1>5, <2>2
    <3>5. CASE o = b
      <4>1. Fed(o) \subseteq Ops(V) /\ chip.mod[o] = Zero
        BY <1>2, <3>1, <3>4, <3>5
      <4>2. Cardinality(Fed(o)) = 1 /\ o \notin HeardFrom(V)
        BY <1>2, <3>2, <3>3, <3>5
      <4> QED BY <4>1, <4>2
    <3>6. CASE o \in {a, c, d}
      <4>1. Fed(o) \subseteq Ops(V) /\ (chip.mod[o] = Zero \/ chip.mod[o] \in Ops(V))
        BY <1>2, <3>1, <3>4, <3>6
      <4>2. Cardinality(Fed(o)) = 0 /\ o \in HeardFrom(V)
        BY <3>2, <3>3, <3>6
      <4> QED BY <4>1, <4>2
    <3> QED BY <1>2, <3>5, <3>6
  <2> QED BY <2>1, <2>2
<1>12. HeardFrom(V) \subseteq Ops(V)
  BY <1>2, <1>9
<1>13. Separate(V)
  BY <1>8, <1>11, <1>12 DEF Separate, Fed
<1> QED BY <1>9, <1>13 DEF V, a, b, c, d

(* What the settled chip of ChipInv does with a sounding slot. *)
LEMMA SlotRouted ==
  ASSUME IInv, ChipInv, TimbresAssumption, NEW s \in Sounding
  PROVE  /\ Separate(Uses(s))
         /\ S[s].type = 2 \/ wire[s] \in {0, 3} => VolumeReachesHeard(s)
<1> DEFINE r == S[s]
           w == wire[s]
           v == r.voice
<1>1. s \in Slots /\ s \in Busy /\ Placed(r) /\ Held(r) = Uses(s) /\ v # None
  BY SoundingPlaced
<1>2. Good(chip) /\ ModesOf(chip, conn_shadow) /\ Paired(chip) /\ chip.mode[v] \in {"2op", "4op", "4op2"}
  <2>1. Good(chip) /\ ModesOf(chip, conn_shadow)
    BY DEF ChipInv, Settled
  <2>2. v \in Voice
    BY <1>1, PlacedHalves
  <2> HIDE DEF v
  <2> QED BY <2>1, <2>2 DEF Good, Chip
<1>3. Written(chip, r, w) /\ <<r.type, w>> \in Timbres /\ w \in 0 .. 3
  BY <1>1 DEF ChipInv, WireOK
<1>4. IF r.type = 4 THEN conn_sel(v) \subseteq conn_shadow ELSE conn_sel(v) \cap conn_shadow = {}
  BY <1>1 DEF IInv, ConnMatches
<1>5. v \in Voice /\ r.type \in {2, 4} /\ (r.type = 4 => v \in Bases /\ Uses(s) = {v, v + Span})
      /\ (r.type = 2 => Uses(s) = {v})
  BY <1>1, PlacedHalves DEF Placed
<1>6. v + 0 * Span = v /\ v + 1 * Span = v + Span
  <2>1. v \in Nat /\ Span \in Nat
    BY <1>5, Channels
  <2>2. 0 * Span = 0 /\ 1 * Span = Span
    BY <2>1
  <2> HIDE DEF v
  <2> QED BY <2>1, <2>2
<1>7. HeardFrom(Uses(s)) = ScaledFor(r, w) => VolumeReachesHeard(s)
  BY <1>1, <1>3 DEF Written, VolumeReachesHeard
<1>8. \A u \in Uses(s) : chip.con[u] = w % 2
  BY <1>1, <1>3 DEF Written
<1>9. CASE r.type = 2
  <2>1. w \in {0, 1}
    BY <1>3, <1>9 DEF TimbresAssumption
  <2>2. chip.con[v] = w
    <3>1. 0 % 2 = 0 /\ 1 % 2 = 1
      OBVIOUS
    <3> QED BY <1>5, <1>8, <1>9, <2>1, <3>1
  <2>3. chip.mode[v] = "2op"
    <3>1. chip.mode[v] # "4op"
      <4>1. v \in Bases => conn_sel(v) = {v}
        BY BaseBit
      <4>2. v \in Bases => chip.mode[v] = "2op"
        BY <1>2, <1>4, <1>9, <4>1 DEF ModesOf
      <4> QED BY <1>2, <1>5, <4>2 DEF Paired
    <3>2. chip.mode[v] # "4op2"
      <4>1. ASSUME v - Span \in Bases PROVE v - Span \in conn_sel(v)
        <5> DEFINE b == v - Span
        <5>1. b \in Bases /\ b + Span = v
          <6>1. v \in Nat /\ Span \in Nat
            BY <1>5, Channels
          <6> HIDE DEF v
          <6> QED BY <4>1, <6>1
        <5>2. b \in conn_sel(v)
          <6> HIDE DEF b, v
          <6> QED BY <5>1 DEF conn_sel
        <5> QED BY <5>2
      <4>2. v - Span \in Bases => chip.mode[v - Span] = "2op"
        BY <1>2, <1>4, <1>9, <4>1 DEF ModesOf
      <4> QED BY <1>2, <1>5, <4>2 DEF Paired
    <3> QED BY <1>2, <3>1, <3>2
  <2>4. Separate({v}) /\ HeardFrom({v}) = (IF w = 0 THEN {} ELSE {<<v, 0>>}) \cup {<<v, 1>>}
    BY <1>2, <1>5, <2>2, <2>3, TwoSeparate
  <2>5. ScaledFor(r, w) = (IF w = 0 THEN {} ELSE {<<v, 0>>}) \cup {<<v, 1>>}
    <3>1. ScaledFor(r, w) = {<<v, i>> : i \in Scaled(2, w, 0)}
      BY <1>6, <1>9 DEF ScaledFor, ScaledOps
    <3>2. Scaled(2, w, 0) = IF w = 0 THEN {1} ELSE {0, 1}
      BY <2>1 DEF Scaled
    <3> QED BY <3>1, <3>2
  <2> QED BY <1>5, <1>7, <1>9, <2>4, <2>5
<1>10. CASE r.type = 4
  <2>1. chip.mode[v] = "4op"
    <3>1. v \in conn_sel(v)
      BY <1>5, <1>10, BaseBit
    <3> QED BY <1>2, <1>4, <1>5, <1>10, <3>1 DEF ModesOf
  <2>2. w % 2 \in {0, 1} /\ chip.con[v] = w % 2 /\ chip.con[v + Span] = w % 2
    BY <1>3, <1>5, <1>8, <1>10
  <2>3. Separate({v, v + Span})
        /\ HeardFrom({v, v + Span}) =
             {<<v + Span, 1>>} \cup (IF w % 2 = 0 THEN {} ELSE {<<v, 0>>, <<v + Span, 0>>})
    BY <1>2, <1>5, <1>10, <2>1, <2>2, FourSeparate
  <2>4. ASSUME w \in {0, 3} PROVE HeardFrom(Uses(s)) = ScaledFor(r, w)
    <3>1. ScaledFor(r, w) = {<<v, i>> : i \in Scaled(4, w, 0)}
                              \cup {<<v + Span, i>> : i \in Scaled(4, w, 1)}
      BY <1>6, <1>10 DEF ScaledFor, ScaledOps
    <3>2. CASE w = 0
      <4>1. Scaled(4, 0, 0) = {} /\ Scaled(4, 0, 1) = {1} /\ 0 % 2 = 0
        BY DEF Scaled
      <4> QED BY <1>5, <1>10, <2>3, <3>1, <3>2, <4>1
    <3>3. CASE w = 3
      <4>1. Scaled(4, 3, 0) = {0} /\ Scaled(4, 3, 1) = {0, 1} /\ 3 % 2 = 1
        BY DEF Scaled
      <4>2. ScaledFor(r, w) = {<<v + Span, 1>>} \cup {<<v, 0>>, <<v + Span, 0>>}
        BY <3>1, <3>3, <4>1
      <4>3. HeardFrom(Uses(s)) = {<<v + Span, 1>>} \cup {<<v, 0>>, <<v + Span, 0>>}
        <5>1. HeardFrom({v, v + Span}) = {<<v + Span, 1>>} \cup {<<v, 0>>, <<v + Span, 0>>}
          BY <2>3, <3>3, <4>1
        <5>2. Uses(s) = {v, v + Span}
          BY <1>5, <1>10
        <5> QED BY <5>1, <5>2, Zenon
      <4> QED BY <4>2, <4>3, Zenon
    <3> QED BY <2>4, <3>2, <3>3
  <2>5. w \in {0, 3} => VolumeReachesHeard(s)
    BY <1>7, <2>4
  <2>6. Separate(Uses(s))
    <3>1. Uses(s) = {v, v + Span}
      BY <1>5, <1>10
    <3>2. Separate({v, v + Span})
      BY <2>3
    <3> QED BY <3>1, <3>2, Zenon
  <2> QED BY <1>10, <2>5, <2>6
<1> QED BY <1>5, <1>9, <1>10

(* The keys on in the chip are those of the slots' voices, the register is *)
(* what the driver remembers of it, and a sounding note is wired among its *)
(* own operators, with the volume at those that are heard: for every set   *)
(* of pairs, every timbre and every order of messages.                     *)
THEOREM ChipFollowsAlways == ChipSpec => []ChipFollows
<1> USE TimbresAssumption
<1>1. Spec => []IInv
  BY Inductive
<1>2. ChipInit => ChipInv
  BY InitChip
<1>3. IInv /\ IInv' /\ ChipInv /\ [ChipNext]_allVars => ChipInv'
  BY ChipStep
<1>4. IInv /\ ChipInv => ChipFollows
  <2> SUFFICES ASSUME IInv, ChipInv PROVE ChipFollows
    OBVIOUS
  <2>1. KeysFollow
    BY DEF IInv, NoStuckVoice, ChipInv, KeysFollow
  <2>2. Routed
    BY SlotRouted DEF Routed
  <2> QED BY <2>1, <2>2 DEF ChipFollows
<1> QED BY <1>1, <1>2, <1>3, <1>4, ChipImplementsAllocator, PTL DEF ChipSpec
----------------------------------------------------------------------------
(* The envelope's level, for every width of the level and the clock, every *)
(* patch and every key scale: an attack never overshoots the loudest level *)
(* and no other phase the quietest, so that the reduction to nine bits is  *)
(* never seen.                                                             *)

LevelOK ==
  /\ reg \in Patches
  /\ ksv \in 0 .. 15
  /\ gen \in {"attack", "decay", "sustain", "release"}
  /\ level \in 0 .. LEVELS - 1
  /\ eg_state \in {0, 1}

LEMMA RateTyped ==
  ASSUME EnvelopeAssumption, LevelOK, NEW r \in 0 .. TOP + 3
  PROVE  RateHi(r) \in 0 .. TOP + 3 /\ RateLo(r) \in 0 .. 3
<1>1. TOP \in Nat /\ ksv \in Nat
  BY DEF EnvelopeAssumption, LevelOK
<1>2. Rate(r) \in Nat
  BY <1>1 DEF Rate
<1> HIDE DEF Rate
<1> QED BY <1>1, <1>2 DEF RateHi, RateLo

(* The level moves by one of three steps, or not at all. *)
LEMMA ShiftTyped ==
  ASSUME EnvelopeAssumption, LevelOK, NEW r \in 0 .. TOP + 3
  PROVE  Shift(r) \in 0 .. 3
<1> DEFINE hi == RateHi(r)
           lo == RateLo(r)
           carry == IF timer \in eg_incstep[lo + 1] THEN 1 ELSE 0
<1>1. hi \in 0 .. TOP + 3 /\ lo \in 0 .. 3 /\ TOP \in Nat
  BY RateTyped DEF EnvelopeAssumption
<1>2. carry \in {0, 1}
  OBVIOUS
<1>3. Shift(r) = IF r = 0 THEN 0
                 ELSE IF hi < TOP
                 THEN IF eg_state = 0 THEN 0
                      ELSE CASE hi + eg_add = TOP     -> 1
                             [] hi + eg_add = TOP + 1 -> lo \div 2
                             [] hi + eg_add = TOP + 2 -> lo % 2
                             [] OTHER                 -> 0
                 ELSE IF hi - TOP + carry > 3 THEN 3
                 ELSE IF hi - TOP + carry = 0 THEN eg_state ELSE hi - TOP + carry
  BY DEF Shift
<1> HIDE DEF hi, lo, carry
<1>4. lo \div 2 \in 0 .. 1 /\ lo % 2 \in 0 .. 1 /\ eg_state \in 0 .. 1
  BY <1>1 DEF LevelOK
<1>5. CASE hi < TOP
  BY <1>3, <1>4, <1>5
<1>6. CASE ~ (hi < TOP)
  BY <1>1, <1>2, <1>3, <1>4, <1>6
<1> QED BY <1>5, <1>6

LEMMA RegRateTyped ==
  ASSUME EnvelopeAssumption, LevelOK
  PROVE  RegRate \in 0 .. TOP + 3
<1>1. {reg.ar, reg.dr, reg.rr} \subseteq 0 .. TOP + 3 /\ TOP \in Nat
  BY DEF EnvelopeAssumption, LevelOK
<1> QED BY <1>1 DEF RegRate

(* What a sample adds to the level: an attack takes a part of it away that *)
(* is never more than the level, the other phases add at most 4, and only  *)
(* below the band that counts as silence.                                  *)
LEMMA IncrementBounds ==
  ASSUME EnvelopeAssumption, LevelOK
  PROVE  /\ Increment \in Int
         /\ gen = "attack" /\ key => Increment <= 0 /\ -level <= Increment
         /\ ~ (gen = "attack" /\ key) => Increment \in 0 .. 4
         /\ Increment > 0 => ~ Off /\ ~ Restart
<1> DEFINE s == Shift(RegRate)
           pull == gen = "attack" /\ level # 0 /\ key /\ s > 0 /\ RateHi(RegRate) # TOP + 3
           fall == gen = "decay" /\ level \div SL_UNIT # reg.sl /\ ~ Off /\ s > 0
           fade == gen \in {"sustain", "release"} /\ ~ Off /\ ~ Restart /\ s > 0
<1>1. s \in 0 .. 3
  BY RegRateTyped, ShiftTyped
<1> HIDE DEF s
<1>2. Increment = CASE pull -> (-(level + 1)) \div 2 ^ (4 - s)
                    [] fall -> 2 ^ (s - 1)
                    [] fade -> 2 ^ (s - 1)
                    [] OTHER -> 0
  BY DEF Increment, s
<1>3. pull => gen = "attack" /\ key /\ level # 0 /\ s > 0
  OBVIOUS
<1>4. fall => gen = "decay" /\ ~ Off /\ s > 0
  OBVIOUS
<1>5. fade => gen \in {"sustain", "release"} /\ ~ Off /\ ~ Restart /\ s > 0
  OBVIOUS
<1>6. gen = "decay" => ~ Restart
  BY DEF Restart
<1> HIDE DEF pull, fall, fade
<1>7. s > 0 => 2 ^ (s - 1) \in 1 .. 4
  <2>1. 2 ^ 0 = 1 /\ 2 ^ 1 = 2 /\ 2 ^ 2 = 4
    OBVIOUS
  <2>2. s = 0 \/ s - 1 = 0 \/ s - 1 = 1 \/ s - 1 = 2
    BY <1>1
  <2>3. CASE s - 1 = 0
    BY <2>1, <2>3
  <2>4. CASE s - 1 = 1
    BY <2>1, <2>4
  <2>5. CASE s - 1 = 2
    BY <2>1, <2>5
  <2> QED BY <1>1, <2>2, <2>3, <2>4, <2>5
<1>8. s > 0 /\ level # 0 =>
        /\ (-(level + 1)) \div 2 ^ (4 - s) \in Int
        /\ (-(level + 1)) \div 2 ^ (4 - s) <= 0
        /\ -level <= (-(level + 1)) \div 2 ^ (4 - s)
  <2>1. 2 ^ 1 = 2 /\ 2 ^ 2 = 4 /\ 2 ^ 3 = 8
    OBVIOUS
  <2>2. s = 0 \/ 4 - s = 1 \/ 4 - s = 2 \/ 4 - s = 3
    BY <1>1
  <2>3. level \in Nat
    BY DEF LevelOK, EnvelopeAssumption
  <2>4. \A d \in {2, 4, 8} : level # 0 =>
          /\ (-(level + 1)) \div d \in Int
          /\ (-(level + 1)) \div d <= 0
          /\ -level <= (-(level + 1)) \div d
    <3>1. level # 0 => (-(level + 1)) \div 2 \in Int
                       /\ (-(level + 1)) \div 2 <= 0 /\ -level <= (-(level + 1)) \div 2
      BY <2>3
    <3>2. level # 0 => (-(level + 1)) \div 4 \in Int
                       /\ (-(level + 1)) \div 4 <= 0 /\ -level <= (-(level + 1)) \div 4
      BY <2>3
    <3>3. level # 0 => (-(level + 1)) \div 8 \in Int
                       /\ (-(level + 1)) \div 8 <= 0 /\ -level <= (-(level + 1)) \div 8
      BY <2>3
    <3> QED BY <3>1, <3>2, <3>3
  <2>5. s > 0 => 2 ^ (4 - s) \in {2, 4, 8}
    <3>1. CASE 4 - s = 1
      BY <2>1, <3>1
    <3>2. CASE 4 - s = 2
      BY <2>1, <3>2
    <3>3. CASE 4 - s = 3
      BY <2>1, <3>3
    <3> QED BY <1>1, <2>2, <3>1, <3>2, <3>3
  <2> DEFINE d == 2 ^ (4 - s)
  <2> HIDE DEF d
  <2>6. s > 0 /\ level # 0 => /\ (-(level + 1)) \div d \in Int
                             /\ (-(level + 1)) \div d <= 0
                             /\ -level <= (-(level + 1)) \div d
    BY <2>4, <2>5 DEF d
  <2> QED BY <2>6 DEF d
<1>9. CASE pull
  <2>1. Increment = (-(level + 1)) \div 2 ^ (4 - s)
    <3>1. ~ fall /\ ~ fade
      BY <1>3, <1>4, <1>5, <1>9
    <3> QED BY <1>2, <1>9, <3>1
  <2>2. gen = "attack" /\ key /\ level # 0 /\ s > 0
    BY <1>3, <1>9
  <2>3. Increment \in Int /\ Increment <= 0 /\ -level <= Increment
    BY <1>8, <2>1, <2>2
  <2> QED BY <2>2, <2>3
<1>10. CASE ~ pull /\ (fall \/ fade)
  <2>1. Increment = 2 ^ (s - 1)
    <3>1. CASE fall /\ ~ fade
      BY <1>2, <1>10, <3>1
    <3>2. CASE fade /\ ~ fall
      BY <1>2, <1>10, <3>2
    <3>3. ~ (fall /\ fade)
      BY <1>4, <1>5
    <3> QED BY <1>10, <3>1, <3>2, <3>3
  <2>2. gen # "attack"
    BY <1>4, <1>5, <1>10
  <2>3. s > 0 /\ ~ Off /\ ~ Restart
    BY <1>4, <1>5, <1>6, <1>10
  <2> QED BY <1>7, <2>1, <2>2, <2>3
<1>11. CASE ~ pull /\ ~ fall /\ ~ fade
  <2>1. Increment = 0
    BY <1>2, <1>11
  <2>2. level \in Nat
    BY DEF LevelOK, EnvelopeAssumption
  <2> QED BY <2>1, <2>2
<1> QED BY <1>9, <1>10, <1>11

LEMMA LevelInit == ASSUME EnvelopeAssumption, EnvInit PROVE LevelOK
<1>1. level = LEVELS - 1 /\ LEVELS \in Nat \ {0}
  BY DEF EnvInit, Silent, EnvelopeAssumption
<1>2. gen = "release" /\ eg_state = 0 /\ reg \in Patches /\ ksv \in 0 .. 15
  BY DEF EnvInit, EnvelopeAssumption
<1> QED BY <1>1, <1>2 DEF LevelOK

(* A sample keeps the level within its bits before it is reduced to them. *)
LEMMA SampleBounds ==
  ASSUME EnvelopeAssumption, LevelOK, Sample
  PROVE  /\ Base + Increment \in 0 .. LEVELS - 1
         /\ level' = Base + Increment
<1>1. LEVELS \in Nat /\ OFF_BAND \in Nat /\ level \in 0 .. LEVELS - 1
      /\ 4 <= OFF_BAND /\ OFF_BAND <= LEVELS
  BY DEF EnvelopeAssumption, LevelOK
<1>2. Increment \in Int
      /\ (gen = "attack" /\ key => Increment <= 0 /\ -level <= Increment)
      /\ (~ (gen = "attack" /\ key) => Increment \in 0 .. 4)
      /\ (Increment > 0 => ~ Off /\ ~ Restart)
  BY IncrementBounds
<1>3. Base \in {0, level, LEVELS - 1}
  BY DEF Base, Silent
<1>4. Restart => gen = "release" /\ key
  BY DEF Restart
<1>5. Base + Increment \in 0 .. LEVELS - 1
  <2>1. CASE gen = "attack" /\ key
    <3>1. Base = level
      BY <1>4, <2>1 DEF Base
    <3> QED BY <1>1, <1>2, <2>1, <3>1
  <2>2. CASE ~ (gen = "attack" /\ key) /\ Increment > 0
    <3>1. Base = level
      BY <1>2, <2>2 DEF Base
    <3>2. level < LEVELS - OFF_BAND
      BY <1>1, <1>2, <2>2 DEF Off
    <3> QED BY <1>1, <1>2, <2>2, <3>1, <3>2
  <2>3. CASE ~ (gen = "attack" /\ key) /\ ~ (Increment > 0)
    <3>1. Increment = 0
      BY <1>2, <2>3
    <3> QED BY <1>1, <1>3, <3>1
  <2> QED BY <2>1, <2>2, <2>3
<1>6. level' = (Base + Increment) % LEVELS
  BY DEF Sample
<1> DEFINE sum == Base + Increment
<1> HIDE DEF sum
<1>7. sum \in 0 .. LEVELS - 1 => sum % LEVELS = sum
  BY <1>1
<1> QED BY <1>5, <1>6, <1>7 DEF sum

LEMMA LevelNext ==
  ASSUME EnvelopeAssumption, LevelOK, [EnvNext]_envvars
  PROVE  LevelOK'
<1>1. CASE KeyPressed \/ KeyReleased \/ Bend
  <2>1. UNCHANGED <<gen, level, eg_state>>
    BY <1>1 DEF KeyPressed, KeyReleased, Bend, clock
  <2>2. reg' \in Patches
    BY <1>1 DEF KeyPressed, KeyReleased, Bend, LevelOK
  <2>3. ksv' \in 0 .. 15
    BY <1>1 DEF KeyPressed, KeyReleased, Bend, LevelOK, EnvelopeAssumption
  <2> QED BY <2>1, <2>2, <2>3 DEF LevelOK
<1>2. CASE Sample
  <2>1. level' \in 0 .. LEVELS - 1
    BY <1>2, SampleBounds
  <2>2. gen' \in {"attack", "decay", "sustain", "release"}
    BY <1>2 DEF Sample, Phase, LevelOK
  <2>3. eg_state' \in {0, 1}
    BY <1>2 DEF Sample, Advance, LevelOK
  <2>4. reg' = reg /\ ksv' = ksv
    BY <1>2 DEF Sample
  <2> QED BY <2>1, <2>2, <2>3, <2>4 DEF LevelOK
<1>3. CASE UNCHANGED envvars
  BY <1>3 DEF envvars, LevelOK
<1> QED BY <1>1, <1>2, <1>3 DEF EnvNext

(* What NoWrap says of one step. *)
LEMMA NoWrapStep ==
  ASSUME EnvelopeAssumption, LevelOK, [EnvNext]_envvars
  PROVE  CASE gen = "attack" /\ key -> level' <= level
           [] Restart               -> level' \in {0, level}
           [] OTHER                 -> level' >= level
<1>1. level \in Int
  BY DEF LevelOK, EnvelopeAssumption
<1>2. CASE level' = level
  BY <1>1, <1>2
<1>3. CASE Sample
  <2>1. level' = Base + Increment /\ Base + Increment \in 0 .. LEVELS - 1
    BY <1>3, SampleBounds
  <2>2. Increment \in Int
        /\ (gen = "attack" /\ key => Increment <= 0 /\ -level <= Increment)
        /\ (~ (gen = "attack" /\ key) => Increment \in 0 .. 4)
        /\ (Increment > 0 => ~ Off /\ ~ Restart)
    BY IncrementBounds
  <2>3. Restart => gen = "release" /\ key
    BY DEF Restart
  <2>4. CASE gen = "attack" /\ key
    <3>1. Base = level
      BY <2>3, <2>4 DEF Base
    <3>2. ~ Restart
      BY <2>3, <2>4
    <3>3. level' <= level
      BY <1>1, <2>1, <2>2, <2>4, <3>1
    <3> QED BY <2>4, <3>2, <3>3
  <2>5. CASE ~ (gen = "attack" /\ key) /\ Restart
    <3>1. Increment = 0
      BY <2>2, <2>5
    <3>2. Base \in {0, level}
      BY <2>5 DEF Base
    <3>3. level' \in {0, level}
      BY <1>1, <2>1, <3>1, <3>2
    <3> QED BY <2>5, <3>3
  <2>6. CASE ~ (gen = "attack" /\ key) /\ ~ Restart
    <3>1. Base \in Int /\ Base >= level
      BY <2>6 DEF Base, Silent, LevelOK, EnvelopeAssumption
    <3>2. level' >= level
      BY <1>1, <2>1, <2>2, <2>6, <3>1
    <3> QED BY <2>6, <3>2
  <2> QED BY <2>4, <2>5, <2>6
<1>4. CASE KeyPressed \/ KeyReleased \/ Bend \/ UNCHANGED envvars
  <2>1. level' = level
    BY <1>4 DEF KeyPressed, KeyReleased, Bend, envvars
  <2> QED BY <1>2, <2>1
<1> QED BY <1>3, <1>4 DEF EnvNext

(* No sample makes the level jump across the end of its range, for every   *)
(* number of levels, every clock, all patches and key scales.              *)
THEOREM NoWrapAlways == EnvSpec => NoWrap
<1>1. EnvInit => LevelOK
  BY LevelInit, EnvelopeAssumption
<1>2. LevelOK /\ [EnvNext]_envvars => LevelOK'
  BY LevelNext, EnvelopeAssumption
<1> DEFINE Step == CASE gen = "attack" /\ key -> level' <= level
                     [] Restart               -> level' \in {0, level}
                     [] OTHER                 -> level' >= level
<1>3. LevelOK /\ [EnvNext]_envvars => [Step]_envvars
  BY NoWrapStep, EnvelopeAssumption
<1>4. NoWrap <=> [][Step]_envvars
  BY DEF NoWrap
<1> HIDE DEF Step
<1> QED BY <1>1, <1>2, <1>3, <1>4, PTL DEF EnvSpec
============================================================================
