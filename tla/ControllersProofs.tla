------------------------- MODULE ControllersProofs -------------------------
(***************************************************************************)
(* The volume of a sequence, for every number of channels and controllers, *)
(* all volumes, ramps and defaults: the synthesiser has what the logged    *)
(* volumes and the percentage of now make.  The invariant also speaks of   *)
(* the global log, from which a released channel gets its volume.          *)
(***************************************************************************)
EXTENDS Controllers, WellFoundedInduction, TLAPS

(* k is a record with the fields of ctl. *)
IsCtl(k) ==
  k = [global |-> k.global, log |-> k.log, indirect |-> k.indirect,
       device |-> k.device, owns |-> k.owns]

Values7 == 0 .. 127

CtlTypes(k) ==
  /\ IsCtl(k)
  /\ k.global = [x \in Cells |-> k.global[x]]
  /\ k.log \in [Cells -> Values7 \cup {Unset}]
  /\ k.indirect \in [Chans -> {-1} \cup DOMAIN ctrl_ptr]
  /\ k.device = [c \in Chans |-> [i \in Watched |-> k.device[c][i]]]
  /\ k.owns \subseteq Chans

(* An owner's volume in the log, in the global log and, unless the channel *)
(* is one of those locked, at the synthesiser.                             *)
Follows(k, c, percent, held) ==
  /\ k.log[c] \in Values7
  /\ k.global[c] = Scaled(k.log[c], percent)
  /\ c \notin held => k.device[c][PART_VOLUME] = Scaled(k.log[c], percent)

CtlOK(k, percent, held) ==
  /\ CtlTypes(k)
  /\ \A c \in k.owns : Follows(k, c, percent, held)

VolumeTypes ==
  /\ vol_percent \in Nat /\ vol_target \in Nat /\ vol_accum \in Nat /\ vol_period \in Nat
  /\ vol_percent # vol_target => vol_period # 0

VolumeInv == VolumeTypes /\ CtlOK(ctl, vol_percent, locked)

----------------------------------------------------------------------------
(* Arithmetic. *)

LEMMA ScaledTyped ==
  ASSUME NEW v \in Values7, NEW p \in Nat
  PROVE  Scaled(v, p) \in Values7
<1>1. v * p \in Nat
  BY DEF Values7
<1> DEFINE q == v * p
<1> HIDE DEF q
<1>2. q \div 100 \in Nat
  BY <1>1 DEF q
<1> QED BY <1>2 DEF Scaled, Capped, Values7, q

LEMMA ScaledWhole == ASSUME NEW v \in Values7 PROVE Scaled(v, 100) = v
BY DEF Scaled, Capped, Values7

LEMMA DivNat ==
  ASSUME NEW a \in Nat, NEW b \in Nat \ {0}
  PROVE  a \div b \in Nat /\ a % b \in Nat
OBVIOUS

LEMMA Sizes ==
  ASSUME ControllersAssumption
  PROVE  /\ NUM_CHANS \in Nat \ {0} /\ NCTRLS \in Nat \ {0}
         /\ Chans \subseteq Cells
         /\ PART_VOLUME \in Ctrls /\ PART_VOLUME \in Watched /\ SUSTAIN # PART_VOLUME
         /\ \A c \in Chans : Hash(PART_VOLUME, c) = c /\ Row(PART_VOLUME, c) = c
         /\ \A c \in Chans : Row(SUSTAIN, c) \notin Chans
<1>1. NUM_CHANS \in Nat \ {0} /\ NCTRLS \in Nat \ {0} /\ SUSTAIN \in 1 .. NCTRLS - 1
  BY DEF ControllersAssumption, Ctrls
<1>2. NUM_CHANS <= NUM_CHANS * NCTRLS
  BY <1>1
<1>3. NUM_CHANS <= SUSTAIN * NUM_CHANS /\ SUSTAIN * NUM_CHANS \in Nat
  BY <1>1
<1>4. Chans \subseteq Cells
  <2> DEFINE n == NUM_CHANS * NCTRLS
  <2>1. n \in Nat /\ NUM_CHANS <= n
    BY <1>1, <1>2
  <2> HIDE DEF n
  <2>2. 0 .. NUM_CHANS - 1 \subseteq 0 .. n - 1
    BY <1>1, <2>1
  <2> QED BY <2>2 DEF Chans, Cells, n
<1>5. \A c \in Chans : Hash(PART_VOLUME, c) = c /\ Row(PART_VOLUME, c) = c
  BY <1>1 DEF Chans, Hash, Row, PART_VOLUME
<1>6. ASSUME NEW c \in Chans PROVE Row(SUSTAIN, c) \notin Chans
  <2> DEFINE m == SUSTAIN * NUM_CHANS
  <2>1. Row(SUSTAIN, c) = m + c
    BY DEF Row
  <2>2. m \in Nat /\ NUM_CHANS <= m
    BY <1>3
  <2> HIDE DEF m
  <2> QED BY <1>1, <2>1, <2>2 DEF Chans
<1> QED BY <1>1, <1>4, <1>5, <1>6 DEF ControllersAssumption, Ctrls, PART_VOLUME

----------------------------------------------------------------------------
(* What the helpers do to the logs. *)

(* A record of these fields, after one of them is replaced. *)
LEMMA New_global ==
  ASSUME NEW k, IsCtl(k), NEW y, NEW m, m = [k EXCEPT !.global = y]
  PROVE  /\ IsCtl(m)
         /\ m.global = y /\ m.log = k.log /\ m.indirect = k.indirect
         /\ m.device = k.device /\ m.owns = k.owns
BY DEF IsCtl

LEMMA New_log ==
  ASSUME NEW k, IsCtl(k), NEW y, NEW m, m = [k EXCEPT !.log = y]
  PROVE  /\ IsCtl(m)
         /\ m.global = k.global /\ m.log = y /\ m.indirect = k.indirect
         /\ m.device = k.device /\ m.owns = k.owns
BY DEF IsCtl

LEMMA New_indirect ==
  ASSUME NEW k, IsCtl(k), NEW y, NEW m, m = [k EXCEPT !.indirect = y]
  PROVE  /\ IsCtl(m)
         /\ m.global = k.global /\ m.log = k.log /\ m.indirect = y
         /\ m.device = k.device /\ m.owns = k.owns
BY DEF IsCtl

LEMMA New_device ==
  ASSUME NEW k, IsCtl(k), NEW y, NEW m, m = [k EXCEPT !.device = y]
  PROVE  /\ IsCtl(m)
         /\ m.global = k.global /\ m.log = k.log /\ m.indirect = k.indirect
         /\ m.device = y /\ m.owns = k.owns
BY DEF IsCtl

LEMMA New_owns ==
  ASSUME NEW k, IsCtl(k), NEW y, NEW m, m = [k EXCEPT !.owns = y]
  PROVE  /\ IsCtl(m)
         /\ m.global = k.global /\ m.log = k.log /\ m.indirect = k.indirect
         /\ m.device = k.device /\ m.owns = y
BY DEF IsCtl

LEMMA SendLeaves ==
  ASSUME ControllersAssumption, NEW k, CtlTypes(k), NEW c \in Chans, NEW i, NEW v
  PROVE  /\ CtlTypes(Send(k, c, i, v))
         /\ Send(k, c, i, v).log = k.log /\ Send(k, c, i, v).global = k.global
         /\ Send(k, c, i, v).owns = k.owns
         /\ \A d \in Chans : Send(k, c, i, v).device[d][PART_VOLUME] =
              IF d = c /\ i = PART_VOLUME THEN v ELSE k.device[d][PART_VOLUME]
<1> DEFINE dev == [k.device EXCEPT ![c] = [k.device[c] EXCEPT ![i] = v]]
           m == [k EXCEPT !.device = dev]
<1>1. CASE i \in Watched
  <2>1. Send(k, c, i, v) = m
    BY <1>1 DEF Send
  <2>2. dev = [d \in Chans |-> [j \in Watched |-> dev[d][j]]]
    BY DEF CtlTypes
  <2>3. \A d \in Chans : dev[d][PART_VOLUME] =
          IF d = c /\ i = PART_VOLUME THEN v ELSE k.device[d][PART_VOLUME]
    BY Sizes DEF CtlTypes
  <2> HIDE DEF dev
  <2>4. /\ IsCtl(m) /\ m.device = dev /\ m.log = k.log /\ m.global = k.global
        /\ m.owns = k.owns /\ m.indirect = k.indirect
    BY DEF CtlTypes, IsCtl
  <2> HIDE DEF m
  <2>5. CtlTypes(m)
    BY <2>2, <2>4 DEF CtlTypes
  <2> QED BY <2>1, <2>3, <2>4, <2>5
<1>2. CASE i \notin Watched
  <2>1. Send(k, c, i, v) = k /\ i # PART_VOLUME
    BY <1>2, Sizes DEF Send
  <2> QED BY <2>1
<1> QED BY <1>1, <1>2

(* A logged controller makes an owner of its channel, or ends the ownership *)
(* of the channel whose cell it took.                                       *)
LEMMA ControlKeeps ==
  ASSUME ControllersAssumption, NEW k, vol_percent \in Nat, CtlOK(k, vol_percent, locked),
         NEW c \in Chans, NEW i \in Ctrls, NEW val \in Values7
  PROVE  CtlOK(XMIDI_control(k, c, i, val), vol_percent, locked)
<1> DEFINE v == IF k.indirect[c] = -1 THEN val ELSE ctrl_ptr[k.indirect[c]]
           w == IF i = PART_VOLUME /\ vol_percent # 100 THEN Scaled(v, vol_percent) ELSE v
           x == Hash(i, c)
           own == IF i = PART_VOLUME THEN k.owns \cup {c} ELSE k.owns \ {x}
           ind == [k.indirect EXCEPT ![c] = -1]
           log == [k.log EXCEPT ![x] = v]
           glob == [k.global EXCEPT ![x] = w]
           m == [[[[k EXCEPT !.indirect = ind] EXCEPT !.log = log] EXCEPT !.global = glob]
                   EXCEPT !.owns = own]
           r == XMIDI_control(k, c, i, val)
<1>1. r = IF c \in locked THEN m ELSE Send(m, c, i, w)
  BY DEF XMIDI_control
<1>2. v \in Values7
  BY DEF CtlOK, CtlTypes, ControllersAssumption, Values7
<1>3. i = PART_VOLUME => x = c /\ w = Scaled(v, vol_percent)
  BY <1>2, ScaledWhole, Sizes
<1>4. CtlTypes(k)
  BY DEF CtlOK
<1>5. /\ ind \in [Chans -> {-1} \cup DOMAIN ctrl_ptr]
      /\ log \in [Cells -> Values7 \cup {Unset}]
      /\ glob = [y \in Cells |-> glob[y]]
      /\ own \subseteq Chans
  <2>1. ind \in [Chans -> {-1} \cup DOMAIN ctrl_ptr]
    BY <1>4 DEF CtlTypes
  <2>2. log \in [Cells -> Values7 \cup {Unset}]
    BY <1>2, <1>4 DEF CtlTypes
  <2>3. glob = [y \in Cells |-> glob[y]]
    <3>1. k.global = [y \in Cells |-> k.global[y]]
      BY <1>4 DEF CtlTypes
    <3> HIDE DEF x, w
    <3> QED BY <3>1
  <2>4. own \subseteq Chans
    BY <1>4 DEF CtlTypes
  <2> QED BY <2>1, <2>2, <2>3, <2>4
<1>6. \A d \in Chans : /\ log[d] = IF d = x THEN v ELSE k.log[d]
                       /\ glob[d] = IF d = x THEN w ELSE k.global[d]
  BY <1>4, Sizes DEF CtlTypes
<1>7. \A d \in own : (i = PART_VOLUME /\ d = c) \/ (d \in k.owns /\ d # x)
  BY <1>3
<1> HIDE DEF v, w, x, own, ind, log, glob, r
<1>8. /\ IsCtl(m) /\ m.indirect = ind /\ m.log = log /\ m.global = glob
      /\ m.owns = own /\ m.device = k.device
  <2> DEFINE a == [k EXCEPT !.indirect = ind]  b == [a EXCEPT !.log = log]
             e == [b EXCEPT !.global = glob]
  <2>1. a = [k EXCEPT !.indirect = ind]
    OBVIOUS
  <2>2. b = [a EXCEPT !.log = log]
    OBVIOUS
  <2>3. e = [b EXCEPT !.global = glob]
    OBVIOUS
  <2>4. m = [e EXCEPT !.owns = own]
    OBVIOUS
  <2> HIDE DEF a, b, e, m
  <2>5. /\ IsCtl(a) /\ a.global = k.global /\ a.log = k.log /\ a.indirect = ind
        /\ a.device = k.device /\ a.owns = k.owns
    <3>1. IsCtl(k)
      BY <1>4 DEF CtlTypes
    <3> QED BY <2>1, <3>1, New_indirect
  <2>6. /\ IsCtl(b) /\ b.global = a.global /\ b.log = log /\ b.indirect = a.indirect
        /\ b.device = a.device /\ b.owns = a.owns
    BY <2>2, <2>5, New_log
  <2>7. /\ IsCtl(e) /\ e.global = glob /\ e.log = b.log /\ e.indirect = b.indirect
        /\ e.device = b.device /\ e.owns = b.owns
    BY <2>3, <2>6, New_global
  <2>8. /\ IsCtl(m) /\ m.global = e.global /\ m.log = e.log /\ m.indirect = e.indirect
        /\ m.device = e.device /\ m.owns = own
    BY <2>4, <2>7, New_owns
  <2> QED BY <2>5, <2>6, <2>7, <2>8
<1> HIDE DEF m
<1>9. CtlTypes(m)
  BY <1>4, <1>5, <1>8 DEF CtlTypes
<1>10. CASE c \in locked
  <2>1. r = m
    BY <1>1, <1>10
  <2>2. ASSUME NEW d \in own PROVE Follows(m, d, vol_percent, locked)
    <3>1. d \in Chans
      BY <1>5
    <3>2. CASE i = PART_VOLUME /\ d = c
      BY <1>2, <1>3, <1>6, <1>8, <1>10, <3>1, <3>2 DEF Follows
    <3>3. CASE d \in k.owns /\ d # x
      BY <1>6, <1>8, <3>1, <3>3 DEF Follows, CtlOK
    <3> QED BY <1>7, <3>2, <3>3
  <2> QED BY <1>8, <1>9, <2>1, <2>2 DEF CtlOK, r
<1>11. CASE c \notin locked
  <2> DEFINE n == Send(m, c, i, w)
  <2>1. r = n
    BY <1>1, <1>11
  <2>2. /\ CtlTypes(n) /\ n.log = m.log /\ n.global = m.global /\ n.owns = m.owns
        /\ \A d \in Chans : n.device[d][PART_VOLUME] =
             IF d = c /\ i = PART_VOLUME THEN w ELSE m.device[d][PART_VOLUME]
    BY <1>9, SendLeaves
  <2> HIDE DEF n
  <2>3. ASSUME NEW d \in own PROVE Follows(n, d, vol_percent, locked)
    <3>1. d \in Chans
      BY <1>5
    <3>2. CASE i = PART_VOLUME /\ d = c
      BY <1>2, <1>3, <1>6, <1>8, <2>2, <3>1, <3>2 DEF Follows
    <3>3. CASE d \in k.owns /\ d # x
      <4>1. ~ (d = c /\ i = PART_VOLUME)
        BY <1>3, <3>3
      <4> QED BY <1>6, <1>8, <2>2, <3>1, <3>3, <4>1 DEF Follows, CtlOK
    <3> QED BY <1>7, <3>2, <3>3
  <2> QED BY <1>8, <2>1, <2>2, <2>3 DEF CtlOK, r
<1> QED BY <1>10, <1>11

(* A new percentage reaches every owner, the locked ones in the global log. *)
LEMMA VolumeKeeps ==
  ASSUME ControllersAssumption, NEW k, NEW old, CtlOK(k, old, locked), NEW p \in Nat
  PROVE  CtlOK(XMIDI_volume(k, p), p, locked)
<1> DEFINE set == {c \in Chans : k.log[Row(PART_VOLUME, c)] # Unset}
           vol(c) == Scaled(k.log[Row(PART_VOLUME, c)], p)
           glob == [x \in Cells |-> IF x \in set THEN vol(x) ELSE k.global[x]]
           dev == [c \in Chans |-> IF c \in set \ locked
                                   THEN [k.device[c] EXCEPT ![PART_VOLUME] = vol(c)]
                                   ELSE k.device[c]]
           m == [[k EXCEPT !.global = glob] EXCEPT !.device = dev]
           r == XMIDI_volume(k, p)
<1>1. r = m
  BY DEF XMIDI_volume
<1>2. CtlTypes(k) /\ k.owns \subseteq Chans
  BY DEF CtlOK, CtlTypes
<1>3. \A c \in k.owns : k.log[c] \in Values7 /\ c \in set /\ vol(c) = Scaled(k.log[c], p)
  BY <1>2, Sizes DEF CtlOK, Follows, Values7, Unset
<1>4. glob = [x \in Cells |-> glob[x]] /\ \A c \in k.owns : glob[c] = Scaled(k.log[c], p)
  BY <1>2, <1>3, Sizes
<1>5. dev = [c \in Chans |-> [i \in Watched |-> dev[c][i]]]
  BY <1>2 DEF CtlTypes
<1>6. \A c \in k.owns \ locked : dev[c][PART_VOLUME] = Scaled(k.log[c], p)
  BY <1>2, <1>3, Sizes DEF CtlTypes
<1> HIDE DEF set, vol, glob, dev, r
<1>7. /\ IsCtl(m) /\ m.global = glob /\ m.device = dev /\ m.log = k.log
      /\ m.indirect = k.indirect /\ m.owns = k.owns
  <2> DEFINE a == [k EXCEPT !.global = glob]
  <2>1. a = [k EXCEPT !.global = glob]
    OBVIOUS
  <2>2. m = [a EXCEPT !.device = dev]
    OBVIOUS
  <2>3. IsCtl(k)
    BY <1>2 DEF CtlTypes
  <2> HIDE DEF a, m
  <2>4. /\ IsCtl(a) /\ a.global = glob /\ a.log = k.log /\ a.indirect = k.indirect
        /\ a.device = k.device /\ a.owns = k.owns
    BY <2>1, <2>3, New_global
  <2>5. /\ IsCtl(m) /\ m.global = a.global /\ m.log = a.log /\ m.indirect = a.indirect
        /\ m.device = dev /\ m.owns = a.owns
    BY <2>2, <2>4, New_device
  <2> QED BY <2>4, <2>5
<1> HIDE DEF m
<1>8. CtlTypes(m)
  BY <1>2, <1>4, <1>5, <1>7 DEF CtlTypes
<1>9. \A c \in m.owns : Follows(m, c, p, locked)
  BY <1>3, <1>4, <1>6, <1>7 DEF Follows
<1> QED BY <1>1, <1>8, <1>9 DEF CtlOK, r

(* Channels that are released have their volume from the global log. *)
LEMMA ReleaseKeeps ==
  ASSUME ControllersAssumption, NEW k, NEW p \in Nat, NEW held, CtlOK(k, p, held), NEW R
  PROVE  CtlOK(release_channels(k, R), p, held \ R)
<1> DEFINE dev == [c \in Chans |->
             IF c \notin R THEN k.device[c]
             ELSE [i \in Watched |-> IF k.global[Hash(i, c)] # Unset THEN k.global[Hash(i, c)]
                                     ELSE IF i = SUSTAIN THEN 0 ELSE k.device[c][i]]]
           r == [k EXCEPT !.device = dev]
<1>1. release_channels(k, R) = r
  BY DEF release_channels
<1>2. CtlTypes(k) /\ k.owns \subseteq Chans
  BY DEF CtlOK, CtlTypes
<1>3. dev = [c \in Chans |-> [i \in Watched |-> dev[c][i]]]
  BY <1>2 DEF CtlTypes
<1>4. ASSUME NEW c \in k.owns
      PROVE  c \notin held \ R => dev[c][PART_VOLUME] = Scaled(k.log[c], p)
  <2>1. c \in Chans /\ Hash(PART_VOLUME, c) = c /\ PART_VOLUME \in Watched
    BY <1>2, Sizes
  <2>2. /\ k.log[c] \in Values7 /\ k.global[c] = Scaled(k.log[c], p)
        /\ c \notin held => k.device[c][PART_VOLUME] = Scaled(k.log[c], p)
    BY DEF CtlOK, Follows
  <2>3. k.global[c] # Unset
    <3>1. Scaled(k.log[c], p) \in Values7
      BY <2>2, ScaledTyped
    <3> QED BY <2>2, <3>1 DEF Values7, Unset
  <2>4. CASE c \in R
    BY <2>1, <2>2, <2>3, <2>4
  <2>5. CASE c \notin R
    BY <2>1, <2>2, <2>5
  <2> QED BY <2>4, <2>5
<1> HIDE DEF dev
<1>5. /\ IsCtl(r) /\ r.device = dev /\ r.global = k.global /\ r.log = k.log
      /\ r.indirect = k.indirect /\ r.owns = k.owns
  BY <1>2 DEF CtlTypes, IsCtl
<1> HIDE DEF r
<1>6. CtlTypes(r)
  BY <1>2, <1>3, <1>5 DEF CtlTypes
<1>7. \A c \in r.owns : Follows(r, c, p, held \ R)
  BY <1>4, <1>5 DEF CtlOK, Follows
<1> QED BY <1>1, <1>6, <1>7 DEF CtlOK

(* Stopping lifts pedals and releases channels: volumes stay. *)
LEMMA ResetKeeps ==
  ASSUME ControllersAssumption, NEW k, NEW p \in Nat, CtlOK(k, p, locked)
  PROVE  CtlOK(reset_sequence(k), p, {})
<1> DEFINE down == {c \in Chans : k.log[Row(SUSTAIN, c)] >= 64}
           rows == {Row(SUSTAIN, c) : c \in down}
           glob == [x \in Cells |-> IF x \in rows THEN 0 ELSE k.global[x]]
           dev == [c \in Chans |-> [i \in Watched |->
                     IF i = SUSTAIN /\ c \in down THEN 0 ELSE k.device[c][i]]]
           m == [[k EXCEPT !.global = glob] EXCEPT !.device = dev]
<1>1. reset_sequence(k) = release_channels(m, locked)
  BY DEF reset_sequence
<1>2. CtlTypes(k) /\ k.owns \subseteq Chans
  BY DEF CtlOK, CtlTypes
<1>3. \A c \in k.owns : c \notin rows /\ c \in Cells
  BY <1>2, Sizes
<1>4. \A c \in k.owns : glob[c] = k.global[c] /\ dev[c][PART_VOLUME] = k.device[c][PART_VOLUME]
  BY <1>2, <1>3, Sizes
<1>5. glob = [x \in Cells |-> glob[x]] /\ dev = [c \in Chans |-> [i \in Watched |-> dev[c][i]]]
  OBVIOUS
<1> HIDE DEF down, rows, glob, dev
<1>6. /\ IsCtl(m) /\ m.global = glob /\ m.device = dev /\ m.log = k.log
      /\ m.indirect = k.indirect /\ m.owns = k.owns
  <2> DEFINE a == [k EXCEPT !.global = glob]
  <2>1. a = [k EXCEPT !.global = glob]
    OBVIOUS
  <2>2. m = [a EXCEPT !.device = dev]
    OBVIOUS
  <2>3. IsCtl(k)
    BY <1>2 DEF CtlTypes
  <2> HIDE DEF a, m
  <2>4. /\ IsCtl(a) /\ a.global = glob /\ a.log = k.log /\ a.indirect = k.indirect
        /\ a.device = k.device /\ a.owns = k.owns
    BY <2>1, <2>3, New_global
  <2>5. /\ IsCtl(m) /\ m.global = a.global /\ m.log = a.log /\ m.indirect = a.indirect
        /\ m.device = dev /\ m.owns = a.owns
    BY <2>2, <2>4, New_device
  <2> QED BY <2>4, <2>5
<1> HIDE DEF m
<1>7. CtlTypes(m)
  BY <1>2, <1>5, <1>6 DEF CtlTypes
<1>8. CtlOK(m, p, locked)
  BY <1>4, <1>6, <1>7 DEF CtlOK, Follows
<1>9. CtlOK(release_channels(m, locked), p, locked \ locked)
  BY <1>8, ReleaseKeeps
<1>10. locked \ locked = {}
  OBVIOUS
<1> QED BY <1>1, <1>9, <1>10

(* Every set of numbers that is not empty has a least one. *)
LEMMA LowestMember ==
  ASSUME NEW S, S \subseteq Nat, S # {}
  PROVE  \E m \in S : \A n \in S : m <= n
<1>1. PICK m \in S : \A n \in S : <<n, m>> \notin OpToRel(<, Nat)
  BY NatLessThanWellFounded, WFMin
<1>2. \A n \in S : ~ (n < m)
  BY <1>1 DEF OpToRel
<1> QED BY <1>2

(* f is restore_sequence's function from k, up to n. *)
Upto(k, f, n) == f = [x \in 0 .. n |-> IF x = 0 THEN k ELSE restore_cell(f[x - 1], x - 1)]

(* It exists for every n. *)
LEMMA RestoreDefined ==
  ASSUME NEW k, NEW N \in Nat
  PROVE  \E f : Upto(k, f, N)
<1> DEFINE bad == {n \in Nat : ~ \E f : Upto(k, f, n)}
<1>1. SUFFICES ASSUME bad # {} PROVE FALSE
  OBVIOUS
<1>2. PICK m \in bad : \A n \in bad : m <= n
  BY <1>1, LowestMember
<1>3. CASE m = 0
  <2>1. Upto(k, [x \in 0 .. 0 |-> k], 0)
    BY DEF Upto
  <2> QED BY <1>2, <1>3, <2>1
<1>4. CASE m # 0
  <2>1. m \in Nat /\ m - 1 \in Nat /\ m - 1 \notin bad
    <3>1. bad \subseteq Nat
      OBVIOUS
    <3> HIDE DEF bad
    <3> QED BY <1>2, <1>4, <3>1
  <2>2. PICK f : Upto(k, f, m - 1)
    BY <2>1
  <2> DEFINE y == restore_cell(f[m - 1], m - 1)
             g == [x \in 0 .. m |-> IF x = m THEN y ELSE f[x]]
  <2>3. \A x \in 0 .. m - 1 : f[x] = IF x = 0 THEN k ELSE restore_cell(f[x - 1], x - 1)
    BY <2>2 DEF Upto
  <2>4. \A x \in 0 .. m : x # 0 => g[x - 1] = f[x - 1]
    BY <2>1
  <2>5. \A x \in 0 .. m : g[x] = IF x = 0 THEN k ELSE restore_cell(g[x - 1], x - 1)
    <3>1. TAKE x \in 0 .. m
    <3>2. CASE x = m
      <4>1. g[x - 1] = f[m - 1] /\ g[x] = y
        BY <2>4, <1>4, <3>2
      <4> QED BY <1>4, <3>2, <4>1
    <3>3. CASE x # m
      <4>1. x \in 0 .. m - 1 /\ g[x] = f[x]
        BY <2>1, <3>3
      <4>2. CASE x = 0
        BY <4>1, <4>2, <2>3
      <4>3. CASE x # 0
        <5>1. g[x - 1] = f[x - 1]
          BY <2>4, <4>3
        <5>2. f[x] = restore_cell(f[x - 1], x - 1)
          BY <4>1, <4>3, <2>3
        <5> QED BY <4>1, <4>3, <5>1, <5>2
      <4> QED BY <4>2, <4>3
    <3> QED BY <3>2, <3>3
  <2>6. g = [x \in 0 .. m |-> g[x]]
    OBVIOUS
  <2> HIDE DEF g
  <2>7. Upto(k, g, m)
    BY <2>5, <2>6 DEF Upto
  <2> QED BY <1>2, <2>7
<1> QED BY <1>3, <1>4

(* Resuming sends what the log has, in rows, through the same steps. *)
LEMMA RestoreKeeps ==
  ASSUME ControllersAssumption, NEW k, vol_percent \in Nat, CtlOK(k, vol_percent, locked)
  PROVE  CtlOK(restore_sequence(k), vol_percent, locked)
<1> DEFINE N == NUM_CHANS * NCTRLS
           f == CHOOSE g : g = [n \in 0 .. N |-> IF n = 0 THEN k
                                                  ELSE restore_cell(g[n - 1], n - 1)]
<1>1. restore_sequence(k) = f[N]
  BY DEF restore_sequence
<1>2. N \in Nat /\ NUM_CHANS \in Nat \ {0} /\ NCTRLS \in Nat \ {0}
  BY Sizes
<1>3. f = [n \in 0 .. N |-> IF n = 0 THEN k ELSE restore_cell(f[n - 1], n - 1)]
  <2>1. N \in Nat
    BY <1>2
  <2> HIDE DEF N
  <2>2. \E g : Upto(k, g, N)
    BY <2>1, RestoreDefined
  <2>3. \E g : g = [n \in 0 .. N |-> IF n = 0 THEN k ELSE restore_cell(g[n - 1], n - 1)]
    BY <2>2 DEF Upto
  <2> QED BY <2>3
<1> HIDE DEF f
<1>4. ASSUME NEW s, CtlOK(s, vol_percent, locked), NEW x \in Cells
      PROVE  CtlOK(restore_cell(s, x), vol_percent, locked)
  <2>1. CASE s.log[x] = Unset
    BY <1>4, <2>1 DEF restore_cell
  <2>2. CASE s.log[x] # Unset
    <3>1. s.log[x] \in Values7
      BY <1>4, <2>2 DEF CtlOK, CtlTypes
    <3>2. x % NUM_CHANS \in Chans
      BY <1>2 DEF Chans, Cells
    <3>3. x \div NUM_CHANS \in Ctrls
      <4>1. x \in Nat /\ x < NUM_CHANS * NCTRLS
        BY <1>2 DEF Cells
      <4>2. x \div NUM_CHANS < NCTRLS
        BY <1>2, <4>1
      <4>3. x \div NUM_CHANS \in Nat
        BY <1>2, <4>1
      <4> QED BY <1>2, <4>2, <4>3 DEF Ctrls
    <3> QED BY <1>4, <2>2, <3>1, <3>2, <3>3, ControlKeeps DEF restore_cell
  <2> QED BY <2>1, <2>2
<1> DEFINE bad == {n \in 0 .. N : ~ CtlOK(f[n], vol_percent, locked)}
<1>5. bad = {}
  <2>1. SUFFICES ASSUME bad # {} PROVE FALSE
    OBVIOUS
  <2>2. bad \subseteq Nat
    BY <1>2
  <2>3. PICK m \in bad : \A n \in bad : m <= n
    BY <2>1, <2>2, LowestMember
  <2>4. m \in 0 .. N
    OBVIOUS
  <2>5. CASE m = 0
    BY <1>2, <1>3, <2>3, <2>5
  <2>6. CASE m # 0
    <3>1. m - 1 \in 0 .. N /\ m - 1 \in Cells /\ m - 1 \notin bad
      BY <1>2, <2>3, <2>4, <2>6 DEF Cells
    <3>2. f[m] = restore_cell(f[m - 1], m - 1)
      BY <1>3, <2>4, <2>6
    <3>3. CtlOK(f[m - 1], vol_percent, locked)
      BY <3>1
    <3> QED BY <1>4, <2>3, <3>1, <3>2, <3>3
  <2> QED BY <2>5, <2>6
<1>6. N \in 0 .. N
  BY <1>2
<1> HIDE DEF N
<1> QED BY <1>1, <1>5, <1>6

----------------------------------------------------------------------------
(* The steps. *)

LEMMA VolumeInit == ASSUME ControllersAssumption, Init PROVE VolumeInv
<1>1. VolumeTypes /\ ctl.owns = {}
  BY DEF Init, VolumeTypes
<1>2. IsCtl(ctl)
  BY DEF Init, IsCtl
<1>3. /\ ctl.log \in [Cells -> Values7 \cup {Unset}]
      /\ ctl.indirect \in [Chans -> {-1} \cup DOMAIN ctrl_ptr]
      /\ ctl.device = [c \in Chans |-> [i \in Watched |-> ctl.device[c][i]]]
  BY DEF Init
<1>4. ctl.global = Defaults /\ Defaults = [x \in Cells |-> Defaults[x]]
  BY DEF Init, Defaults
<1> QED BY <1>1, <1>2, <1>3, <1>4 DEF VolumeInv, CtlOK, CtlTypes

LEMMA VolumeStart ==
  ASSUME ControllersAssumption, VolumeInv, start_seq
  PROVE  VolumeInv'
<1> DEFINE k == IF status = "playing" THEN reset_sequence(ctl) ELSE ctl
           log == [x \in Cells |-> Unset]
           ind == [c \in Chans |-> -1]
           a == [k EXCEPT !.log = log]
           b == [a EXCEPT !.indirect = ind]
           m == [b EXCEPT !.owns = {}]
<1>1. ctl' = m
  BY DEF start_seq
<1>2. CtlTypes(k)
  BY ResetKeeps DEF VolumeInv, VolumeTypes, CtlOK
<1>3. /\ log \in [Cells -> Values7 \cup {Unset}]
      /\ ind \in [Chans -> {-1} \cup DOMAIN ctrl_ptr]
  OBVIOUS
<1>4. a = [k EXCEPT !.log = log]
  OBVIOUS
<1>5. b = [a EXCEPT !.indirect = ind]
  OBVIOUS
<1>6. m = [b EXCEPT !.owns = {}]
  OBVIOUS
<1> HIDE DEF k, log, ind, a, b, m
<1>7. IsCtl(k)
  BY <1>2 DEF CtlTypes
<1>8. /\ IsCtl(a) /\ a.global = k.global /\ a.log = log /\ a.indirect = k.indirect
      /\ a.device = k.device /\ a.owns = k.owns
  BY <1>4, <1>7, New_log
<1>9. /\ IsCtl(b) /\ b.global = a.global /\ b.log = a.log /\ b.indirect = ind
      /\ b.device = a.device /\ b.owns = a.owns
  BY <1>5, <1>8, New_indirect
<1>10. /\ IsCtl(m) /\ m.global = b.global /\ m.log = b.log /\ m.indirect = b.indirect
       /\ m.device = b.device /\ m.owns = {}
  BY <1>6, <1>9, New_owns
<1>11. CtlTypes(m)
  BY <1>2, <1>3, <1>8, <1>9, <1>10 DEF CtlTypes
<1>12. CtlOK(ctl', vol_percent', locked')
  BY <1>1, <1>10, <1>11 DEF CtlOK
<1>13. VolumeTypes'
  BY DEF start_seq, VolumeInv, VolumeTypes
<1> QED BY <1>12, <1>13 DEF VolumeInv

LEMMA VolumeStopResume ==
  ASSUME ControllersAssumption, VolumeInv, stop_seq \/ resume_seq
  PROVE  VolumeInv'
<1>1. VolumeTypes' /\ vol_percent' = vol_percent /\ vol_percent \in Nat
  BY DEF stop_seq, resume_seq, volume, VolumeInv, VolumeTypes
<1>2. CtlOK(ctl, vol_percent, locked)
  BY DEF VolumeInv
<1>3. CASE stop_seq
  <2>1. CtlOK(reset_sequence(ctl), vol_percent, {})
    BY <1>1, <1>2, ResetKeeps
  <2> QED BY <1>1, <1>3, <2>1 DEF stop_seq, VolumeInv
<1>4. CASE resume_seq
  <2>1. CtlOK(restore_sequence(ctl), vol_percent, locked)
    BY <1>1, <1>2, RestoreKeeps
  <2> QED BY <1>1, <1>4, <2>1 DEF resume_seq, VolumeInv
<1> QED BY <1>3, <1>4

LEMMA VolumeControl ==
  ASSUME ControllersAssumption, VolumeInv, control \/ prefix
  PROVE  VolumeInv'
<1>1. /\ VolumeTypes' /\ vol_percent' = vol_percent /\ vol_percent \in Nat
      /\ locked' = locked
  BY DEF control, prefix, volume, VolumeInv, VolumeTypes
<1>2. CtlOK(ctl, vol_percent, locked)
  BY DEF VolumeInv
<1>3. CASE control
  <2>1. PICK c \in Chans, i \in Ctrls : \E v \in Values[i] : ctl' = XMIDI_control(ctl, c, i, v)
    BY <1>3 DEF control
  <2>2. PICK v \in Values[i] : ctl' = XMIDI_control(ctl, c, i, v)
    BY <2>1
  <2>3. v \in Values7
    BY <2>2 DEF ControllersAssumption, Values7
  <2>4. CtlOK(XMIDI_control(ctl, c, i, v), vol_percent, locked)
    BY <1>1, <1>2, <2>3, ControlKeeps
  <2> QED BY <1>1, <2>2, <2>4 DEF VolumeInv
<1>4. CASE prefix
  <2>1. PICK c \in Chans, x \in DOMAIN ctrl_ptr : ctl' = [ctl EXCEPT !.indirect[c] = x]
    BY <1>4 DEF prefix
  <2> DEFINE ind == [ctl.indirect EXCEPT ![c] = x]
  <2>2. ctl' = [ctl EXCEPT !.indirect = ind]
    BY <2>1
  <2>3. CtlTypes(ctl) /\ IsCtl(ctl)
    BY <1>2 DEF CtlOK, CtlTypes
  <2>4. ind \in [Chans -> {-1} \cup DOMAIN ctrl_ptr]
    BY <2>3 DEF CtlTypes
  <2> HIDE DEF ind
  <2>5. /\ IsCtl(ctl') /\ ctl'.global = ctl.global /\ ctl'.log = ctl.log
        /\ ctl'.indirect = ind /\ ctl'.device = ctl.device /\ ctl'.owns = ctl.owns
    BY <2>2, <2>3, New_indirect
  <2>6. CtlTypes(ctl')
    BY <2>3, <2>4, <2>5 DEF CtlTypes
  <2>7. \A d \in ctl'.owns : Follows(ctl', d, vol_percent, locked)
    BY <1>2, <2>5 DEF CtlOK, Follows
  <2> QED BY <1>1, <2>6, <2>7 DEF VolumeInv, CtlOK
<1> QED BY <1>3, <1>4

LEMMA DistanceNat ==
  ASSUME NEW a \in Nat, NEW b \in Nat
  PROVE  Distance(a, b) \in Nat /\ (a # b => Distance(a, b) # 0)
BY DEF Distance

LEMMA VolumeSet ==
  ASSUME ControllersAssumption, VolumeInv, set_rel_volume
  PROVE  VolumeInv'
<1>1. CtlOK(ctl, vol_percent, locked) /\ VolumeTypes /\ locked' = locked
  BY DEF VolumeInv, set_rel_volume
<1>2. PICK v \in Volumes, grad \in Grads :
        /\ vol_target' = v
        /\ IF grad = 0
           THEN /\ vol_percent' = v
                /\ ctl' = XMIDI_volume(ctl, v)
                /\ UNCHANGED <<vol_accum, vol_period>>
           ELSE /\ UNCHANGED <<vol_percent, ctl>>
                /\ IF v = vol_percent THEN UNCHANGED <<vol_accum, vol_period>>
                   ELSE LET p == (Unit * grad) \div Distance(v, vol_percent) IN
                        /\ vol_period' = IF p = 0 THEN 1 ELSE p
                        /\ vol_accum' = 0
  BY DEF set_rel_volume
<1>3. v \in Nat /\ grad \in Nat /\ Unit \in Nat
  BY DEF ControllersAssumption
<1>4. CASE grad = 0
  <2>1. CtlOK(XMIDI_volume(ctl, v), v, locked)
    BY <1>1, <1>3, VolumeKeeps
  <2>2. VolumeTypes'
    BY <1>1, <1>2, <1>3, <1>4 DEF VolumeTypes
  <2> QED BY <1>1, <1>2, <1>4, <2>1, <2>2 DEF VolumeInv
<1>5. CASE grad # 0 /\ v = vol_percent
  <2>1. VolumeTypes'
    BY <1>1, <1>2, <1>3, <1>5 DEF VolumeTypes
  <2> QED BY <1>1, <1>2, <1>5, <2>1 DEF VolumeInv
<1>6. CASE grad # 0 /\ v # vol_percent
  <2> DEFINE u == Unit * grad  d == Distance(v, vol_percent)  p == u \div d
  <2>1. u \in Nat
    BY <1>3
  <2>2. d \in Nat \ {0}
    BY <1>1, <1>3, <1>6, DistanceNat DEF VolumeTypes
  <2>3. p \in Nat
    <3> HIDE DEF u, d
    <3> QED BY <2>1, <2>2, DivNat
  <2>4. /\ vol_period' = IF p = 0 THEN 1 ELSE p
        /\ vol_accum' = 0 /\ vol_percent' = vol_percent /\ ctl' = ctl
    BY <1>2, <1>6
  <2> HIDE DEF p
  <2>5. VolumeTypes'
    BY <1>1, <1>2, <1>3, <2>3, <2>4 DEF VolumeTypes
  <2> QED BY <1>1, <2>4, <2>5 DEF VolumeInv
<1> QED BY <1>4, <1>5, <1>6

LEMMA VolumeServe ==
  ASSUME ControllersAssumption, VolumeInv, serve
  PROVE  VolumeInv'
<1>1. /\ CtlOK(ctl, vol_percent, locked) /\ VolumeTypes /\ locked' = locked
      /\ vol_target' = vol_target /\ vol_period' = vol_period
      /\ ctl' = XMIDI_volume(ctl, vol_percent')
  BY DEF VolumeInv, serve
<1>2. vol_percent # vol_target /\ vol_period \in Nat \ {0}
  BY <1>1 DEF serve, VolumeTypes
<1> DEFINE rem == vol_accum + QuantStep  steps == rem \div vol_period
<1>3. rem \in Nat
  BY <1>1 DEF VolumeTypes, ControllersAssumption
<1>4. /\ vol_accum' = rem % vol_period
      /\ vol_percent' = IF Distance(vol_percent, vol_target) <= steps THEN vol_target
                        ELSE IF vol_percent < vol_target THEN vol_percent + steps
                        ELSE vol_percent - steps
  BY DEF serve, Ramp
<1> HIDE DEF rem
<1>5. steps \in Nat /\ rem % vol_period \in Nat
  BY <1>2, <1>3, DivNat
<1> HIDE DEF steps
<1>6. vol_percent' \in Nat
  BY <1>1, <1>4, <1>5 DEF VolumeTypes, Distance
<1>7. VolumeTypes'
  BY <1>1, <1>2, <1>4, <1>5, <1>6 DEF VolumeTypes
<1>8. CtlOK(XMIDI_volume(ctl, vol_percent'), vol_percent', locked)
  BY <1>1, <1>6, VolumeKeeps
<1> QED BY <1>1, <1>7, <1>8 DEF VolumeInv

(* More channels locked ask for less. *)
LEMMA LockedMore ==
  ASSUME NEW k, NEW p, NEW held, NEW more, held \subseteq more, CtlOK(k, p, held)
  PROVE  CtlOK(k, p, more)
BY DEF CtlOK, Follows

(* What is sent on a locked channel is not the sequence's volume. *)
LEMMA SendKeeps ==
  ASSUME ControllersAssumption, NEW k, NEW p, NEW held, CtlOK(k, p, held),
         NEW c \in held, NEW i, NEW v, c \in Chans
  PROVE  CtlOK(Send(k, c, i, v), p, held)
<1> DEFINE n == Send(k, c, i, v)
<1>1. CtlTypes(k) /\ k.owns \subseteq Chans
  BY DEF CtlOK, CtlTypes
<1>2. /\ CtlTypes(n) /\ n.log = k.log /\ n.global = k.global /\ n.owns = k.owns
      /\ \A d \in Chans : n.device[d][PART_VOLUME] =
           IF d = c /\ i = PART_VOLUME THEN v ELSE k.device[d][PART_VOLUME]
  BY <1>1, SendLeaves
<1> HIDE DEF n
<1>3. ASSUME NEW d \in k.owns PROVE Follows(n, d, p, held)
  <2>1. d \in Chans
    BY <1>1
  <2>2. CASE d \in held
    BY <1>2, <2>2 DEF CtlOK, Follows
  <2>3. CASE d \notin held
    <3>1. n.device[d][PART_VOLUME] = k.device[d][PART_VOLUME]
      BY <1>2, <2>1, <2>3
    <3> QED BY <1>2, <2>3, <3>1 DEF CtlOK, Follows
  <2> QED BY <2>2, <2>3
<1> QED BY <1>2, <1>3 DEF CtlOK, n

LEMMA VolumeApplication ==
  ASSUME ControllersAssumption, VolumeInv, locked \subseteq Chans,
         lock_channel \/ release_channel \/ send_message
  PROVE  VolumeInv'
<1>1. /\ VolumeTypes' /\ vol_percent' = vol_percent /\ vol_percent \in Nat
      /\ CtlOK(ctl, vol_percent, locked)
  BY DEF lock_channel, release_channel, send_message, volume, VolumeInv, VolumeTypes
<1>2. CASE lock_channel
  <2>1. PICK c \in Chans \ locked : locked' = locked \cup {c} /\ ctl' = Send(ctl, c, SUSTAIN, 0)
    BY <1>2 DEF lock_channel
  <2>2. CtlOK(ctl, vol_percent, locked \cup {c})
    BY <1>1, LockedMore
  <2>3. CtlOK(Send(ctl, c, SUSTAIN, 0), vol_percent, locked \cup {c})
    BY <2>2, SendKeeps
  <2> QED BY <1>1, <2>1, <2>3 DEF VolumeInv
<1>3. CASE release_channel
  <2>1. PICK c \in locked : locked' = locked \ {c} /\ ctl' = release_channels(ctl, {c})
    BY <1>3 DEF release_channel
  <2>2. CtlOK(release_channels(ctl, {c}), vol_percent, locked \ {c})
    BY <1>1, ReleaseKeeps
  <2> QED BY <1>1, <2>1, <2>2 DEF VolumeInv
<1>4. CASE send_message
  <2>1. PICK c \in locked, i \in Watched : \E v \in Values[i] : ctl' = Send(ctl, c, i, v)
    BY <1>4 DEF send_message
  <2>2. PICK v \in Values[i] : ctl' = Send(ctl, c, i, v)
    BY <2>1
  <2>3. c \in Chans /\ locked' = locked
    BY <1>4 DEF send_message
  <2>4. CtlOK(Send(ctl, c, i, v), vol_percent, locked)
    BY <1>1, <2>3, SendKeeps
  <2> QED BY <1>1, <2>2, <2>3, <2>4 DEF VolumeInv
<1> QED BY <1>2, <1>3, <1>4

LEMMA LockedStep ==
  ASSUME locked \subseteq Chans, [Next]_vars
  PROVE  (locked \subseteq Chans)'
BY DEF Next, vars, start_seq, stop_seq, resume_seq, control, prefix, set_rel_volume, serve,
       lock_channel, release_channel, send_message

VolumeAll == VolumeInv /\ locked \subseteq Chans

LEMMA VolumeNext ==
  ASSUME ControllersAssumption, VolumeAll, [Next]_vars
  PROVE  VolumeAll'
<1>1. VolumeInv /\ locked \subseteq Chans /\ (locked \subseteq Chans)'
  BY LockedStep DEF VolumeAll
<1>2. CASE start_seq
  BY <1>1, <1>2, VolumeStart DEF VolumeAll
<1>3. CASE stop_seq \/ resume_seq
  BY <1>1, <1>3, VolumeStopResume DEF VolumeAll
<1>4. CASE control \/ prefix
  BY <1>1, <1>4, VolumeControl DEF VolumeAll
<1>5. CASE set_rel_volume
  BY <1>1, <1>5, VolumeSet DEF VolumeAll
<1>6. CASE serve
  BY <1>1, <1>6, VolumeServe DEF VolumeAll
<1>7. CASE lock_channel \/ release_channel \/ send_message
  BY <1>1, <1>7, VolumeApplication DEF VolumeAll
<1>8. CASE UNCHANGED vars
  <2>1. VolumeTypes' /\ ctl' = ctl /\ vol_percent' = vol_percent /\ locked' = locked
    BY <1>1, <1>8 DEF vars, volume, VolumeInv, VolumeTypes
  <2> QED BY <1>1, <2>1 DEF VolumeAll, VolumeInv
<1> QED BY <1>2, <1>3, <1>4, <1>5, <1>6, <1>7, <1>8 DEF Next

(* Through every order of controllers, indirect values, ramps, stops,      *)
(* resumes, locks and releases, the synthesiser has the scaled volume of   *)
(* each unlocked channel the song gave one.                                *)
THEOREM VolumeFollowsAlways == Spec => []VolumeFollows
<1>1. Init => VolumeAll
  <2>1. Init => locked \subseteq Chans
    BY DEF Init
  <2> QED BY <2>1, VolumeInit, ControllersAssumption DEF VolumeAll
<1>2. VolumeAll /\ [Next]_vars => VolumeAll'
  BY VolumeNext, ControllersAssumption
<1>3. VolumeAll => VolumeFollows
  <2>1. SUFFICES ASSUME VolumeAll, NEW c \in ctl.owns \ locked
                 PROVE  ctl.device[c][PART_VOLUME] = Scaled(ctl.log[Row(PART_VOLUME, c)], vol_percent)
    BY DEF VolumeFollows
  <2>2. Follows(ctl, c, vol_percent, locked) /\ c \in Chans
    BY <2>1 DEF VolumeAll, VolumeInv, CtlOK, CtlTypes
  <2>3. Row(PART_VOLUME, c) = c
    BY <2>2, Sizes, ControllersAssumption
  <2> QED BY <2>2, <2>3 DEF Follows
<1> QED BY <1>1, <1>2, <1>3, PTL DEF Spec
=============================================================================
