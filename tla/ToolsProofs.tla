----------------------------- MODULE ToolsProofs ----------------------------
(***************************************************************************)
(* Proofs about the DOS tools, for every MIDI file and every stream of     *)
(* bytes from the instrument:                                              *)
(*   MIDIFORM  rounding never adds up (NoDriftAlways), the chunk's list of *)
(*             timbres is exact (TimbresExactAlways), and the notes still  *)
(*             on and the branch points keep their places while durations  *)
(*             are written into the middle of it (PlacesKeptAlways);       *)
(*   MIDIECHO  the partials in use are accounted for, and no note is on a  *)
(*             timbre that was not set up (TimbresAccountedAlways); every  *)
(*             message comes out whole and in order (EchoFaithfulAlways);  *)
(*   MIDIREC   every message read from the ring is in the file, whole, in  *)
(*             order and in time (RecordedAsPlayedAlways).                 *)
(***************************************************************************)
EXTENDS Tools, SequenceTheorems, FiniteSetTheorems, WellFoundedInduction, TLAPS

----------------------------------------------------------------------------
(* Numbers. *)

(* A set of numbers that is not empty has a least member. *)
LEMMA LowestMember ==
  ASSUME NEW T \in SUBSET Nat, T # {}
  PROVE  \E m \in T : \A n \in T : m <= n
<1> DEFINE R == {ss \in Nat \X Nat : ss[1] < ss[2]}
<1>1. IsWellFoundedOn(R, Nat)
  BY NatLessThanWellFounded DEF OpToRel
<1>2. PICK m \in T : \A n \in T : ~ (<<n, m>> \in R)
  <2> HIDE DEF R
  <2> QED BY <1>1, WFMin
<1>3. \A n \in T : ~ (n < m)
  BY <1>2
<1> QED BY <1>3

(* Sets of numbers that hold 0, and with each number the next, hold all.   *)
LEMMA Upwards ==
  ASSUME NEW N \in Nat, NEW G, 0 \in G, \A n \in 0 .. N - 1 : n \in G => n + 1 \in G
  PROVE  0 .. N \subseteq G
<1> DEFINE rest == {n \in 0 .. N : n \notin G}
<1>1. SUFFICES ASSUME rest # {} PROVE FALSE
  OBVIOUS
<1>2. PICK m \in rest : \A n \in rest : m <= n
  <2>1. rest \in SUBSET Nat
    OBVIOUS
  <2> HIDE DEF rest
  <2> QED BY <1>1, <2>1, LowestMember
<1>3. m \in 0 .. N /\ m \notin G /\ m # 0
  BY <1>2
<1>4. m - 1 \in 0 .. N - 1 /\ m - 1 \notin rest
  BY <1>2, <1>3
<1>5. m - 1 \in G
  BY <1>4
<1> QED BY <1>3, <1>4, <1>5

(* Remainders. *)
LEMMA DivMod ==
  ASSUME NEW M \in Nat \ {0}, NEW x \in Nat
  PROVE  /\ x \div M \in Nat /\ x % M \in 0 .. M - 1
         /\ x = M * (x \div M) + (x % M)
  BY Z3

----------------------------------------------------------------------------
(* The track that is read next. *)

LEMMA NextTrackLeast ==
  ASSUME trk_active \in SUBSET Trks, trk_active # {},
         pending_delta \in [Trks -> Nat], event_trk \in Trks
  PROVE  /\ NextTrack \in trk_active
         /\ \A u \in trk_active : pending_delta[NextTrack] <= pending_delta[u]
<1> DEFINE P == {pending_delta[t] : t \in trk_active}
           Better(t, u) ==
             \/ pending_delta[t] < pending_delta[u]
             \/ pending_delta[t] = pending_delta[u] /\ ScanRank(t) >= ScanRank(u)
<1>1. P \in SUBSET Nat /\ P # {}
  OBVIOUS
<1>2. PICK m \in P : \A n \in P : m <= n
  <2> HIDE DEF P
  <2> QED BY <1>1, LowestMember
<1> DEFINE R == {ntrks - ScanRank(t) : t \in {u \in trk_active : pending_delta[u] = m}}
<1>3. \A t \in trk_active : ScanRank(t) \in 0 .. ntrks - 1
  <2>1. ntrks \in Nat \ {0}
    BY ConverterAssumption
  <2> QED BY <2>1 DEF ScanRank, Trks
<1>4. R \in SUBSET Nat /\ R # {}
  <2>1. ntrks \in Nat
    BY ConverterAssumption
  <2> QED BY <1>2, <1>3, <2>1
<1>5. PICK r \in R : \A n \in R : r <= n
  <2> HIDE DEF R
  <2> QED BY <1>4, LowestMember
<1>6. PICK t \in trk_active : pending_delta[t] = m /\ r = ntrks - ScanRank(t)
  BY <1>5
<1>7. ASSUME NEW u \in trk_active PROVE Better(t, u)
  <2>1. m <= pending_delta[u] /\ m \in Nat /\ pending_delta[u] \in Nat
    BY <1>1, <1>2
  <2>2. CASE pending_delta[u] = m
    <3>1. ntrks - ScanRank(u) \in R
      BY <2>2
    <3>2. r <= ntrks - ScanRank(u)
      BY <1>5, <3>1
    <3>3. ScanRank(t) \in Nat /\ ScanRank(u) \in Nat /\ ntrks \in Nat
      BY <1>3, ConverterAssumption
    <3> QED BY <1>6, <2>2, <3>2, <3>3
  <2> QED BY <1>6, <2>1, <2>2
<1>8. \E x \in trk_active : \A u \in trk_active : Better(x, u)
  BY <1>7
<1>9. NextTrack = CHOOSE x \in trk_active : \A u \in trk_active : Better(x, u)
  BY DEF NextTrack
<1>10. NextTrack \in trk_active /\ \A u \in trk_active : Better(NextTrack, u)
  <2> HIDE DEF Better
  <2> QED BY <1>8, <1>9
<1> QED BY <1>10

----------------------------------------------------------------------------
(* The actions of the converter, by what they do to its clock. *)

FormStep ==
  \/ note_on \/ note_off \/ branch_point \/ bank_select \/ program \/ name \/ copy
  \/ tempo \/ end_of_track \/ finish

LEMMA ToolSteps ==
  ASSUME [Next]_toolvars
  PROVE  UNCHANGED formvars \/ (tool = "MIDIFORM" /\ FormStep)
  BY DEF Next, toolvars, Recording, Filtering, Echoing, Compiling, FormStep

(* An event is read and its time counted at the tick time k. *)
Turn(k) ==
  /\ trk_active # {} /\ trk_active' \in SUBSET trk_active
  /\ \E d \in Deltas \cup {0} : Take(d)
  /\ accum_interval(k)
  /\ \/ k = tick_time /\ tick_time' = tick_time
     \/ k \in Ticks /\ tick_time' = k

LEMMA ClockSteps ==
  ASSUME FormStep
  PROVE  \/ \E k \in Ticks \cup {tick_time} : Turn(k)
         \/ UNCHANGED <<pending_delta, trk_active, event_trk, tick_time, DDA_sum, interval,
                        elapsed, skew>>
<1>1. CASE note_on
  BY <1>1 DEF note_on, Reading, Pass, Put, Turn
<1>2. CASE note_off \/ name
  BY <1>2 DEF note_off, name, Reading, Pass, Turn
<1>3. CASE branch_point
  BY <1>3 DEF branch_point, Reading, Pass, Put, Turn
<1>4. CASE bank_select \/ program
  BY <1>4 DEF bank_select, program, Reading, Pass, Put, Turn
<1>5. CASE copy
  BY <1>5 DEF copy, Reading, Put, Turn
<1>6. CASE tempo
  BY <1>6 DEF tempo, Reading, Turn
<1>7. CASE end_of_track
  BY <1>7 DEF end_of_track, Pass, Turn
<1>8. CASE finish
  BY <1>8 DEF finish, reader, times
<1> QED BY <1>1, <1>2, <1>3, <1>4, <1>5, <1>6, <1>7, <1>8 DEF FormStep

----------------------------------------------------------------------------
(* The clock. *)

(* No delta of the file at a tempo of the file overflows the sum: a pause  *)
(* of more than 42.9 seconds would (DDA_sum counts 10 ns in 32 bits).      *)
TimeFits == \A d \in Deltas, k \in Ticks \cup {Tick} : q_int + d * k <= ULong

ClockTyped ==
  /\ pending_delta \in [Trks -> Nat]
  /\ \A t \in Trks : \E d \in Deltas : pending_delta[t] <= d
  /\ trk_active \in SUBSET Trks /\ event_trk \in Trks
  /\ tick_time \in Ticks \cup {Tick}
  /\ DDA_sum \in Nat /\ interval \in Nat /\ elapsed \in Int /\ skew \in Int
ClockInv == ClockTyped /\ NoDrift

LEMMA ProductsGrow ==
  ASSUME NEW a \in Nat, NEW b \in Nat, NEW k \in Nat, a <= b
  PROVE  a * k \in Nat /\ a * k <= b * k
<1> DEFINE c == b - a
<1>1. c \in Nat /\ b = a + c
  OBVIOUS
<1> HIDE DEF c
<1>2. (a + c) * k = a * k + c * k /\ a * k \in Nat /\ c * k \in Nat
  BY <1>1
<1>3. b * k = (a + c) * k
  BY <1>1
<1> QED BY <1>2, <1>3

LEMMA FormInitClock ==
  ASSUME FormInit
  PROVE  ClockInv
<1>1. ntrks \in Nat \ {0} /\ Deltas \in SUBSET Nat /\ q_int \in Nat \ {0}
  BY ConverterAssumption
<1>2. pending_delta \in [Trks -> Deltas] /\ trk_active = Trks /\ event_trk \in Trks
  BY <1>1 DEF FormInit, Trks
<1>3. \A t \in Trks : \E d \in Deltas : pending_delta[t] <= d
  <2>1. \A t \in Trks : pending_delta[t] \in Deltas
    BY <1>2
  <2>2. \A d \in Deltas : d <= d
    BY <1>1
  <2> QED BY <2>1, <2>2
<1>4. NoDrift /\ DDA_sum \in Nat /\ interval \in Nat /\ elapsed \in Int /\ skew \in Int
  <2>1. 0 * q_int = 0
    BY <1>1
  <2> QED BY <1>1, <2>1 DEF FormInit, NoDrift
<1>5. pending_delta \in [Trks -> Nat]
  BY <1>1, <1>2
<1> QED BY <1>2, <1>3, <1>4, <1>5 DEF ClockInv, ClockTyped, FormInit

LEMMA TurnKeepsTypes ==
  ASSUME ClockTyped, NEW k \in Ticks \cup {tick_time}, Turn(k)
  PROVE  /\ ClockTyped'
         /\ Passed(k) \in Nat /\ interval' = interval + Passed(k)
<1> DEFINE m == event_time
           sum == Summed(k)
           n == Passed(k)
<1>1. /\ q_int \in Nat \ {0} /\ ULong \in Nat \ {0} /\ Deltas \in SUBSET Nat
      /\ Ticks \cup {Tick} \in SUBSET Nat
  BY ConverterAssumption
<1>2. /\ pending_delta \in [Trks -> Nat] /\ \A t \in Trks : \E d \in Deltas : pending_delta[t] <= d
      /\ trk_active \in SUBSET Trks /\ trk_active # {} /\ event_trk \in Trks
      /\ tick_time \in Ticks \cup {Tick}
      /\ DDA_sum \in Nat /\ interval \in Nat /\ elapsed \in Int /\ skew \in Int
  BY DEF ClockTyped, Turn
<1>3. NextTrack \in trk_active /\ \A u \in trk_active : m <= pending_delta[u]
  BY <1>2, NextTrackLeast DEF event_time
<1>4. k \in Nat /\ tick_time \in Nat
  BY <1>1, <1>2
<1>5. m \in Nat
  BY <1>1, <1>2, <1>3 DEF event_time
<1> HIDE DEF m
<1>6. sum \in Nat
  <2> DEFINE a == DDA_sum + m * k
  <2>1. a \in Nat
    BY <1>2, <1>4, <1>5
  <2>2. sum = a % ULong
    BY DEF Summed, m
  <2> HIDE DEF a
  <2> QED BY <1>1, <2>1, <2>2, DivMod
<1>7. DDA_sum' = sum % q_int /\ n = sum \div q_int /\ interval' = interval + n
       /\ elapsed' = elapsed + m * tick_time /\ skew' = skew + m * (k - tick_time)
  BY DEF Turn, accum_interval, Passed, m
<1> HIDE DEF sum, n
<1>8. n \in Nat /\ DDA_sum' \in 0 .. q_int - 1
  BY <1>1, <1>6, <1>7, DivMod
<1>9. /\ pending_delta' \in [Trks -> Nat] /\ event_trk' \in Trks
       /\ \A t \in Trks : \E e \in Deltas : pending_delta'[t] <= e
  <2>1. PICK e \in Deltas \cup {0} : Take(e)
    BY DEF Turn
  <2>2. e \in Nat
    BY <1>1, <2>1
  <2>3. \A t \in trk_active : pending_delta[t] - m \in Nat /\ pending_delta[t] - m <= pending_delta[t]
    BY <1>2, <1>3, <1>5
  <2>4. pending_delta' = [t \in Trks |-> IF t = NextTrack THEN e
                            ELSE IF t \in trk_active THEN pending_delta[t] - m
                            ELSE pending_delta[t]] /\ event_trk' = NextTrack
    BY <2>1 DEF Take, m
  <2>5. ASSUME NEW t \in Trks PROVE pending_delta'[t] \in Nat /\ \E x \in Deltas : pending_delta'[t] <= x
    <3>1. PICK x \in Deltas : pending_delta[t] <= x
      BY <1>2
    <3>2. x \in Nat /\ pending_delta[t] \in Nat
      BY <1>1, <1>2
    <3>3. CASE t = NextTrack
      <4>1. pending_delta'[t] = e
        BY <2>4, <3>3
      <4>2. CASE e = 0
        BY <3>2, <4>1, <4>2
      <4>3. CASE e \in Deltas
        BY <2>2, <4>1, <4>3
      <4> QED BY <2>1, <4>1, <4>2, <4>3
    <3>4. CASE t # NextTrack /\ t \in trk_active
      BY <2>3, <2>4, <3>1, <3>2, <3>4, <1>5
    <3>5. CASE t # NextTrack /\ t \notin trk_active
      BY <2>4, <3>1, <3>2, <3>5
    <3> QED BY <3>3, <3>4, <3>5
  <2>6. pending_delta' \in [Trks -> Nat]
    BY <2>4, <2>5
  <2> QED BY <1>2, <1>3, <2>4, <2>5, <2>6
<1>10. trk_active' \in SUBSET Trks /\ tick_time' \in Ticks \cup {Tick}
  BY <1>2 DEF Turn
<1>11. DDA_sum' \in Nat /\ interval' \in Nat /\ elapsed' \in Int /\ skew' \in Int
  <2>1. m * tick_time \in Int /\ m * (k - tick_time) \in Int
    BY <1>4, <1>5
  <2> QED BY <1>1, <1>2, <1>7, <1>8, <2>1
<1> QED BY <1>7, <1>8, <1>9, <1>10, <1>11 DEF ClockTyped, n

LEMMA TurnKeepsClock ==
  ASSUME TimeFits, ClockInv, NEW k \in Ticks \cup {tick_time}, Turn(k)
  PROVE  ClockInv'
<1> DEFINE m == event_time
           sum == Summed(k)
           n == Passed(k)
<1>1. /\ q_int \in Nat \ {0} /\ ULong \in Nat \ {0} /\ Deltas \in SUBSET Nat
      /\ Ticks \cup {Tick} \in SUBSET Nat
  BY ConverterAssumption
<1>2. /\ pending_delta \in [Trks -> Nat] /\ \A t \in Trks : \E d \in Deltas : pending_delta[t] <= d
      /\ trk_active \in SUBSET Trks /\ trk_active # {} /\ event_trk \in Trks
      /\ tick_time \in Ticks \cup {Tick}
      /\ DDA_sum \in Nat /\ interval \in Nat /\ elapsed \in Int /\ skew \in Int
  BY DEF ClockInv, ClockTyped, Turn
<1>3. NextTrack \in trk_active /\ \A u \in trk_active : m <= pending_delta[u]
  BY <1>2, NextTrackLeast DEF event_time
<1>4. k \in Nat /\ k \in Ticks \cup {Tick} /\ tick_time \in Nat
  BY <1>1, <1>2
<1>5. PICK d \in Deltas : m <= d
  BY <1>2, <1>3 DEF event_time
<1>6. m \in Nat /\ d \in Nat
  BY <1>1, <1>2, <1>3 DEF event_time
<1> HIDE DEF m
<1>7. m * k \in Nat /\ m * k <= d * k /\ q_int + d * k <= ULong
  BY <1>4, <1>6, <1>5, ProductsGrow DEF TimeFits
<1>8. sum = DDA_sum + m * k
  <2>1. DDA_sum < q_int
    BY DEF ClockInv, NoDrift
  <2>2. d * k \in Nat
    BY <1>4, <1>6
  <2> DEFINE a == DDA_sum + m * k
  <2>3. a \in Nat /\ a < ULong
    <3>1. ULong \in Nat /\ q_int \in Nat /\ DDA_sum \in Nat
      BY <1>1, <1>2
    <3> QED BY <1>7, <2>1, <2>2, <3>1
  <2>4. sum = a % ULong
    BY DEF Summed, m
  <2> HIDE DEF a
  <2>5. a % ULong = a
    BY <1>1, <2>3
  <2> QED BY <2>4, <2>5 DEF a
<1>9. sum \in Nat
  BY <1>2, <1>7, <1>8
<1>10. DDA_sum' = sum % q_int /\ n = sum \div q_int /\ interval' = interval + n
       /\ elapsed' = elapsed + m * tick_time /\ skew' = skew + m * (k - tick_time)
  BY DEF Turn, accum_interval, Passed, m
<1> HIDE DEF sum, n
<1>11. n \in Nat /\ DDA_sum' \in 0 .. q_int - 1 /\ sum = q_int * n + DDA_sum'
  BY <1>1, <1>9, <1>10, DivMod
<1>12. NoDrift'
  <2>1. interval * q_int + DDA_sum = elapsed + skew
    BY DEF ClockInv, NoDrift
  <2>2. (interval + n) * q_int = interval * q_int + q_int * n
    BY <1>1, <1>2, <1>11
  <2>3. m * (k - tick_time) + m * tick_time = m * k
    BY <1>4, <1>6
  <2>4. interval * q_int \in Int /\ q_int * n \in Int /\ m * tick_time \in Int
        /\ m * (k - tick_time) \in Int
    BY <1>1, <1>2, <1>4, <1>6, <1>11
  <2>5. (interval + n) * q_int + DDA_sum' = elapsed + m * tick_time + skew + m * (k - tick_time)
    <3> DEFINE a == interval * q_int  b == q_int * n  c == m * tick_time
               e == m * (k - tick_time)  f == m * k
    <3>1. a \in Int /\ b \in Int /\ c \in Int /\ e \in Int /\ f \in Int /\ e + c = f
          /\ a + DDA_sum = elapsed + skew
      BY <1>7, <2>1, <2>3, <2>4
    <3>2. DDA_sum + f = b + DDA_sum' /\ DDA_sum' \in Int
      <4>1. DDA_sum' \in Int
        BY <1>1, <1>11
      <4>2. sum = DDA_sum + f /\ sum = b + DDA_sum'
        BY <1>8, <1>11
      <4> QED BY <4>1, <4>2
    <3> HIDE DEF a, b, c, e, f
    <3>3. elapsed \in Int /\ skew \in Int /\ DDA_sum \in Int
      BY <1>2
    <3>4. a + b + DDA_sum' = elapsed + c + skew + e
      <4> DEFINE rest == DDA_sum'
      <4>1. rest \in Int /\ DDA_sum + f = b + rest
        BY <3>2
      <4> HIDE DEF rest
      <4>2. a + b + rest = elapsed + c + skew + e
        BY <3>1, <3>3, <4>1
      <4> QED BY <4>2 DEF rest
    <3>5. (interval + n) * q_int = a + b
      BY <2>2 DEF a, b
    <3> QED BY <3>4, <3>5 DEF c, e
  <2>6. interval' * q_int + DDA_sum' = elapsed' + skew'
    <3> DEFINE c == m * tick_time  e == m * (k - tick_time)
    <3>1. c \in Int /\ e \in Int
      BY <2>4
    <3>2. (interval + n) * q_int + DDA_sum' = elapsed + c + skew + e
      BY <2>5
    <3>3. interval' = interval + n /\ elapsed' = elapsed + c /\ skew' = skew + e
      BY <1>10
    <3> HIDE DEF c, e
    <3>4. elapsed + c + skew + e = (elapsed + c) + (skew + e)
      BY <1>2, <3>1
    <3> QED BY <3>2, <3>3, <3>4
  <2> QED BY <1>1, <1>11, <2>6 DEF NoDrift
<1> QED BY <1>12, TurnKeepsTypes DEF ClockInv

LEMMA NextClock ==
  ASSUME TimeFits, ClockInv, [Next]_toolvars
  PROVE  ClockInv'
<1>1. CASE UNCHANGED formvars
  BY <1>1 DEF formvars, reader, clock, times, ClockInv, ClockTyped, NoDrift
<1>2. CASE FormStep
  <2>1. CASE \E k \in Ticks \cup {tick_time} : Turn(k)
    BY <2>1, TurnKeepsClock
  <2>2. CASE UNCHANGED <<pending_delta, trk_active, event_trk, tick_time, DDA_sum, interval,
                         elapsed, skew>>
    BY <2>2 DEF ClockInv, ClockTyped, NoDrift
  <2> QED BY <1>2, <2>1, <2>2, ClockSteps
<1> QED BY <1>1, <1>2, ToolSteps

(* Rounding never adds up: at every event, the intervals written so far    *)
(* and the rest of the sum are the time of the file, for any number of     *)
(* tracks, deltas and tempos, as long as no single delta overflows.        *)
THEOREM NoDriftAlways == TimeFits => (Spec => []NoDrift)
<1> SUFFICES ASSUME TimeFits PROVE Spec => []NoDrift
  OBVIOUS
<1>1. Init => ClockInv
  BY FormInitClock DEF Init
<1>2. ClockInv /\ [Next]_toolvars => ClockInv'
  BY NextClock
<1>3. ClockInv => NoDrift
  BY DEF ClockInv
<1> QED BY <1>1, <1>2, <1>3, PTL DEF Spec

----------------------------------------------------------------------------
(* The timbres. *)

TimbInv == TIMB \in Seq(Range(TIMB)) /\ TimbresExact

(* Asking for a timbre keeps each once. *)
LEMMA RequestKeeps ==
  ASSUME TimbInv, NEW b, NEW n, request(b, n)
  PROVE  TimbInv'
<1> DEFINE x == [bank |-> b, num |-> n]
<1>1. TIMB \in Seq(Range(TIMB)) /\ Range(TIMB) = wanted
      /\ \A i, j \in DOMAIN TIMB : TIMB[i] = TIMB[j] => i = j
  BY DEF TimbInv, TimbresExact
<1>2. CASE x \in Range(TIMB)
  <2>1. TIMB' = TIMB /\ wanted' = wanted
    BY <1>1, <1>2 DEF request, TimbreKnown
  <2> QED BY <2>1 DEF TimbInv, TimbresExact
<1>3. CASE x \notin Range(TIMB)
  <2>1. TIMB' = Append(TIMB, x) /\ wanted' = wanted \cup {x}
    BY <1>3 DEF request, TimbreKnown
  <2> HIDE DEF x
  <2>2. Len(TIMB) \in Nat /\ DOMAIN TIMB = 1 .. Len(TIMB)
    BY <1>1
  <2>3. /\ DOMAIN TIMB' = 1 .. Len(TIMB) + 1 /\ TIMB'[Len(TIMB) + 1] = x
        /\ \A i \in 1 .. Len(TIMB) : TIMB'[i] = TIMB[i]
    BY <1>1, <2>1
  <2>4. \A i \in 1 .. Len(TIMB) : TIMB[i] # x
    BY <1>3, <2>2 DEF Range
  <2>5. ASSUME NEW i \in DOMAIN TIMB', NEW j \in DOMAIN TIMB', TIMB'[i] = TIMB'[j]
        PROVE  i = j
    <3>1. CASE i \in 1 .. Len(TIMB) /\ j \in 1 .. Len(TIMB)
      BY <1>1, <2>2, <2>3, <2>5, <3>1
    <3>2. CASE i = Len(TIMB) + 1 \/ j = Len(TIMB) + 1
      BY <2>2, <2>3, <2>4, <2>5, <3>2
    <3> QED BY <2>2, <2>3, <3>1, <3>2
  <2>6. Range(TIMB') = Range(TIMB) \cup {x}
    <3>1. Range(TIMB') \subseteq Range(TIMB) \cup {x}
      BY <2>2, <2>3 DEF Range
    <3>2. Range(TIMB) \subseteq Range(TIMB')
      BY <2>2, <2>3 DEF Range
    <3>3. x \in Range(TIMB')
      BY <2>2, <2>3 DEF Range
    <3> QED BY <3>1, <3>2, <3>3
  <2>7. TIMB' \in Seq(Range(TIMB'))
    <3>1. TIMB \in Seq(Range(TIMB) \cup {x})
      BY <1>1
    <3> QED BY <2>1, <2>6, <3>1
  <2> QED BY <1>1, <2>1, <2>5, <2>6, <2>7 DEF TimbInv, TimbresExact
<1> QED BY <1>2, <1>3

LEMMA NextTimbres ==
  ASSUME TimbInv, [Next]_toolvars
  PROVE  TimbInv'
<1>1. CASE UNCHANGED <<TIMB, wanted>>
  BY <1>1 DEF TimbInv, TimbresExact
<1>2. CASE \E b, n : request(b, n)
  BY <1>2, RequestKeeps
<1>3. ASSUME FormStep
      PROVE  UNCHANGED <<TIMB, wanted>> \/ \E b, n : request(b, n)
  <2>1. CASE note_on
    BY <2>1 DEF note_on, timbres
  <2>2. CASE program
    BY <2>2 DEF program
  <2>3. CASE bank_select
    BY <2>3 DEF bank_select
  <2>4. CASE note_off \/ branch_point \/ name \/ copy \/ tempo \/ end_of_track \/ finish
    BY <2>4 DEF note_off, branch_point, name, copy, tempo, end_of_track, finish, timbres
  <2> QED BY <1>3, <2>1, <2>2, <2>3, <2>4 DEF FormStep
<1>4. CASE UNCHANGED formvars
  BY <1>4 DEF formvars, timbres, TimbInv, TimbresExact
<1> QED BY <1>1, <1>2, <1>3, <1>4, ToolSteps

(* The chunk's list of timbres is exact after every event, in every song.  *)
THEOREM TimbresExactAlways == Spec => []TimbresExact
<1>1. Init => TimbInv
  BY DEF Init, FormInit, TimbInv, TimbresExact, Range
<1>2. TimbInv /\ [Next]_toolvars => TimbInv'
  BY NextTimbres
<1>3. TimbInv => TimbresExact
  BY DEF TimbInv
<1> QED BY <1>1, <1>2, <1>3, PTL DEF Spec

----------------------------------------------------------------------------
(* MIDIECHO: the bytes on their way from the instrument to the messages.   *)

EchoStep ==
  MIDIECHO_isr \/ exclusive_byte \/ status_byte \/ data_byte \/ message

LEMMA EchoSteps ==
  ASSUME [Next]_toolvars
  PROVE  /\ tool' = tool
         /\ \/ tool = "MIDIECHO" /\ EchoStep
            \/ tool # "MIDIECHO" /\ UNCHANGED echovars
            \/ UNCHANGED <<cable, echovars>>
<1>1. tool' = tool
  BY DEF Next, toolvars, Recording, Filtering, Echoing, Compiling
<1>2. CASE UNCHANGED toolvars
  BY <1>2 DEF toolvars
<1>3. CASE Next /\ tool = "MIDIECHO"
  BY <1>3 DEF Next, Recording, Filtering, Echoing, Compiling, EchoStep
<1>4. CASE Next /\ tool # "MIDIECHO"
  BY <1>4 DEF Next, Recording, Filtering, Echoing, Compiling
<1> QED BY <1>1, <1>2, <1>3, <1>4

(* What waits in the ring are bytes, and so is what the instrument sends.  *)
Waiting(i) == \/ tail <= i /\ i < head
              \/ head < tail /\ (tail <= i \/ i < head)
RingInv ==
  /\ head \in 0 .. QLEN - 1 /\ tail \in 0 .. QLEN - 1
  /\ DOMAIN queue = 0 .. QLEN - 1
  /\ queue = [i \in 0 .. QLEN - 1 |-> queue[i]]
WireInv ==
  /\ sending \in Seq(Byte) /\ running \in 0 .. 239
  /\ RingInv
  /\ \A i \in 0 .. QLEN - 1 : Waiting(i) => queue[i] \in Byte

(* One turn around the ring. *)
LEMMA Wrapped ==
  ASSUME NEW M \in Nat \ {0, 1}, NEW i \in 0 .. M - 1
  PROVE  (i + 1) % M = IF i = M - 1 THEN 0 ELSE i + 1
  BY Z3

LEMMA SentBytes ==
  ASSUME NEW M, \A m \in M : Complete(m), sending \in Seq(Byte), running \in 0 .. 239,
         NEW s \in NextBytes(M)
  PROVE  /\ s[1] \in Seq(Byte) /\ s[1] # <<>>
         /\ s[2] # <<>> => s[2] \in M
<1>1. CASE sending # <<>>
  BY <1>1 DEF NextBytes
<1>2. CASE sending = <<>> /\ \E m \in M : s = <<m, m>>
  BY <1>2 DEF Complete
<1>3. CASE sending = <<>> /\ \E m \in M : running # 0 /\ m[1] = running /\ s = <<Tail(m), m>>
  <2>1. PICK m \in M : running # 0 /\ m[1] = running /\ s = <<Tail(m), m>>
    BY <1>3
  <2>2. m \in Seq(Byte) /\ m # <<>> /\ (m[1] < 240 => Len(m) > 1)
    <3>1. Complete(m)
      BY <2>1
    <3>2. m \in Seq(Byte) /\ m # <<>> /\ (m[1] < 240 => Len(m) = IF m[1] \in 192 .. 223 THEN 2 ELSE 3)
      BY <3>1 DEF Complete
    <3> QED BY <3>2
  <2>3. m[1] < 240
    <3>1. running \in 0 .. 239
      OBVIOUS
    <3>2. running < 240
      BY <3>1
    <3> QED BY <2>1, <3>2
  <2>4. Tail(m) \in Seq(Byte) /\ Len(Tail(m)) = Len(m) - 1
    BY <2>2
  <2>5. Tail(m) # <<>>
    <3>1. Len(m) > 1
      BY <2>2, <2>3
    <3>2. Len(m) \in Nat
      BY <2>2
    <3>3. Len(Tail(m)) # 0
      BY <2>4, <3>1, <3>2, SMTT(30)
    <3>4. Len(<<>>) = 0
      OBVIOUS
    <3> QED BY <3>3, <3>4
  <2> QED BY <2>1, <2>4, <2>5
<1> QED BY <1>1, <1>2, <1>3 DEF NextBytes

LEMMA QueueTakes ==
  ASSUME WireInv, NEW b \in Byte, write_queue(b)
  PROVE  /\ head' \in 0 .. QLEN - 1 /\ tail' \in 0 .. QLEN - 1
         /\ DOMAIN queue' = 0 .. QLEN - 1
         /\ queue' = [i \in 0 .. QLEN - 1 |-> queue'[i]]
         /\ \A i \in 0 .. QLEN - 1 : Waiting(i)' => queue'[i] \in Byte
<1>1. /\ QLEN \in Nat \ {0, 1} /\ head \in 0 .. QLEN - 1 /\ tail \in 0 .. QLEN - 1
      /\ queue = [i \in 0 .. QLEN - 1 |-> queue[i]] /\ DOMAIN queue = 0 .. QLEN - 1
      /\ \A i \in 0 .. QLEN - 1 : Waiting(i) => queue[i] \in Byte
  BY RingAssumption DEF WireInv, RingInv
<1>2. head' = (IF head = QLEN - 1 THEN 0 ELSE head + 1) /\ tail' = tail
      /\ queue' = [queue EXCEPT ![head] = b]
  BY <1>1, Wrapped DEF write_queue
<1>3. DOMAIN queue' = 0 .. QLEN - 1 /\ queue' = [i \in 0 .. QLEN - 1 |-> queue'[i]]
      /\ \A i \in 0 .. QLEN - 1 : queue'[i] = IF i = head THEN b ELSE queue[i]
  BY <1>1, <1>2
<1>4. ASSUME NEW i \in 0 .. QLEN - 1, Waiting(i)', i # head PROVE Waiting(i)
  BY <1>1, <1>2, <1>4 DEF Waiting
<1>5. head' \in 0 .. QLEN - 1 /\ tail' \in 0 .. QLEN - 1
  BY <1>1, <1>2
<1> QED BY <1>1, <1>3, <1>4, <1>5

(* A byte is read. *)
LEMMA QueueGives ==
  ASSUME WireInv, NextByte
  PROVE  /\ watch_queue \in Byte
         /\ head' = head /\ tail' \in 0 .. QLEN - 1 /\ queue' = queue
         /\ \A i \in 0 .. QLEN - 1 : Waiting(i)' => Waiting(i)
<1>1. /\ QLEN \in Nat \ {0, 1} /\ head \in 0 .. QLEN - 1 /\ tail \in 0 .. QLEN - 1
      /\ \A i \in 0 .. QLEN - 1 : Waiting(i) => queue[i] \in Byte
  BY RingAssumption DEF WireInv, RingInv
<1>2. tail' = (IF tail = QLEN - 1 THEN 0 ELSE tail + 1) /\ head' = head /\ queue' = queue
      /\ head # tail
  BY <1>1, Wrapped DEF NextByte, read_queue, check_queue
<1>3. Waiting(tail)
  BY <1>1, <1>2 DEF Waiting
<1>4. ASSUME NEW i \in 0 .. QLEN - 1, Waiting(i)' PROVE Waiting(i)
  BY <1>1, <1>2, <1>4 DEF Waiting
<1>5. watch_queue \in Byte
  BY <1>1, <1>3 DEF watch_queue
<1> QED BY <1>1, <1>2, <1>4, <1>5

LEMMA EchoKeepsWire ==
  ASSUME WireInv, EchoStep
  PROVE  WireInv'
<1>1. CASE MIDIECHO_isr
  <2>1. PICK s \in NextBytes(EchoMessages) :
          /\ sending' = Tail(s[1]) /\ write_queue(s[1][1])
          /\ running' = IF s[2] = <<>> THEN running
                        ELSE IF s[2][1] < 240 THEN s[2][1]
                        ELSE IF s[2][1] >= 248 THEN running ELSE 0
    BY <1>1 DEF MIDIECHO_isr
  <2>2. s[1] \in Seq(Byte) /\ s[1] # <<>> /\ (s[2] # <<>> => s[2] \in EchoMessages)
    BY InstrumentAssumption, SentBytes DEF WireInv
  <2>3. s[1][1] \in Byte /\ sending' \in Seq(Byte)
    BY <2>1, <2>2
  <2>4. running' \in 0 .. 239
    <3>1. CASE s[2] = <<>>
      BY <2>1, <3>1 DEF WireInv, RingInv
    <3>2. CASE s[2] # <<>>
      <4>1. s[2] \in Seq(Byte)
        BY <2>2, <3>2, EchoAssumption
      <4>2. s[2][1] \in Byte
        BY <3>2, <4>1
      <4>3. running \in 0 .. 239
        BY DEF WireInv, RingInv
      <4> DEFINE x == s[2][1]
                 r == running'
      <4>4. x \in 0 .. 255 /\ r = IF x < 240 THEN x ELSE IF x >= 248 THEN running ELSE 0
        BY <2>1, <3>2, <4>2 DEF Byte
      <4> HIDE DEF x, r
      <4>5. r \in 0 .. 239
        BY <4>3, <4>4
      <4> QED BY <4>5 DEF r
    <3> QED BY <3>1, <3>2
  <2> QED BY <2>1, <2>3, <2>4, QueueTakes DEF WireInv, RingInv
<1>2. CASE NextByte /\ UNCHANGED device
  <2>1. /\ head' = head /\ tail' \in 0 .. QLEN - 1 /\ queue' = queue
        /\ \A i \in 0 .. QLEN - 1 : Waiting(i)' => Waiting(i)
    BY <1>2, QueueGives
  <2> QED BY <1>2, <2>1 DEF WireInv, RingInv, device
<1> QED BY <1>1, <1>2 DEF EchoStep, exclusive_byte, status_byte, data_byte, message

(* The message being put together, for a part of the ten. *)
ParserInv ==
  /\ cv_status \in Byte /\ cv_status % 16 \in Parts
  /\ cv_bytecnt \in {0, 1}
  /\ cv_message \in [1 .. 2 -> Nat] /\ cv_message[1] \in 0 .. 127

LEMMA ScaledNat ==
  ASSUME NEW d \in Nat, NEW v \in Nat
  PROVE  (d * v) \div 100 \in Nat
<1> DEFINE p == d * v
<1>1. p \in Nat
  OBVIOUS
<1> HIDE DEF p
<1>2. p \div 100 \in Nat
  BY <1>1
<1> QED BY <1>2 DEF p

(* What a message is handed on as: its part, its data, and the second byte *)
(* as the driver gets it.                                                  *)
Handed(c, d1, d2, v) ==
  /\ v = Value(d1, d2)
  /\ intercept_timbre_request(c, d1, d2)
  /\ count_partial_usage(c, v) /\ Counted(c, v) /\ Driven(c, d1, v)

LEMMA MessageHanded ==
  ASSUME ParserInv, WireInv, message
  PROVE  /\ \E c \in Parts, d1 \in 0 .. 127, d2 \in Nat, v \in Nat : Handed(c, d1, d2, v)
         /\ ParserInv'
<1> DEFINE c  == cv_status % 16
           d1 == IF cv_bytecnt = 0 THEN watch_queue ELSE cv_message[1]
           d2 == IF cv_bytecnt = 1 THEN watch_queue ELSE cv_message[2]
           v  == Value(d1, d2)
<1>1. watch_queue \in 0 .. 127
  <2>1. watch_queue \in Byte /\ watch_queue < 128
    BY QueueGives DEF message
  <2> QED BY <2>1 DEF Byte
<1>2. c \in Parts /\ d1 \in 0 .. 127 /\ d2 \in Nat
  BY <1>1 DEF ParserInv
<1>3. Handed(c, d1, d2, v) /\ cv_message' = <<d1, v>> /\ cv_bytecnt' = 0 /\ cv_status' = cv_status
  BY DEF message, Handed
<1> HIDE DEF c, d1, d2
<1>4. v \in Nat
  <2>1. (d2 * driver_vol) \div 100 \in Nat
    <3>1. driver_vol \in Nat
      <4>1. driver_vol \in 0 .. 100
        BY EchoAssumption
      <4> QED BY <4>1
    <3> QED BY <1>2, <3>1, ScaledNat
  <2> QED BY <1>2, <2>1 DEF Value
<1> HIDE DEF v
<1>5. cv_message' \in [1 .. 2 -> Nat] /\ cv_message'[1] \in 0 .. 127
  <2>1. <<d1, v>> \in [1 .. 2 -> Nat] /\ <<d1, v>>[1] = d1
    BY <1>2, <1>4
  <2> QED BY <1>2, <1>3, <2>1
<1>6. ParserInv'
  BY <1>3, <1>5 DEF ParserInv
<1> QED BY <1>2, <1>3, <1>4, <1>6

LEMMA StatusParts ==
  ASSUME NEW b \in Byte, b >= 128
  PROVE  LET s == Part(b) + (IF b >= 240 THEN 0 ELSE (b \div 16) * 16)
         IN s \in Byte /\ s % 16 \in Parts
<1> DEFINE p == Part(b)
           q == IF b >= 240 THEN 0 ELSE b \div 16
<1>1. b % 16 \in 0 .. 15 /\ b \div 16 \in 0 .. 15
  BY DEF Byte
<1>2. p \in 0 .. 9 /\ q \in 0 .. 15
  BY <1>1 DEF Part
<1>3. Part(b) + (IF b >= 240 THEN 0 ELSE (b \div 16) * 16) = p + q * 16
  BY <1>1, <1>2
<1> HIDE DEF p, q
<1>4. p + q * 16 \in 0 .. 255 /\ (p + q * 16) % 16 = p
  BY <1>2
<1> QED BY <1>2, <1>3, <1>4 DEF Byte, Parts

LEMMA EchoKeepsParser ==
  ASSUME ParserInv, WireInv, EchoStep
  PROVE  ParserInv'
<1>1. CASE MIDIECHO_isr \/ exclusive_byte
  BY <1>1 DEF MIDIECHO_isr, exclusive_byte, parser, ParserInv
<1>2. CASE status_byte
  <2>1. watch_queue \in Byte /\ watch_queue >= 128
    BY <1>2, QueueGives DEF status_byte
  <2>2. cv_message' = cv_message
    BY <1>2 DEF status_byte
  <2>3. CASE watch_queue < 248
    <3>1. cv_bytecnt' = 0
          /\ cv_status' = Part(watch_queue)
                + (IF watch_queue >= 240 THEN 0 ELSE (watch_queue \div 16) * 16)
      BY <1>2, <2>3 DEF status_byte
    <3>2. cv_status' \in Byte /\ cv_status' % 16 \in Parts
      BY <2>1, <3>1, StatusParts
    <3> QED BY <2>2, <3>1, <3>2 DEF ParserInv
  <2>4. CASE ~ (watch_queue < 248)
    BY <1>2, <2>2, <2>4 DEF status_byte, ParserInv
  <2> QED BY <2>3, <2>4
<1>3. CASE data_byte
  <2>1. watch_queue \in 0 .. 127
    <3>1. watch_queue \in Byte /\ watch_queue < 128
      BY <1>3, QueueGives DEF data_byte
    <3> QED BY <3>1 DEF Byte
  <2>2. cv_status' = cv_status
    BY <1>3 DEF data_byte
  <2>3. CASE UNCHANGED <<cv_bytecnt, cv_message>>
    BY <2>2, <2>3 DEF ParserInv
  <2>4. CASE /\ cv_bytecnt + 1 < Needed(cv_status) /\ cv_bytecnt' = cv_bytecnt + 1
             /\ cv_message' = [cv_message EXCEPT ![cv_bytecnt + 1] = watch_queue]
    <3>1. cv_bytecnt = 0 /\ cv_bytecnt' = 1
      BY <2>4 DEF ParserInv, Needed
    <3>2. cv_message' \in [1 .. 2 -> Nat] /\ cv_message'[1] \in 0 .. 127
      BY <2>1, <2>4, <3>1 DEF ParserInv
    <3> QED BY <2>2, <3>1, <3>2 DEF ParserInv
  <2> QED BY <1>3, <2>3, <2>4 DEF data_byte
<1>4. CASE message
  BY <1>4, MessageHanded
<1> QED BY <1>1, <1>2, <1>3, <1>4 DEF EchoStep

----------------------------------------------------------------------------
(* MIDIECHO: the timbres.                                                  *)

Known(t, all) == t[2] # -1 /\ t \in GTL => t \in all
PatchInv ==
  /\ DOMAIN timbre_bank = Parts /\ DOMAIN driver_bank = Parts /\ DOMAIN driver_timbre = Parts
  /\ \A c \in Parts : RBS(c) = 0 => timbre_bank[c] = driver_bank[c]
  /\ \A c \in Parts : Known(driver_timbre[c], installed \cup discarded)
  /\ ~ silent

(* A timbre that was ever set up is in the cache or was given up.          *)
LEMMA SetupKnows ==
  ASSUME NEW b, NEW n, setup_timbre(b, n)
  PROVE  /\ installed \cup discarded \subseteq installed' \cup discarded'
         /\ n # -1 /\ <<b, n>> \in GTL => <<b, n>> \in installed' \cup discarded'
<1>1. CASE n = -1 \/ <<b, n>> \in installed \/ <<b, n>> \notin GTL
  <2>1. installed' = installed /\ discarded' = discarded
    BY <1>1 DEF setup_timbre
  <2> QED BY <1>1, <2>1
<1>2. CASE ~ (n = -1 \/ <<b, n>> \in installed \/ <<b, n>> \notin GTL)
  <2>1. PICK gone \in SUBSET installed :
          /\ installed' = (installed \ gone) \cup {<<b, n>>}
          /\ discarded' = (discarded \cup gone) \ {<<b, n>>}
    BY <1>2 DEF setup_timbre
  <2> QED BY <2>1
<1> QED BY <1>1, <1>2

LEMMA HandedKeepsPatches ==
  ASSUME PatchInv, NEW c \in Parts, NEW d1 \in 0 .. 127, NEW d2 \in Nat, NEW v \in Nat,
         Handed(c, d1, d2, v)
  PROVE  PatchInv'
<1> DEFINE isProgram == Kind(cv_status) = 12
           isRhythm  == RhythmNote(c, d1, d2)
           isBank    == Kind(cv_status) = 11 /\ d1 = 114
<1>1. (isBank => v = d2) /\ (Kind(cv_status) = 9 => v = d2)
  BY DEF Handed, Value
<1>2. RhythmNote(c, d1, v) <=> isRhythm
  BY <1>1 DEF RhythmNote
<1>3. /\ driver_bank' = IF isBank THEN [driver_bank EXCEPT ![c] = d2] ELSE driver_bank
      /\ driver_timbre' = [driver_timbre EXCEPT ![c] =
           IF isProgram /\ RBS(c) = 0 THEN <<driver_bank[c], d1>>
           ELSE IF isRhythm THEN <<RBS(c), d1>> ELSE @]
      /\ silent' = (silent \/ (IsOn(v) /\ driver_timbre'[c][2] # -1
                      /\ driver_timbre'[c] \in GTL \ (installed' \cup discarded')))
  BY <1>1, <1>2 DEF Handed, Driven
<1>4. ~ (isProgram /\ isRhythm) /\ ~ (isProgram /\ isBank) /\ ~ (isRhythm /\ isBank)
  BY DEF RhythmNote
<1>5. isRhythm => RBS(c) # 0
  BY DEF RhythmNote
<1>6. \/ /\ isProgram
         /\ timbre_bank' = [timbre_bank EXCEPT ![c] = timbre_bank[c]]
         /\ setup_timbre(timbre_bank[c], d1)
      \/ /\ isRhythm
         /\ timbre_bank' = [timbre_bank EXCEPT ![c] = RBS(c)]
         /\ setup_timbre(RBS(c), d1)
      \/ /\ isBank
         /\ timbre_bank' = [timbre_bank EXCEPT ![c] = d2]
         /\ UNCHANGED <<installed, discarded>>
      \/ /\ ~ isProgram /\ ~ isRhythm /\ ~ isBank
         /\ UNCHANGED <<timbre_bank, installed, discarded>>
  <2>1. intercept_timbre_request(c, d1, d2)
    BY DEF Handed
  <2> QED BY <1>4, <2>1 DEF intercept_timbre_request
<1> HIDE DEF isProgram, isRhythm, isBank
<1>7. /\ DOMAIN timbre_bank = Parts /\ DOMAIN driver_bank = Parts /\ DOMAIN driver_timbre = Parts
      /\ \A p \in Parts : RBS(p) = 0 => timbre_bank[p] = driver_bank[p]
      /\ \A p \in Parts : Known(driver_timbre[p], installed \cup discarded)
      /\ ~ silent
  BY DEF PatchInv
<1>8. installed \cup discarded \subseteq installed' \cup discarded'
  <2>1. CASE \E b, n : setup_timbre(b, n)
    BY <2>1, SetupKnows
  <2>2. CASE UNCHANGED <<installed, discarded>>
    BY <2>2
  <2> QED BY <1>6, <2>1, <2>2
<1>9. /\ DOMAIN timbre_bank' = Parts /\ DOMAIN driver_bank' = Parts
      /\ DOMAIN driver_timbre' = Parts
  BY <1>3, <1>6, <1>7
<1>10. ASSUME NEW p \in Parts, RBS(p) = 0 PROVE timbre_bank'[p] = driver_bank'[p]
  <2>1. timbre_bank[p] = driver_bank[p]
    BY <1>7, <1>10
  <2>2. CASE isBank
    BY <1>3, <1>4, <1>6, <1>7, <2>1, <2>2
  <2>3. CASE ~ isBank
    <3>1. driver_bank' = driver_bank
      BY <1>3, <2>3
    <3>2. CASE p = c
      BY <1>5, <1>6, <1>7, <1>10, <2>1, <2>3, <3>1, <3>2
    <3>3. CASE p # c
      BY <1>6, <1>7, <2>1, <2>3, <3>1, <3>3
    <3> QED BY <3>2, <3>3
  <2> QED BY <2>2, <2>3
<1>11. Known(driver_timbre'[c], installed' \cup discarded')
  <2>1. CASE isProgram /\ RBS(c) = 0
    <3>1. driver_timbre'[c] = <<timbre_bank[c], d1>> /\ setup_timbre(timbre_bank[c], d1)
      BY <1>3, <1>4, <1>6, <1>7, <2>1
    <3>2. Known(<<timbre_bank[c], d1>>, installed' \cup discarded')
      BY <3>1, SetupKnows DEF Known
    <3> QED BY <3>1, <3>2 DEF Known
  <2>2. CASE isRhythm
    <3>1. driver_timbre'[c] = <<RBS(c), d1>> /\ setup_timbre(RBS(c), d1)
      BY <1>3, <1>4, <1>6, <1>7, <2>2
    <3>2. Known(<<RBS(c), d1>>, installed' \cup discarded')
      BY <3>1, SetupKnows DEF Known
    <3> QED BY <3>1, <3>2 DEF Known
  <2>3. CASE ~ (isProgram /\ RBS(c) = 0) /\ ~ isRhythm
    <3>1. driver_timbre'[c] = driver_timbre[c]
      BY <1>3, <1>7, <2>3
    <3>2. Known(driver_timbre[c], installed' \cup discarded')
      BY <1>7, <1>8 DEF Known
    <3> QED BY <3>1, <3>2 DEF Known
  <2> QED BY <2>1, <2>2, <2>3
<1>12. ASSUME NEW p \in Parts PROVE Known(driver_timbre'[p], installed' \cup discarded')
  <2>1. CASE p = c
    BY <1>11, <2>1 DEF Known
  <2>2. CASE p # c
    <3>1. driver_timbre'[p] = driver_timbre[p]
      BY <1>3, <1>7, <2>2
    <3> QED BY <1>7, <1>8, <3>1 DEF Known
  <2> QED BY <2>1, <2>2
<1>13. ~ silent'
  <2>1. driver_timbre'[c][2] # -1 /\ driver_timbre'[c] \in GTL
          => driver_timbre'[c] \in installed' \cup discarded'
    BY <1>11 DEF Known
  <2> QED BY <1>3, <1>7, <2>1
<1> QED BY <1>9, <1>10, <1>12, <1>13 DEF PatchInv

----------------------------------------------------------------------------
(* MIDIECHO: the partials.                                                 *)

MeterInv ==
  /\ sounding \in [Parts -> Nat] /\ chan_partials \in [Parts -> Nat]
  /\ partials \in Int /\ OPL_voices \in Int
  /\ PartialsExact

Used(s, p) == [c \in Parts |-> s[c] * p[c]]
Fours(s, p) == [c \in Parts |-> IF p[c] = 4 THEN s[c] ELSE 0]

(* A sum whose part c grows by d. *)
LEMMA TotalMoves ==
  ASSUME NEW f \in [Parts -> Int], NEW g \in [Parts -> Int], NEW c \in Parts, NEW d \in Int,
         g[c] = f[c] + d, \A p \in Parts : p # c => g[p] = f[p]
  PROVE  Total(g) = Total(f) + d
<1> DEFINE D(p) == IF p = c THEN d ELSE 0
<1>1. \A p \in 0 .. 9 : f[p] \in Int /\ D(p) \in Int /\ g[p] = f[p] + D(p)
  BY DEF Parts
<1>2. D(0) + D(1) + D(2) + D(3) + D(4) + D(5) + D(6) + D(7) + D(8) + D(9) = d
  BY DEF Parts
<1> HIDE DEF D
<1>3. /\ g[0] = f[0] + D(0) /\ g[1] = f[1] + D(1) /\ g[2] = f[2] + D(2) /\ g[3] = f[3] + D(3)
      /\ g[4] = f[4] + D(4) /\ g[5] = f[5] + D(5) /\ g[6] = f[6] + D(6) /\ g[7] = f[7] + D(7)
      /\ g[8] = f[8] + D(8) /\ g[9] = f[9] + D(9)
  BY <1>1
<1>4. /\ f[0] \in Int /\ f[1] \in Int /\ f[2] \in Int /\ f[3] \in Int /\ f[4] \in Int
      /\ f[5] \in Int /\ f[6] \in Int /\ f[7] \in Int /\ f[8] \in Int /\ f[9] \in Int
      /\ D(0) \in Int /\ D(1) \in Int /\ D(2) \in Int /\ D(3) \in Int /\ D(4) \in Int
      /\ D(5) \in Int /\ D(6) \in Int /\ D(7) \in Int /\ D(8) \in Int /\ D(9) \in Int
  BY <1>1
<1> DEFINE fl == f[0] + f[1] + f[2] + f[3] + f[4]  fh == f[5] + f[6] + f[7] + f[8] + f[9]
           gl == g[0] + g[1] + g[2] + g[3] + g[4]  gh == g[5] + g[6] + g[7] + g[8] + g[9]
           dl == D(0) + D(1) + D(2) + D(3) + D(4)  dh == D(5) + D(6) + D(7) + D(8) + D(9)
<1>5. fl \in Int /\ dl \in Int /\ gl = fl + dl
  BY <1>3, <1>4
<1>6. fh \in Int /\ dh \in Int /\ gh = fh + dh
  BY <1>3, <1>4
<1>7. dl + dh = d
  BY <1>2, <1>4
<1>8. Total(f) = fl + fh
  BY <1>4 DEF Total
<1>9. Total(g) = gl + gh
  <2>1. \A p \in 0 .. 9 : g[p] \in Int
    BY <1>1
  <2> QED BY <2>1 DEF Total
<1> HIDE DEF fl, fh, gl, gh, dl, dh
<1> QED BY <1>5, <1>6, <1>7, <1>8, <1>9

LEMMA TotalNat ==
  ASSUME NEW f \in [Parts -> Nat]
  PROVE  Total(f) \in Nat
<1>1. \A p \in 0 .. 9 : f[p] \in Nat
  BY DEF Parts
<1> QED BY <1>1 DEF Total

LEMMA PartialsTyped ==
  ASSUME NEW c \in Parts, NEW b, NEW n \in -1 .. 127, NEW p \in PartialsOf(c, b, n)
  PROVE  p \in Nat
<1>1. base[c] \in Nat
  BY EchoAssumption
<1>2. <<b, n>> \in GTL => Partials[<<b, n>>] \in Nat
  BY EchoAssumption
<1>3. mode = "dr" /\ b = 0 /\ n # -1 => Partials[<<b, n>>] \in Nat
  <2>1. n # -1 => n \in 0 .. 127
    OBVIOUS
  <2>2. mode = "dr" => \A x \in 0 .. 127 : Partials[<<0, x>>] \in Nat
    BY EchoAssumption
  <2> QED BY <2>1, <2>2
<1> QED BY <1>1, <1>2, <1>3 DEF PartialsOf

(* The notes of a part, and the partials they use.                         *)
LEMMA HandedKeepsMeter ==
  ASSUME MeterInv, NEW c \in Parts, NEW d1 \in 0 .. 127, NEW d2 \in Nat, NEW v \in Nat,
         Handed(c, d1, d2, v)
  PROVE  MeterInv'
<1> DEFINE sign == IF IsOn(v) THEN 1 ELSE IF IsOff(v) THEN -1 ELSE 0
           q == chan_partials'[c]
<1>1. /\ sounding \in [Parts -> Nat] /\ chan_partials \in [Parts -> Nat]
      /\ partials \in Int /\ OPL_voices \in Int
  BY DEF MeterInv
<1>2. q \in Nat /\ chan_partials' = [chan_partials EXCEPT ![c] = q]
  <2>1. intercept_timbre_request(c, d1, d2)
    BY DEF Handed
  <2>2. CASE UNCHANGED chan_partials
    BY <1>1, <2>2
  <2>3. CASE \E b : \E p \in PartialsOf(c, b, d1) : chan_partials' = [chan_partials EXCEPT ![c] = p]
    <3>1. PICK b : \E p \in PartialsOf(c, b, d1) : chan_partials' = [chan_partials EXCEPT ![c] = p]
      BY <2>3
    <3>2. PICK p \in PartialsOf(c, b, d1) : chan_partials' = [chan_partials EXCEPT ![c] = p]
      BY <3>1
    <3>3. p \in Nat
      BY PartialsTyped
    <3> QED BY <1>1, <3>2, <3>3
  <2> QED BY <2>1, <2>2, <2>3 DEF intercept_timbre_request
<1>3. chan_partials' \in [Parts -> Nat] /\ \A p \in Parts : p # c => chan_partials'[p] = chan_partials[p]
  BY <1>1, <1>2
<1>4. /\ sounding' = [sounding EXCEPT ![c] = IF IsOn(v) THEN @ + 1
                        ELSE IF IsOff(v) /\ @ > 0 THEN @ - 1 ELSE @]
      /\ uneven' = (uneven \/ (sounding[c] > 0 /\ q # chan_partials[c])
                      \/ (IsOff(v) /\ sounding[c] = 0))
  BY DEF Handed, Counted
<1>5. sounding' \in [Parts -> Nat] /\ \A p \in Parts : p # c => sounding'[p] = sounding[p]
  BY <1>1, <1>4
<1>6. /\ partials' = IF partials + sign * q < 0 THEN 0 ELSE partials + sign * q
      /\ OPL_voices' = IF partials + sign * q < 0 THEN 0
                       ELSE OPL_voices + (IF q = 4 THEN sign ELSE 0)
  BY DEF Handed, count_partial_usage
<1>7. sign \in {-1, 0, 1} /\ sign * q \in Int
  BY <1>2
<1> HIDE DEF q
<1>8. partials' \in Int /\ OPL_voices' \in Int
  <2>1. partials + sign * q \in Int /\ OPL_voices + (IF q = 4 THEN sign ELSE 0) \in Int
    BY <1>1, <1>7
  <2> QED BY <1>6, <2>1
<1>9. ASSUME ~ uneven' PROVE /\ partials' = Total(Used(sounding', chan_partials'))
                             /\ OPL_voices' = Total(Fours(sounding', chan_partials'))
  <2>1. ~ uneven /\ (sounding[c] = 0 \/ q = chan_partials[c]) /\ (IsOff(v) => sounding[c] > 0)
    <3> DEFINE stale == sounding[c] > 0 /\ q # chan_partials[c]
               alone == IsOff(v) /\ sounding[c] = 0
    <3>1. uneven' = (uneven \/ stale \/ alone)
      BY <1>4
    <3> HIDE DEF stale, alone
    <3>2. ~ uneven /\ ~ stale /\ ~ alone
      BY <1>9, <3>1
    <3>3. sounding[c] \in Nat
      BY <1>1
    <3> QED BY <3>2, <3>3 DEF stale, alone
  <2>2. sounding'[c] = sounding[c] + sign
    BY <1>1, <1>4, <2>1
  <2> HIDE DEF sign
  <2>3. sounding'[c] * q = sounding[c] * chan_partials[c] + sign * q
    <3> DEFINE n == sounding[c]
    <3>1. n \in Nat /\ chan_partials[c] \in Nat /\ (n = 0 \/ q = chan_partials[c])
          /\ sounding'[c] = n + sign
      BY <1>1, <2>1, <2>2
    <3> HIDE DEF n
    <3>2. (n + sign) * q = n * q + sign * q
      BY <1>2, <1>7, <3>1
    <3>3. n * q = n * chan_partials[c]
      BY <1>2, <3>1
    <3> QED BY <3>1, <3>2, <3>3 DEF n
  <2> DEFINE U == Used(sounding, chan_partials)
             U1 == Used(sounding', chan_partials')
             F == Fours(sounding, chan_partials)
             F1 == Fours(sounding', chan_partials')
  <2>4. chan_partials'[c] = q
    BY DEF q
  <2>5. U \in [Parts -> Nat] /\ U1 \in [Parts -> Nat]
    <3>1. ASSUME NEW s \in [Parts -> Nat], NEW p \in [Parts -> Nat]
          PROVE  Used(s, p) \in [Parts -> Nat]
      <4>1. \A x \in Parts : s[x] * p[x] \in Nat
        OBVIOUS
      <4> QED BY <4>1 DEF Used
    <3> QED BY <1>1, <1>3, <1>5, <3>1
  <2>6. F \in [Parts -> Nat] /\ F1 \in [Parts -> Nat]
    BY <1>1, <1>3, <1>5 DEF Fours
  <2>7. U1[c] = U[c] + sign * q /\ \A p \in Parts : p # c => U1[p] = U[p]
    BY <1>3, <1>5, <2>3, <2>4 DEF Used
  <2>8. F1[c] = F[c] + (IF q = 4 THEN sign ELSE 0) /\ \A p \in Parts : p # c => F1[p] = F[p]
    <3>1. F1[c] = IF q = 4 THEN sounding'[c] ELSE 0
      BY <2>4 DEF Fours
    <3>2. F[c] = IF chan_partials[c] = 4 THEN sounding[c] ELSE 0
      BY DEF Fours
    <3>3. F1[c] = F[c] + (IF q = 4 THEN sign ELSE 0)
      BY <1>1, <1>7, <2>1, <2>2, <3>1, <3>2
    <3> QED BY <1>3, <1>5, <3>3 DEF Fours
  <2>9. partials = Total(U) /\ OPL_voices = Total(F)
    BY <2>1 DEF MeterInv, PartialsExact, Used, Fours
  <2> HIDE DEF U, U1, F, F1
  <2>10. Total(U1) = partials + sign * q /\ Total(U1) \in Nat
    <3>1. U \in [Parts -> Int] /\ U1 \in [Parts -> Int]
      BY <2>5
    <3>2. Total(U1) = Total(U) + sign * q
      BY <1>7, <2>7, <3>1, TotalMoves
    <3> QED BY <2>5, <2>9, <3>2, TotalNat
  <2>11. Total(F1) = OPL_voices + (IF q = 4 THEN sign ELSE 0)
    <3>1. F \in [Parts -> Int] /\ F1 \in [Parts -> Int]
      BY <2>6
    <3> DEFINE d == IF q = 4 THEN sign ELSE 0
    <3>2. d \in Int /\ F1[c] = F[c] + d
      BY <1>7, <2>8
    <3> HIDE DEF d
    <3>3. Total(F1) = Total(F) + d
      BY <2>8, <3>1, <3>2, TotalMoves
    <3> QED BY <2>9, <3>3 DEF d
  <2>12. ~ (partials + sign * q < 0)
    BY <2>10
  <2> QED BY <1>6, <2>10, <2>11, <2>12 DEF U1, F1
<1> QED BY <1>3, <1>5, <1>8, <1>9 DEF MeterInv, PartialsExact, Used, Fours

EchoInv ==
  /\ tool = "MIDIECHO" => WireInv
  /\ ParserInv /\ PatchInv /\ MeterInv

LEMMA EchoInitWire ==
  ASSUME EchoInit, EchoPlugged
  PROVE  WireInv
<1>1. QLEN \in Nat \ {0, 1}
  BY RingAssumption
<1>2. /\ queue = [i \in 0 .. QLEN - 1 |-> Unwritten] /\ head = 0 /\ tail = 0
      /\ sending \in {<<>>} \cup {Tail(m) : m \in EchoMessages} /\ running = 0
  BY DEF EchoInit, EchoPlugged, Plugged, init_queue
<1>3. sending \in Seq(Byte)
  <2>1. \A m \in EchoMessages : m \in Seq(Byte) /\ m # <<>>
    BY EchoAssumption
  <2>2. \A m \in EchoMessages : Tail(m) \in Seq(Byte)
    BY <2>1
  <2>3. <<>> \in Seq(Byte)
    OBVIOUS
  <2> QED BY <1>2, <2>2, <2>3
<1>4. \A i \in 0 .. QLEN - 1 : ~ Waiting(i)
  BY <1>2 DEF Waiting
<1> QED BY <1>1, <1>2, <1>3, <1>4 DEF WireInv, RingInv

LEMMA EchoInitRest ==
  ASSUME EchoInit
  PROVE  ParserInv /\ PatchInv /\ MeterInv
<1>1. ParserInv
  <2>1. cv_status = 0 /\ cv_bytecnt = 0 /\ cv_message = <<0, 0>>
    BY DEF EchoInit
  <2>2. <<0, 0>> \in [1 .. 2 -> Nat] /\ 0 % 16 = 0
    OBVIOUS
  <2> QED BY <2>1, <2>2 DEF ParserInv, Byte, Parts
<1>2. PatchInv
  <2>1. /\ timbre_bank = [c \in Parts |-> 0] /\ driver_bank = [c \in Parts |-> 0]
        /\ driver_timbre = [c \in Parts |-> <<0, init_prg[c]>>] /\ ~ silent
        /\ installed = {<<0, init_prg[c]>> : c \in {p \in Parts : init_prg[p] # -1}}
    BY DEF EchoInit
  <2>2. ASSUME NEW c \in Parts PROVE Known(driver_timbre[c], installed \cup discarded)
    BY <2>1 DEF Known
  <2> QED BY <2>1, <2>2 DEF PatchInv
<1>3. MeterInv
  <2>1. /\ chan_partials = [c \in Parts |-> CHOOSE p \in PartialsOf(c, 0, init_prg[c]) : TRUE]
        /\ sounding = [c \in Parts |-> 0] /\ partials = 0 /\ OPL_voices = 0
    BY DEF EchoInit
  <2>2. ASSUME NEW c \in Parts PROVE chan_partials[c] \in Nat
    <3>1. init_prg[c] \in -1 .. 127
      BY EchoAssumption
    <3>2. PartialsOf(c, 0, init_prg[c]) # {}
      BY DEF PartialsOf
    <3>3. chan_partials[c] \in PartialsOf(c, 0, init_prg[c])
      BY <2>1, <3>2
    <3> QED BY <3>1, <3>3, PartialsTyped
  <2>3. chan_partials \in [Parts -> Nat] /\ sounding \in [Parts -> Nat]
    BY <2>1, <2>2
  <2>4. Total(Used(sounding, chan_partials)) = 0
    <3>1. \A c \in Parts : Used(sounding, chan_partials)[c] = 0
      BY <2>1, <2>2 DEF Used
    <3> QED BY <3>1 DEF Total, Parts
  <2>5. Total(Fours(sounding, chan_partials)) = 0
    <3>1. \A c \in Parts : Fours(sounding, chan_partials)[c] = 0
      BY <2>1 DEF Fours
    <3> QED BY <3>1 DEF Total, Parts
  <2> QED BY <2>1, <2>3, <2>4, <2>5 DEF MeterInv, PartialsExact, Used, Fours
<1> QED BY <1>1, <1>2, <1>3

LEMMA NextEcho ==
  ASSUME EchoInv, [Next]_toolvars
  PROVE  EchoInv'
<1>1. CASE tool = "MIDIECHO" /\ EchoStep
  <2>1. WireInv /\ ParserInv /\ PatchInv /\ MeterInv
    BY <1>1 DEF EchoInv
  <2>2. WireInv' /\ ParserInv'
    BY <1>1, <2>1, EchoKeepsWire, EchoKeepsParser
  <2>3. CASE message
    <3>1. PICK c \in Parts, d1 \in 0 .. 127, d2 \in Nat, v \in Nat : Handed(c, d1, d2, v)
      BY <2>1, <2>3, MessageHanded
    <3>2. PatchInv' /\ MeterInv'
      BY <2>1, <3>1, HandedKeepsPatches, HandedKeepsMeter
    <3> QED BY <2>2, <3>2 DEF EchoInv
  <2>4. CASE MIDIECHO_isr \/ exclusive_byte \/ status_byte \/ data_byte
    <3>1. UNCHANGED <<patches, meter, driver_bank, driver_timbre, silent>>
      BY <2>4 DEF MIDIECHO_isr, exclusive_byte, status_byte, data_byte, driver
    <3>2. PatchInv'
      BY <2>1, <3>1 DEF PatchInv, patches
    <3>3. MeterInv'
      BY <2>1, <3>1 DEF MeterInv, PartialsExact, meter, patches
    <3> QED BY <2>2, <3>2, <3>3 DEF EchoInv
  <2> QED BY <1>1, <2>3, <2>4 DEF EchoStep
<1>2. CASE tool' = tool /\ UNCHANGED echovars /\ (tool = "MIDIECHO" => UNCHANGED cable)
  <2>1. ParserInv' /\ PatchInv' /\ MeterInv'
    <3>1. UNCHANGED <<parser, patches, meter, driver>>
      BY <1>2 DEF echovars
    <3>2. ParserInv'
      BY <3>1 DEF EchoInv, ParserInv, parser
    <3>3. PatchInv'
      BY <3>1 DEF EchoInv, PatchInv, patches, driver
    <3>4. MeterInv'
      BY <3>1 DEF EchoInv, MeterInv, PartialsExact, meter
    <3> QED BY <3>2, <3>3, <3>4
  <2>2. tool = "MIDIECHO" => WireInv'
    BY <1>2 DEF EchoInv, WireInv, RingInv, Waiting, cable, ring, device
  <2> QED BY <1>2, <2>1, <2>2 DEF EchoInv
<1> QED BY <1>1, <1>2, EchoSteps

(* No note is played on a timbre that was not set up, and the count of     *)
(* partials is that of the notes that are on, for every instrument, timbre *)
(* library, display and size of the driver's cache, also when the ring     *)
(* overruns.                                                               *)
THEOREM TimbresAccountedAlways == Spec => []TimbresAccounted
<1>1. Init => EchoInv
  BY EchoInitWire, EchoInitRest DEF Init, EchoInv
<1>2. EchoInv /\ [Next]_toolvars => EchoInv'
  BY NextEcho
<1>3. EchoInv => TimbresAccounted
  BY DEF EchoInv, PatchInv, MeterInv, TimbresAccounted, TimbreBeforeUse
<1> QED BY <1>1, <1>2, <1>3, PTL DEF Spec

----------------------------------------------------------------------------
(* MIDIECHO: the messages.                                                 *)

(* Turns around the ring. *)
LEMMA AroundRing ==
  ASSUME NEW M \in Nat \ {0, 1}, NEW a \in 0 .. M - 1, NEW b \in 0 .. M - 1
  PROVE  /\ (a + b) % M = IF a + b < M THEN a + b ELSE a + b - M
         /\ (a - b) % M = IF b <= a THEN a - b ELSE a - b + M
<1>1. ASSUME NEW x \in 0 .. M - 1 PROVE x % M = x
  BY Z3
<1>2. ASSUME NEW x \in 0 .. M - 1 PROVE (x + M) % M = x
  BY Z3
<1>3. ASSUME NEW x \in 1 .. M PROVE (x - M) % M = (IF x = M THEN 0 ELSE x)
  BY Z3
<1>4. (a + b) % M = IF a + b < M THEN a + b ELSE a + b - M
  <2>1. CASE a + b < M
    BY <1>1, <2>1
  <2>2. CASE ~ (a + b < M)
    <3> DEFINE x == a + b - M
    <3>1. x \in 0 .. M - 1 /\ a + b = x + M
      BY <2>2
    <3> HIDE DEF x
    <3>2. (a + b) % M = x
      BY <1>2, <3>1
    <3> QED BY <2>2, <3>2 DEF x
  <2> QED BY <2>1, <2>2
<1>5. (a - b) % M = IF b <= a THEN a - b ELSE a - b + M
  <2>1. CASE b <= a
    BY <1>1, <2>1
  <2>2. CASE ~ (b <= a)
    <3> DEFINE x == a - b + M
    <3>1. x \in 1 .. M - 1 /\ a - b = x - M
      BY <2>2
    <3> HIDE DEF x
    <3>2. (a - b) % M = x
      BY <1>3, <3>1
    <3> QED BY <2>2, <3>2 DEF x
  <2> QED BY <2>1, <2>2
<1> QED BY <1>4, <1>5

(* How many bytes wait in the ring, and where in it.                       *)
Unread == (head - tail) % QLEN
Slot(j) == (tail + j) % QLEN

LEMMA UnreadIs ==
  ASSUME RingInv
  PROVE  /\ Unread \in 0 .. QLEN - 1 /\ Len(Pending) = Unread
         /\ Unread = IF tail <= head THEN head - tail ELSE head - tail + QLEN
         /\ \A j \in 0 .. QLEN - 1 : Slot(j) = IF tail + j < QLEN THEN tail + j ELSE tail + j - QLEN
<1>1. QLEN \in Nat \ {0, 1} /\ head \in 0 .. QLEN - 1 /\ tail \in 0 .. QLEN - 1
  BY RingAssumption DEF RingInv
<1>2. Unread = IF tail <= head THEN head - tail ELSE head - tail + QLEN
  BY <1>1, AroundRing DEF Unread
<1>3. Unread \in 0 .. QLEN - 1
  BY <1>1, <1>2
<1>4. Len(Pending) = Unread
  BY <1>3 DEF Pending, Unread
<1>5. ASSUME NEW j \in 0 .. QLEN - 1
      PROVE  Slot(j) = IF tail + j < QLEN THEN tail + j ELSE tail + j - QLEN
  BY <1>1, AroundRing DEF Slot
<1> QED BY <1>2, <1>3, <1>4, <1>5

(* The ring holds the last bytes of w, those that were not read.           *)
Carries(w) ==
  /\ Unread <= arrived
  /\ \A j \in 0 .. Unread - 1 : queue[Slot(j)] = w[arrived - Unread + 1 + j]

(* A byte is queued: unless the ring is full now, it is behind the others. *)
LEMMA RingTakes ==
  ASSUME RingInv, arrived \in Nat, NEW b, write_queue(b), ~ overrun',
         arrived' = arrived + 1, NEW w, Carries(w),
         NEW v, v = [i \in 1 .. arrived + 1 |-> IF i = arrived + 1 THEN b ELSE w[i]]
  PROVE  Unread' = Unread + 1 /\ Carries(v)'
<1>1. QLEN \in Nat \ {0, 1} /\ head \in 0 .. QLEN - 1 /\ tail \in 0 .. QLEN - 1
  BY RingAssumption DEF RingInv
<1>2. head' = (IF head = QLEN - 1 THEN 0 ELSE head + 1) /\ tail' = tail /\ head' # tail
      /\ queue' = [queue EXCEPT ![head] = b] /\ DOMAIN queue = 0 .. QLEN - 1
  BY <1>1, Wrapped DEF write_queue, RingInv
<1>3. Unread' = IF tail <= head' THEN head' - tail ELSE head' - tail + QLEN
  <2>1. Unread' = (head' - tail) % QLEN
    BY <1>2 DEF Unread
  <2>2. head' \in 0 .. QLEN - 1
    BY <1>1, <1>2
  <2> QED BY <1>1, <2>1, <2>2, AroundRing
<1>4. /\ Unread = IF tail <= head THEN head - tail ELSE head - tail + QLEN
      /\ \A j \in 0 .. QLEN - 1 : Slot(j) = IF tail + j < QLEN THEN tail + j ELSE tail + j - QLEN
  BY UnreadIs
<1>5. Unread' = Unread + 1 /\ Unread \in Nat /\ Unread + 1 <= QLEN - 1
  BY <1>1, <1>2, <1>3, <1>4
<1>6. \A j \in 0 .. Unread - 1 : Slot(j) # head /\ Slot(j) \in 0 .. QLEN - 1
  BY <1>1, <1>4, <1>5
<1>7. Slot(Unread) = head
  BY <1>1, <1>4, <1>5
<1>8. \A j : Slot(j)' = Slot(j)
  BY <1>2 DEF Slot
<1>10. ASSUME NEW j \in 0 .. Unread
       PROVE  queue'[Slot(j)] = v[arrived - Unread + 1 + j]
  <2>1. CASE j = Unread
    BY <1>1, <1>2, <1>5, <1>7, <2>1
  <2>2. CASE j # Unread
    <3>1. j \in 0 .. Unread - 1 /\ arrived - Unread + 1 + j \in 1 .. arrived
      BY <1>5, <2>2 DEF Carries
    <3>2. queue'[Slot(j)] = queue[Slot(j)]
      BY <1>2, <1>6, <3>1
    <3>3. queue[Slot(j)] = w[arrived - Unread + 1 + j]
      BY <3>1 DEF Carries
    <3> QED BY <3>1, <3>2, <3>3
  <2> QED BY <2>1, <2>2
<1>11. \A j \in 0 .. Unread' - 1 : queue'[Slot(j)'] = v[arrived' - Unread' + 1 + j]
  <2>1. ASSUME NEW j \in 0 .. Unread' - 1
        PROVE  queue'[Slot(j)'] = v[arrived' - Unread' + 1 + j]
    <3>1. j \in 0 .. Unread /\ arrived' - Unread' + 1 + j = arrived - Unread + 1 + j
      BY <1>5
    <3> QED BY <1>8, <1>10, <3>1
  <2> QED BY <2>1
<1>12. Unread' <= arrived'
  BY <1>5 DEF Carries
<1> QED BY <1>5, <1>11, <1>12 DEF Carries

(* A byte is read: it is the first that was not.                           *)
LEMMA RingGives ==
  ASSUME RingInv, arrived \in Nat, NextByte, arrived' = arrived, NEW w, Carries(w)
  PROVE  /\ Unread' = Unread - 1 /\ Carries(w)' /\ Unread \in 1 .. arrived
         /\ watch_queue = w[arrived - Unread + 1]
<1>1. QLEN \in Nat \ {0, 1} /\ head \in 0 .. QLEN - 1 /\ tail \in 0 .. QLEN - 1
  BY RingAssumption DEF RingInv
<1>2. tail' = (IF tail = QLEN - 1 THEN 0 ELSE tail + 1) /\ head' = head /\ queue' = queue
      /\ head # tail
  BY <1>1, Wrapped DEF NextByte, read_queue, check_queue
<1>3. tail' \in 0 .. QLEN - 1
  BY <1>1, <1>2
<1>4. Unread' = IF tail' <= head THEN head - tail' ELSE head - tail' + QLEN
  <2>1. Unread' = (head - tail') % QLEN
    BY <1>2 DEF Unread
  <2> QED BY <1>1, <1>3, <2>1, AroundRing
<1>5. /\ Unread = IF tail <= head THEN head - tail ELSE head - tail + QLEN
      /\ \A j \in 0 .. QLEN - 1 : Slot(j) = IF tail + j < QLEN THEN tail + j ELSE tail + j - QLEN
  BY UnreadIs
<1>6. Unread' = Unread - 1 /\ Unread \in Nat /\ Unread >= 1 /\ Unread <= QLEN - 1
  BY <1>1, <1>2, <1>4, <1>5
<1>7. Slot(0) = tail
  BY <1>1, <1>5
<1>8. ASSUME NEW j \in 0 .. Unread - 2 PROVE Slot(j)' = Slot(j + 1)
  <2>1. Slot(j)' = IF tail' + j < QLEN THEN tail' + j ELSE tail' + j - QLEN
    <3>1. Slot(j)' = (tail' + j) % QLEN
      BY DEF Slot
    <3>2. j \in 0 .. QLEN - 1
      BY <1>1, <1>6
    <3> QED BY <1>1, <1>3, <3>1, <3>2, AroundRing
  <2>2. j + 1 \in 0 .. QLEN - 1
    BY <1>1, <1>6
  <2>3. Slot(j + 1) = IF tail + j + 1 < QLEN THEN tail + j + 1 ELSE tail + j + 1 - QLEN
    BY <1>1, <1>5, <2>2
  <2> QED BY <1>1, <1>2, <2>1, <2>2, <2>3
<1>9. \A j \in 0 .. Unread' - 1 : queue'[Slot(j)'] = w[arrived' - Unread' + 1 + j]
  <2>1. ASSUME NEW j \in 0 .. Unread' - 1
        PROVE  queue'[Slot(j)'] = w[arrived' - Unread' + 1 + j]
    <3>1. j \in 0 .. Unread - 2 /\ j + 1 \in 0 .. Unread - 1
      BY <1>6
    <3>2. queue'[Slot(j)'] = queue[Slot(j + 1)]
      BY <1>2, <1>8, <3>1
    <3>3. queue[Slot(j + 1)] = w[arrived - Unread + 1 + (j + 1)]
      BY <3>1 DEF Carries
    <3>4. arrived - Unread + 1 + (j + 1) = arrived' - Unread' + 1 + j
      BY <1>6, <3>1 DEF Carries
    <3> QED BY <3>2, <3>3, <3>4
  <2> QED BY <2>1
<1>10. watch_queue = w[arrived - Unread + 1]
  <2>1. 0 \in 0 .. Unread - 1
    BY <1>6
  <2>2. queue[Slot(0)] = w[arrived - Unread + 1 + 0]
    BY <2>1 DEF Carries
  <2>3. arrived - Unread + 1 + 0 = arrived - Unread + 1
    BY <1>6
  <2> QED BY <1>7, <2>2, <2>3 DEF watch_queue
<1>11. Unread' <= arrived'
  BY <1>6 DEF Carries
<1>12. Unread \in 1 .. arrived
  BY <1>6 DEF Carries
<1> QED BY <1>6, <1>9, <1>10, <1>11, <1>12 DEF Carries

(* The status of a part: what becomes of the status b of a channel.        *)
OfPart(b) == Part(b) + (b \div 16) * 16

LEMMA OfPartIs ==
  ASSUME NEW b \in 128 .. 239
  PROVE  /\ OfPart(b) \in 128 .. 239 /\ Kind(OfPart(b)) = Kind(b)
         /\ OfPart(b) = b - (b % 16) + Part(b)
         /\ Needed(OfPart(b)) = IF b \in 192 .. 223 THEN 1 ELSE 2
<1> DEFINE p == Part(b)
           k == b \div 16
           r == b % 16
<1>1. r \in 0 .. 15 /\ k \in 8 .. 14 /\ b = 16 * k + r
  OBVIOUS
<1>2. p \in 0 .. 9
  BY <1>1 DEF Part
<1>3. OfPart(b) = p + k * 16
  BY DEF OfPart
<1>4. Kind(b) = k
  BY DEF Kind
<1> HIDE DEF p, k, r
<1>5. OfPart(b) \div 16 = k /\ OfPart(b) \in 128 .. 239 /\ OfPart(b) = b - r + p
  BY <1>1, <1>2, <1>3
<1>6. Kind(OfPart(b)) = k
  BY <1>5 DEF Kind
<1>7. k \in {12, 13} <=> b \in 192 .. 223
  BY <1>1
<1>8. Needed(OfPart(b)) = IF b \in 192 .. 223 THEN 1 ELSE 2
  BY <1>6, <1>7 DEF Needed
<1> QED BY <1>4, <1>5, <1>6, <1>8 DEF p, r

(* The first byte of a message, and how many it has. *)
Lead(m) == m[1]
Length(m) == Len(m)

(* A legal message, byte by byte. *)
LEMMA Legal ==
  ASSUME NEW m, Complete(m)
  PROVE  /\ Length(m) \in Nat \ {0} /\ Lead(m) \in 128 .. 255 /\ Lead(m) # 247
         /\ \A i \in 1 .. Length(m) : m[i] \in 0 .. 255
         /\ Lead(m) < 240 => Length(m) = IF Lead(m) \in 192 .. 223 THEN 2 ELSE 3
         /\ Lead(m) = 240 => m[Length(m)] = 247 /\ Length(m) > 1
         /\ Lead(m) >= 248 => Length(m) = 1
         /\ \A i \in 2 .. Length(m) :
              m[i] < 128 \/ (Lead(m) = 240 /\ (m[i] >= 248 \/ (m[i] = 247 /\ i = Length(m))))
<1>1. m \in Seq(Byte) /\ m # <<>>
  BY DEF Complete
<1>2. Length(m) \in Nat \ {0} /\ \A i \in 1 .. Length(m) : m[i] \in 0 .. 255
  <2>1. Len(m) \in Nat \ {0} /\ \A i \in 1 .. Len(m) : m[i] \in Byte
    BY <1>1
  <2> QED BY <2>1 DEF Length, Byte
<1>3. Lead(m) \in 0 .. 255
  BY <1>2 DEF Lead
<1>4. /\ Lead(m) >= 128 /\ Lead(m) # 247
      /\ Lead(m) < 240 => Length(m) = IF Lead(m) \in 192 .. 223 THEN 2 ELSE 3
      /\ Lead(m) = 240 => m[Length(m)] = 247
      /\ Lead(m) >= 248 => Length(m) = 1
      /\ \A i \in 2 .. Length(m) :
           m[i] < 128 \/ (Lead(m) = 240 /\ (m[i] >= 248 \/ (m[i] = 247 /\ i = Length(m))))
  BY DEF Complete, Lead, Length
<1>5. Lead(m) \in 128 .. 255
  BY <1>3, <1>4
<1>6. Lead(m) = 240 => Length(m) > 1
  <2>1. Lead(m) = 240 => Lead(m) = m[1] /\ m[Length(m)] = 247
    BY <1>4 DEF Lead
  <2>2. Lead(m) = 240 => Length(m) # 1
    BY <2>1
  <2> QED BY <1>2, <2>2
<1> QED BY <1>2, <1>4, <1>5, <1>6

(* The first q bytes of it. *)
First(m, q) == SubSeq(m, 1, q)

LEMMA Pieces ==
  ASSUME NEW m, Complete(m), NEW q \in 1 .. Length(m)
  PROVE  /\ First(m, 1) = <<Lead(m)>>
         /\ q > 1 => First(m, q - 1) # <<>> /\ Append(First(m, q - 1), m[q]) = First(m, q)
         /\ First(m, Length(m)) = m /\ DOMAIN m = 1 .. Length(m) /\ IsPrefix(m, m)
<1>1. m \in Seq(Byte) /\ m # <<>> /\ Len(m) \in Nat \ {0} /\ Length(m) = Len(m) /\ Lead(m) = m[1]
  <2>1. m \in Seq(Byte) /\ m # <<>>
    BY DEF Complete
  <2>2. Len(m) \in Nat \ {0}
    BY <2>1
  <2> QED BY <2>1, <2>2 DEF Length, Lead
<1>2. First(m, 1) = <<m[1]>>
  <2>1. m \in Seq(Byte) /\ m # <<>>
    BY <1>1
  <2> DEFINE p == SubSeq(m, 1, 1)
  <2>2. 1 \in 1 .. Len(m) + 1 /\ 1 \in 0 .. Len(m)
    BY <1>1
  <2>3. p \in Seq(Byte) /\ Len(p) = 1 /\ p[1] = m[1]
    BY <2>1, <2>2
  <2> HIDE DEF p
  <2>4. p = <<p[1]>>
    BY <2>3
  <2>5. SubSeq(m, 1, 1) = <<m[1]>>
    BY <2>3, <2>4 DEF p
  <2> QED BY <2>5 DEF First
<1>3. ASSUME q > 1 PROVE First(m, q - 1) # <<>> /\ Append(First(m, q - 1), m[q]) = First(m, q)
  <2>1. q - 1 \in Nat /\ q - 1 >= 1 /\ q <= Len(m)
    BY <1>1, <1>3
  <2>2. Len(SubSeq(m, 1, q - 1)) = q - 1
    BY <1>1, <2>1
  <2>3. Append(SubSeq(m, 1, q - 1), m[q]) = SubSeq(m, 1, q)
    BY <1>1, <1>3
  <2> QED BY <2>1, <2>2, <2>3 DEF First
<1>4. First(m, Len(m)) = m
  BY <1>1 DEF First
<1>5. IsPrefix(m, m)
  BY <1>1 DEF IsPrefix
<1>6. DOMAIN m = 1 .. Len(m)
  BY <1>1
<1> QED BY <1>1, <1>2, <1>3, <1>4, <1>5, <1>6

(* No exclusive message is being put together. *)
Closed(exclusive) == exclusive = <<>>

(* What the parser holds once q bytes of message m, and not all, were read. *)
Inside(m, q, exclusive, stat, count, data) ==
  IF Lead(m) = 240 THEN exclusive = First(m, q)
  ELSE /\ Closed(exclusive)
       /\ IF Lead(m) < 240
          THEN stat = OfPart(Lead(m)) /\ count = q - 1 /\ (q = 2 => data[1] = m[2])
          ELSE stat < 128
Within(m, q) == Inside(m, q, sysex, cv_status, cv_bytecnt, cv_message)

(* What the last byte of m leaves. *)
Completed(m) ==
  /\ Closed(sysex')
  /\ Lead(m) < 240 => cv_status' = OfPart(Lead(m)) /\ cv_bytecnt' = 0
  /\ Lead(m) >= 248 => cv_status' = cv_status /\ cv_bytecnt' = cv_bytecnt
  /\ Lead(m) > 240 => sent' = sent
  /\ Lead(m) <= 240 => \E v : sent' = Append(sent, v) /\ IsPrefix(Outcome(m), v)

(* Byte q of m is read. *)
Reads(m, q) ==
  /\ q \in 1 .. Length(m) /\ watch_queue = m[q]
  /\ q = 1 => Closed(sysex)
  /\ q > 1 => Within(m, q - 1)
Parsed(m, q) ==
  /\ q < Length(m) => Within(m, q)' /\ sent' = sent
  /\ q = Length(m) => Completed(m)

LEMMA ExclusiveParsed ==
  ASSUME NEW m, Complete(m), NEW q \in Nat, Reads(m, q), exclusive_byte
  PROVE  Parsed(m, q)
<1>1. /\ Length(m) \in Nat \ {0} /\ m[q] \in 0 .. 255
      /\ Lead(m) = 240 => m[Length(m)] = 247 /\ Length(m) > 1
      /\ q > 1 => m[q] < 128 \/ (Lead(m) = 240 /\ (m[q] >= 248 \/ (m[q] = 247 /\ q = Length(m))))
  BY Legal DEF Reads
<1>2. q \in 1 .. Length(m) /\ watch_queue = m[q]
  BY DEF Reads
<1>3. /\ First(m, 1) = <<Lead(m)>>
      /\ q > 1 => First(m, q - 1) # <<>> /\ Append(First(m, q - 1), m[q]) = First(m, q)
      /\ First(m, Length(m)) = m /\ IsPrefix(m, m)
  BY <1>2, Pieces
<1>4. \/ m[q] = 240 /\ sysex' = <<240>> /\ sent' = sent
      \/ m[q] \notin {240, 247} /\ sysex # <<>> /\ sysex' = Append(sysex, m[q]) /\ sent' = sent
      \/ m[q] = 247 /\ sysex # <<>> /\ sysex' = <<>> /\ sent' = Append(sent, Append(sysex, m[q]))
  BY <1>2 DEF exclusive_byte
<1>5. CASE q = 1
  <2>1. sysex = <<>> /\ m[1] = Lead(m)
    BY <1>5 DEF Reads, Lead, Closed
  <2>2. Lead(m) = 240 /\ sysex' = <<240>> /\ sent' = sent
    BY <1>4, <1>5, <2>1
  <2>3. Within(m, 1)'
    BY <1>3, <2>2 DEF Within, Inside
  <2> QED BY <1>1, <1>5, <2>2, <2>3 DEF Parsed
<1>6. CASE q > 1
  <2>1. m[q] # 240
    BY <1>1, <1>6
  <2>2. sysex # <<>>
    BY <1>4, <2>1
  <2>3. Lead(m) = 240 /\ sysex = First(m, q - 1)
    BY <1>6, <2>2 DEF Reads, Within, Inside, Closed
  <2>4. CASE m[q] # 247
    <3>1. sysex' = First(m, q) /\ sent' = sent
      <4>1. sysex' = Append(sysex, m[q]) /\ sent' = sent
        BY <1>4, <2>1, <2>4
      <4>2. Append(First(m, q - 1), m[q]) = First(m, q)
        BY <1>3, <1>6
      <4> QED BY <2>3, <4>1, <4>2
    <3>2. q < Length(m)
      BY <1>1, <1>2, <2>3, <2>4
    <3> QED BY <2>3, <3>1, <3>2 DEF Parsed, Within, Inside
  <2>5. CASE m[q] = 247
    <3>1. q = Length(m)
      BY <1>1, <1>6, <2>5
    <3>2. sysex' = <<>> /\ sent' = Append(sent, m)
      <4>1. Append(sysex, m[q]) = m
        BY <1>3, <1>6, <2>3, <3>1
      <4>2. sysex' = <<>> /\ sent' = Append(sent, Append(sysex, m[q]))
        BY <1>4, <2>1, <2>5
      <4> QED BY <4>1, <4>2
    <3>3. Outcome(m) = m
      BY <2>3 DEF Outcome, Lead
    <3>4. Completed(m)
      BY <1>3, <2>3, <3>2, <3>3 DEF Completed, Closed
    <3> QED BY <3>1, <3>4 DEF Parsed
  <2> QED BY <2>4, <2>5
<1> QED BY <1>2, <1>5, <1>6

LEMMA StatusParsed ==
  ASSUME NEW m, Complete(m), NEW q \in Nat, Reads(m, q), status_byte
  PROVE  Parsed(m, q)
<1>1. /\ Length(m) \in Nat \ {0} /\ Lead(m) \in 128 .. 255 /\ Lead(m) # 247
      /\ Lead(m) < 240 => Length(m) = IF Lead(m) \in 192 .. 223 THEN 2 ELSE 3
      /\ Lead(m) >= 248 => Length(m) = 1
      /\ m[q] \in 0 .. 255
      /\ q > 1 => m[q] < 128 \/ Lead(m) = 240
  BY Legal DEF Reads
<1>2. q \in 1 .. Length(m) /\ watch_queue = m[q]
  BY DEF Reads
<1>3. /\ Closed(sysex) /\ m[q] >= 128 /\ m[q] # 240 /\ Closed(sysex') /\ sent' = sent
      /\ IF m[q] < 248
         THEN /\ cv_bytecnt' = 0
              /\ cv_status' = Part(m[q]) + (IF m[q] >= 240 THEN 0 ELSE (m[q] \div 16) * 16)
         ELSE cv_bytecnt' = cv_bytecnt /\ cv_status' = cv_status
  BY <1>2 DEF status_byte, driver, Closed
<1>4. q = 1
  <2>1. SUFFICES ASSUME q > 1 PROVE FALSE
    BY <1>2
  <2>2. Lead(m) = 240
    BY <1>1, <1>3, <2>1
  <2>3. Closed(First(m, q - 1))
    BY <1>3, <2>1, <2>2 DEF Reads, Within, Inside
  <2> QED BY <1>2, <2>1, <2>3, Pieces DEF Closed
<1>5. m[q] = Lead(m)
  BY <1>4 DEF Lead
<1> DEFINE s == Lead(m)
<1>6. s # 240 /\ s \in 128 .. 255 /\ s # 247
  BY <1>1, <1>3, <1>5
<1>7. IF s < 248 THEN /\ cv_bytecnt' = 0
                      /\ cv_status' = Part(s) + (IF s >= 240 THEN 0 ELSE (s \div 16) * 16)
      ELSE cv_bytecnt' = cv_bytecnt /\ cv_status' = cv_status
  BY <1>3, <1>5
<1>8. s \in 128 .. 239 \/ s \in 241 .. 246 \/ s \in 248 .. 255
  BY <1>6
<1>9. CASE s \in 128 .. 239
  <2>1. cv_bytecnt' = 0 /\ cv_status' = OfPart(s)
    <3> HIDE DEF s
    <3> QED BY <1>7, <1>9 DEF OfPart
  <2>2. 1 < Length(m)
    BY <1>1, <1>9
  <2>3. Within(m, 1)'
    BY <1>3, <1>9, <2>1 DEF Within, Inside
  <2> QED BY <1>3, <1>4, <2>2, <2>3 DEF Parsed
<1>10. CASE s \in 241 .. 246
  <2>1. cv_status' < 128
    <3> HIDE DEF s
    <3>1. s % 16 \in 0 .. 15
      BY <1>10
    <3>2. Part(s) \in 0 .. 9
      BY <3>1 DEF Part
    <3>3. cv_status' = Part(s) + 0
      BY <1>7, <1>10
    <3> QED BY <3>2, <3>3
  <2>2. Within(m, 1)'
    BY <1>3, <1>10, <2>1 DEF Within, Inside
  <2>3. Completed(m)
    BY <1>3, <1>10 DEF Completed
  <2> QED BY <1>3, <1>4, <2>2, <2>3 DEF Parsed
<1>11. CASE s \in 248 .. 255
  <2>1. cv_bytecnt' = cv_bytecnt /\ cv_status' = cv_status
    BY <1>7, <1>11
  <2>2. Completed(m)
    BY <1>3, <1>11, <2>1 DEF Completed
  <2>3. Length(m) = 1
    BY <1>1, <1>11
  <2> QED BY <1>4, <2>2, <2>3 DEF Parsed
<1> QED BY <1>8, <1>9, <1>10, <1>11

LEMMA InsideChannel ==
  ASSUME NEW m, NEW k, NEW x, NEW s, NEW c, NEW d, Inside(m, k, x, s, c, d),
         Lead(m) # 240, Lead(m) < 240
  PROVE  s = OfPart(Lead(m)) /\ c = k - 1 /\ (k = 2 => d[1] = m[2])
  BY DEF Inside

(* Before a data byte of a message that is not exclusive. *)
LEMMA DataOf ==
  ASSUME NEW m, Complete(m), NEW q \in Nat, Reads(m, q), Closed(sysex), watch_queue < 128
  PROVE  /\ q \in 2 .. Length(m) /\ Lead(m) \in (128 .. 239) \cup (241 .. 246)
         /\ Lead(m) < 240 => /\ cv_status = OfPart(Lead(m)) /\ cv_status \in 128 .. 239
                             /\ cv_bytecnt = q - 2 /\ Needed(cv_status) = Length(m) - 1
                             /\ Length(m) \in 2 .. 3
                             /\ q = 3 => cv_message[1] = m[2]
         /\ Lead(m) > 240 => cv_status < 128
<1>1. /\ Length(m) \in Nat \ {0} /\ Lead(m) \in 128 .. 255 /\ Lead(m) # 247
      /\ Lead(m) < 240 => Length(m) = IF Lead(m) \in 192 .. 223 THEN 2 ELSE 3
      /\ Lead(m) >= 248 => Length(m) = 1
  BY Legal
<1>2. q \in 1 .. Length(m) /\ m[q] < 128
  BY DEF Reads
<1>3. q > 1
  <2>1. q = 1 => m[q] = Lead(m)
    BY DEF Lead
  <2> QED BY <1>1, <1>2, <2>1
<1>4. Lead(m) # 240
  <2>1. SUFFICES ASSUME Lead(m) = 240 PROVE FALSE
    OBVIOUS
  <2>2. Closed(First(m, q - 1))
    BY <1>3, <2>1 DEF Reads, Within, Inside
  <2> QED BY <1>2, <1>3, <2>2, Pieces DEF Closed
<1>5. Within(m, q - 1)
  BY <1>3 DEF Reads
<1>6. Lead(m) \in (128 .. 239) \cup (241 .. 246)
  <2>1. Lead(m) < 248
    BY <1>1, <1>2, <1>3
  <2> QED BY <1>1, <1>4, <2>1
<1>7. ASSUME Lead(m) < 240
      PROVE  /\ cv_status = OfPart(Lead(m)) /\ cv_status \in 128 .. 239
             /\ cv_bytecnt = q - 2 /\ Needed(cv_status) = Length(m) - 1
             /\ Length(m) \in 2 .. 3
             /\ q = 3 => cv_message[1] = m[2]
  <2>1. cv_status = OfPart(Lead(m)) /\ cv_bytecnt = (q - 1) - 1 /\ (q - 1 = 2 => cv_message[1] = m[2])
    <3>1. Inside(m, q - 1, sysex, cv_status, cv_bytecnt, cv_message)
      BY <1>5 DEF Within
    <3> QED BY <1>4, <1>7, <3>1, InsideChannel
  <2>2. Lead(m) \in 128 .. 239
    BY <1>1, <1>7
  <2>3. OfPart(Lead(m)) \in 128 .. 239
        /\ Needed(OfPart(Lead(m))) = IF Lead(m) \in 192 .. 223 THEN 1 ELSE 2
    BY <2>2, OfPartIs
  <2>4. cv_bytecnt = q - 2 /\ (q = 3 => q - 1 = 2)
    BY <2>1
  <2>5. Length(m) = IF Lead(m) \in 192 .. 223 THEN 2 ELSE 3
    BY <1>1, <1>7
  <2>6. Needed(cv_status) = Length(m) - 1 /\ Length(m) \in 2 .. 3
    BY <2>1, <2>3, <2>5
  <2> QED BY <2>1, <2>3, <2>4, <2>6
<1>8. Lead(m) > 240 => cv_status < 128
  BY <1>1, <1>5 DEF Within, Inside
<1>9. q \in 2 .. Length(m)
  BY <1>1, <1>2, <1>3
<1> QED BY <1>6, <1>7, <1>8, <1>9

LEMMA DataParsed ==
  ASSUME ParserInv, NEW m, Complete(m), NEW q \in Nat, Reads(m, q), data_byte
  PROVE  Parsed(m, q)
<1>1. Closed(sysex) /\ watch_queue < 128
  BY DEF data_byte, Closed
<1>2. Closed(sysex') /\ cv_status' = cv_status /\ sent' = sent /\ watch_queue = m[q]
  BY DEF Reads, data_byte, driver, Closed
<1>3. /\ q \in 2 .. Length(m) /\ Lead(m) \in (128 .. 239) \cup (241 .. 246)
      /\ Lead(m) < 240 => /\ cv_status = OfPart(Lead(m)) /\ cv_status \in 128 .. 239
                          /\ cv_bytecnt = q - 2 /\ Needed(cv_status) = Length(m) - 1
                          /\ Length(m) \in 2 .. 3
      /\ Lead(m) > 240 => cv_status < 128
  BY <1>1, DataOf
<1>4. CASE Lead(m) < 240
  <2>1. cv_status \in 128 .. 239 /\ cv_bytecnt = q - 2 /\ Needed(cv_status) = Length(m) - 1
        /\ Length(m) \in 2 .. 3 /\ cv_status = OfPart(Lead(m))
    BY <1>3, <1>4
  <2>2. ~ (cv_status < 128)
    BY <2>1
  <2>3. /\ cv_bytecnt + 1 < Needed(cv_status) /\ cv_bytecnt' = cv_bytecnt + 1
        /\ cv_message' = [cv_message EXCEPT ![cv_bytecnt + 1] = watch_queue]
    BY <2>2 DEF data_byte
  <2>4. q = 2 /\ Length(m) = 3
    BY <1>3, <2>1, <2>3
  <2>5. cv_bytecnt = 0 /\ cv_bytecnt' = 1
    BY <2>1, <2>3, <2>4
  <2>6. cv_message'[1] = m[2]
    BY <1>2, <2>3, <2>4, <2>5 DEF ParserInv
  <2>7. Within(m, 2)'
    BY <1>1, <1>2, <1>4, <2>1, <2>5, <2>6 DEF Within, Inside
  <2> QED BY <1>2, <2>4, <2>7 DEF Parsed
<1>5. CASE Lead(m) \in 241 .. 246
  <2>1. cv_status' < 128
    BY <1>2, <1>3, <1>5
  <2>2. Within(m, q)'
    BY <1>1, <1>2, <1>5, <2>1 DEF Within, Inside
  <2>3. Completed(m)
    BY <1>1, <1>2, <1>5 DEF Completed
  <2> QED BY <1>2, <2>2, <2>3 DEF Parsed
<1> QED BY <1>3, <1>4, <1>5

(* Two bytes or three are a prefix of three. *)
LEMMA ShortPrefix ==
  ASSUME NEW n \in 2 .. 3, NEW o, o = [i \in 1 .. n |-> o[i]],
         NEW a, NEW b, NEW c, o[1] = a, o[2] = b, n = 3 => o[3] = c
  PROVE  IsPrefix(o, <<a, b, c>>)
<1> DEFINE R == {a, b, c}
           w == <<a, b, c>>
<1>1. w \in Seq(R) /\ Len(w) = 3
  OBVIOUS
<1>2. \A i \in 1 .. n : o[i] = w[i]
  OBVIOUS
<1>3. o \in Seq(R) /\ Len(o) = n
  <2>1. \A i \in 1 .. n : o[i] \in R
    BY <1>2
  <2>2. o \in [1 .. n -> R] /\ n \in Nat
    BY <2>1
  <2> HIDE DEF R
  <2> QED BY <2>2
<1>4. SubSeq(o, 1, n) = SubSeq(w, 1, n)
  <2> HIDE DEF R
  <2> QED BY <1>1, <1>2, <1>3
<1>5. Len(o) <= Len(w)
  BY <1>1, <1>3
<1> QED BY <1>3, <1>4, <1>5 DEF IsPrefix

LEMMA MessageParsed ==
  ASSUME ParserInv, NEW m, Complete(m), NEW q \in Nat, Reads(m, q), message
  PROVE  Parsed(m, q)
<1> DEFINE d1 == IF cv_bytecnt = 0 THEN watch_queue ELSE cv_message[1]
           d2 == IF cv_bytecnt = 1 THEN watch_queue ELSE cv_message[2]
           v  == Value(d1, d2)
           whole == <<cv_status, d1, v>>
           o == Outcome(m)
<1>1. Closed(sysex) /\ watch_queue < 128
  BY DEF message, Closed
<1>2. /\ Closed(sysex') /\ cv_status' = cv_status /\ cv_bytecnt' = 0 /\ cv_status >= 128
      /\ cv_bytecnt + 1 = Needed(cv_status)
  BY DEF message, Closed
<1>3. watch_queue = m[q] /\ Lead(m) = m[1] /\ DOMAIN m = 1 .. Length(m)
  BY Pieces DEF Reads, Lead
<1>4. /\ q \in 2 .. Length(m) /\ Lead(m) \in (128 .. 239) \cup (241 .. 246)
      /\ Lead(m) < 240 => /\ cv_status = OfPart(Lead(m)) /\ cv_status \in 128 .. 239
                          /\ cv_bytecnt = q - 2 /\ Needed(cv_status) = Length(m) - 1
                          /\ Length(m) \in 2 .. 3
                          /\ q = 3 => cv_message[1] = m[2]
      /\ Lead(m) > 240 => cv_status < 128
  BY <1>1, DataOf
<1>5. Lead(m) \in 128 .. 239
  <2>1. cv_status \in 0 .. 255
    BY DEF ParserInv, Byte
  <2> QED BY <1>2, <1>4, <2>1
<1>6. /\ cv_status = OfPart(Lead(m)) /\ cv_bytecnt = q - 2 /\ Needed(cv_status) = Length(m) - 1
      /\ Length(m) \in 2 .. 3 /\ (q = 3 => cv_message[1] = m[2])
  BY <1>4, <1>5
<1>7. q = Length(m)
  BY <1>2, <1>4, <1>6
<1>8. OfPart(Lead(m)) = Lead(m) - (Lead(m) % 16) + Part(Lead(m))
      /\ Kind(OfPart(Lead(m))) = Kind(Lead(m))
  BY <1>5, OfPartIs
<1>9. d1 = m[2] /\ (Length(m) = 3 => d2 = m[3])
  <2>1. CASE Length(m) = 2
    <3>1. cv_bytecnt = 0 /\ q = 2
      BY <1>6, <1>7, <2>1
    <3> QED BY <1>3, <2>1, <3>1
  <2>2. CASE Length(m) = 3
    <3>1. cv_bytecnt = 1 /\ q = 3
      BY <1>6, <1>7, <2>2
    <3> QED BY <1>3, <1>6, <3>1
  <2> QED BY <1>6, <2>1, <2>2
<1> DEFINE scaled == Kind(Lead(m)) = 11 /\ m[2] = 7
           louder == (m[3] * driver_vol) \div 100
<1>10. Length(m) = 3 => v = IF scaled THEN louder ELSE m[3]
  BY <1>6, <1>8, <1>9 DEF Value
<1>11. o = [i \in 1 .. Length(m) |->
              IF i = 1 THEN cv_status ELSE IF i = 3 /\ scaled THEN louder ELSE m[i]]
  <2>1. m[1] # 240 /\ cv_status = m[1] - (m[1] % 16) + Part(m[1])
    <3> DEFINE s == Lead(m)
    <3>1. s \in 128 .. 239 /\ cv_status = s - (s % 16) + Part(s) /\ s = m[1]
      BY <1>3, <1>5, <1>6, <1>8
    <3> HIDE DEF s
    <3>2. s \in 128 .. 239
      BY <3>1
    <3>3. s # 240
      BY <3>2
    <3> QED BY <3>1, <3>3
  <2> QED BY <1>3, <2>1 DEF Outcome
<1> HIDE DEF d1, d2, v, scaled, louder
<1>13. o[1] = cv_status /\ o[2] = d1 /\ (Length(m) = 3 => o[3] = v)
  <2>1. 1 \in 1 .. Length(m) /\ 2 \in 1 .. Length(m) /\ (Length(m) = 3 => 3 \in 1 .. Length(m))
    BY <1>6
  <2>2. Length(m) = 3 => o[3] = IF scaled THEN louder ELSE m[3]
    BY <1>11, <2>1
  <2>3. o[1] = cv_status /\ o[2] = m[2]
    BY <1>11, <2>1
  <2> QED BY <1>9, <1>10, <2>2, <2>3
<1>14. o = [i \in 1 .. Length(m) |-> o[i]]
  BY <1>11
<1>15. IsPrefix(o, whole)
  <2> HIDE DEF o
  <2> QED BY <1>6, <1>13, <1>14, ShortPrefix DEF whole
<1>16. Completed(m)
  <2> DEFINE after == sent'
             before == sent
  <2>1. after = Append(before, whole)
    BY DEF message, whole, d1, d2, v
  <2>2. Lead(m) < 240 /\ Lead(m) <= 240 /\ ~ (Lead(m) >= 248) /\ ~ (Lead(m) > 240)
    BY <1>5
  <2>3. \E u : after = Append(before, u) /\ IsPrefix(o, u)
    <3> HIDE DEF after, before, o
    <3> QED BY <1>15, <2>1
  <2>4. cv_status' = OfPart(Lead(m)) /\ cv_bytecnt' = 0
    BY <1>2, <1>6
  <2>5. \E u : sent' = Append(sent, u) /\ IsPrefix(Outcome(m), u)
    BY <2>3
  <2> QED BY <1>2, <2>2, <2>4, <2>5, Zenon DEF Completed
<1> QED BY <1>7, <1>16 DEF Parsed

----------------------------------------------------------------------------
(* MIDIECHO: the messages on the wire.                                     *)

(* Message i of those that were begun, with the number of bytes that had   *)
(* arrived when it was complete, and when it began.  Before the first one, *)
(* which has its status, are the rest of another.                          *)
Num(pl) == Len(pl)
Msg(pl, i) == pl[i].bytes
End(pl, i) == pl[i].upto
Begun(pl, i) == IF i = 1 THEN End(pl, 1) - Length(Msg(pl, 1)) ELSE End(pl, i - 1)

(* The status s still runs when message i begins. *)
Runs(pl, i, s) ==
  \E j \in 1 .. i - 1 : /\ Lead(Msg(pl, j)) = s
                        /\ \A k \in j + 1 .. i - 1 : Lead(Msg(pl, k)) >= 248

(* Each message but the first may lack its status. *)
Timed(pl, n) ==
  /\ Num(pl) \in Nat
  /\ \A i \in 1 .. Num(pl) :
       /\ Complete(Msg(pl, i)) /\ End(pl, i) \in Nat
       /\ Begun(pl, i) \in Nat /\ Begun(pl, i) < End(pl, i) /\ Begun(pl, i) <= n
       /\ \/ End(pl, i) - Begun(pl, i) = Length(Msg(pl, i))
          \/ /\ End(pl, i) - Begun(pl, i) = Length(Msg(pl, i)) - 1
             /\ Lead(Msg(pl, i)) < 240 /\ Runs(pl, i, Lead(Msg(pl, i)))
  /\ \A j \in 1 .. Num(pl) : \A i \in 1 .. j - 1 : End(pl, i) <= Begun(pl, j)

(* Byte p on the wire, one of message i. *)
Place(pl, i, p) == Length(Msg(pl, i)) - (End(pl, i) - p)
ByteOf(pl, i, p) == Msg(pl, i)[Place(pl, i, p)]

(* The rest of a message that the cable was plugged in in is passed over. *)
Harmless == (0 .. 127) \cup (241 .. 255)

OnWire(pl, w, n) ==
  /\ \A i \in 1 .. Num(pl) : \A p \in 1 .. n :
       Begun(pl, i) < p /\ p <= End(pl, i) => w[p] = ByteOf(pl, i, p)
  /\ \A p \in 1 .. n : Num(pl) = 0 \/ p <= Begun(pl, 1) => w[p] \in Harmless

(* What is being sent is the rest of the last message. *)
Coming(pl, u, n) ==
  /\ Num(pl) = 0 => \A k \in 1 .. Length(u) : u[k] \in Harmless
  /\ Num(pl) > 0 => /\ n + Length(u) = End(pl, Num(pl))
                    /\ \A k \in 1 .. Length(u) : u[k] = ByteOf(pl, Num(pl), n + k)

RunningIs(pl, r) == r # 0 => r \in 128 .. 239 /\ Runs(pl, Num(pl) + 1, r)

(* The bytes of u go out one by one. *)
LEMMA OneSent ==
  ASSUME NEW pl, NEW n \in Nat, NEW w, NEW u, NEW x, NEW v,
         Timed(pl, n), OnWire(pl, w, n), Coming(pl, u, n), Length(u) \in Nat \ {0},
         Length(x) = Length(u) - 1, \A k \in 1 .. Length(x) : x[k] = u[k + 1],
         v = [i \in 1 .. n + 1 |-> IF i = n + 1 THEN u[1] ELSE w[i]]
  PROVE  Timed(pl, n + 1) /\ OnWire(pl, v, n + 1) /\ Coming(pl, x, n + 1)
<1>1. Timed(pl, n + 1)
  <2>1. \A i \in 1 .. Num(pl) : Begun(pl, i) \in Nat /\ Begun(pl, i) <= n => Begun(pl, i) <= n + 1
    OBVIOUS
  <2> QED BY <2>1 DEF Timed
<1>2. Coming(pl, x, n + 1)
  <2>1. CASE Num(pl) = 0
    BY <2>1 DEF Coming
  <2>2. CASE Num(pl) > 0
    <3>1. n + 1 + Length(x) = End(pl, Num(pl))
      BY <2>2 DEF Coming
    <3>2. ASSUME NEW k \in 1 .. Length(x) PROVE x[k] = ByteOf(pl, Num(pl), (n + 1) + k)
      <4>1. k + 1 \in 1 .. Length(u) /\ n + (k + 1) = (n + 1) + k
        OBVIOUS
      <4>2. x[k] = u[k + 1]
        OBVIOUS
      <4>3. u[k + 1] = ByteOf(pl, Num(pl), n + (k + 1))
        BY <2>2, <4>1 DEF Coming
      <4> QED BY <4>1, <4>2, <4>3
    <3> QED BY <2>2, <3>1, <3>2 DEF Coming
  <2>3. Num(pl) \in Nat
    BY DEF Timed
  <2> QED BY <2>1, <2>2, <2>3
<1>3. ASSUME NEW i \in 1 .. Num(pl), NEW p \in 1 .. n + 1, Begun(pl, i) < p, p <= End(pl, i)
      PROVE  v[p] = ByteOf(pl, i, p)
  <2>1. CASE p = n + 1
    <3>1. i = Num(pl)
      <4>1. SUFFICES ASSUME i < Num(pl) PROVE FALSE
        BY DEF Timed
      <4>2. Num(pl) \in 1 .. Num(pl) /\ i \in 1 .. Num(pl) - 1
        BY <4>1 DEF Timed
      <4>3. End(pl, i) <= Begun(pl, Num(pl)) /\ Begun(pl, Num(pl)) <= n
            /\ End(pl, i) \in Nat /\ Begun(pl, Num(pl)) \in Nat
        BY <4>2 DEF Timed
      <4> QED BY <1>3, <2>1, <4>3
    <3>2. Num(pl) > 0 /\ 1 \in 1 .. Length(u)
      BY DEF Timed
    <3>3. u[1] = ByteOf(pl, Num(pl), n + 1)
      BY <3>2 DEF Coming
    <3>4. v[p] = u[1]
      BY <2>1
    <3> QED BY <2>1, <3>1, <3>3, <3>4
  <2>2. CASE p # n + 1
    <3>1. p \in 1 .. n /\ v[p] = w[p]
      BY <2>2
    <3> QED BY <1>3, <3>1 DEF OnWire
  <2> QED BY <2>1, <2>2
<1>4. ASSUME NEW p \in 1 .. n + 1, Num(pl) = 0 \/ p <= Begun(pl, 1)
      PROVE  v[p] \in Harmless
  <2>1. CASE p = n + 1
    <3>1. Num(pl) = 0
      <4>1. SUFFICES ASSUME Num(pl) # 0 PROVE FALSE
        OBVIOUS
      <4>2. 1 \in 1 .. Num(pl)
        BY <4>1 DEF Timed
      <4>3. Begun(pl, 1) <= n /\ Begun(pl, 1) \in Nat
        BY <4>2 DEF Timed
      <4> QED BY <1>4, <2>1, <4>1, <4>3
    <3>2. u[1] \in Harmless
      <4>1. 1 \in 1 .. Length(u)
        OBVIOUS
      <4> QED BY <3>1, <4>1 DEF Coming
    <3> QED BY <2>1, <3>2
  <2>2. CASE p # n + 1
    <3>1. p \in 1 .. n /\ v[p] = w[p]
      BY <2>2
    <3> QED BY <1>4, <3>1 DEF OnWire
  <2> QED BY <2>1, <2>2
<1>5. OnWire(pl, v, n + 1)
  BY <1>3, <1>4 DEF OnWire
<1> QED BY <1>1, <1>2, <1>5

(* A message more. *)
Grown(pl, np, m, e) ==
  /\ Num(pl) \in Nat /\ Num(np) = Num(pl) + 1
  /\ \A i \in 1 .. Num(pl) : Msg(np, i) = Msg(pl, i) /\ End(np, i) = End(pl, i)
  /\ Msg(np, Num(np)) = m /\ End(np, Num(np)) = e

Plays == Seq([bytes : EchoMessages, upto : Nat])

LEMMA Appended ==
  ASSUME NEW pl \in Plays, NEW m \in EchoMessages, NEW e \in Nat
  PROVE  /\ Append(pl, [bytes |-> m, upto |-> e]) \in Plays
         /\ Grown(pl, Append(pl, [bytes |-> m, upto |-> e]), m, e)
<1> DEFINE R == [bytes : EchoMessages, upto : Nat]
           r == [bytes |-> m, upto |-> e]
           np == Append(pl, r)
<1>1. r \in R /\ r.bytes = m /\ r.upto = e
  OBVIOUS
<1>2. pl \in Seq(R)
  BY DEF Plays
<1> HIDE DEF R, r
<1>3. /\ np \in Seq(R) /\ Len(pl) \in Nat /\ Len(np) = Len(pl) + 1
      /\ \A i \in 1 .. Len(pl) : np[i] = pl[i]
      /\ np[Len(pl) + 1] = r
  BY <1>1, <1>2
<1> HIDE DEF np
<1>4. Grown(pl, np, m, e)
  BY <1>1, <1>3 DEF Grown, Num, Msg, End
<1>5. np \in Plays
  BY <1>3 DEF Plays, R
<1> QED BY <1>4, <1>5 DEF np, r

LEMMA GrownKeeps ==
  ASSUME NEW pl, NEW np, NEW m, NEW e, Grown(pl, np, m, e)
  PROVE  /\ \A i \in 1 .. Num(pl) : Begun(np, i) = Begun(pl, i)
         /\ \A i \in 1 .. Num(pl) + 1 : \A s : Runs(np, i, s) <=> Runs(pl, i, s)
         /\ Begun(np, Num(np)) = IF Num(pl) = 0 THEN e - Length(m) ELSE End(pl, Num(pl))
<1>1. ASSUME NEW i \in 1 .. Num(pl) PROVE Begun(np, i) = Begun(pl, i)
  <2>1. CASE i = 1
    BY <2>1 DEF Begun, Grown
  <2>2. CASE i # 1
    <3>1. i - 1 \in 1 .. Num(pl)
      BY <2>2 DEF Grown
    <3> QED BY <2>2, <3>1 DEF Begun, Grown
  <2> QED BY <2>1, <2>2
<1>2. ASSUME NEW i \in 1 .. Num(pl) + 1, NEW s PROVE Runs(np, i, s) <=> Runs(pl, i, s)
  <2>1. \A j \in 1 .. i - 1 : /\ Msg(np, j) = Msg(pl, j)
                              /\ \A k \in j + 1 .. i - 1 : Msg(np, k) = Msg(pl, k)
    BY DEF Grown
  <2> QED BY <2>1 DEF Runs
<1>3. Begun(np, Num(np)) = IF Num(pl) = 0 THEN e - Length(m) ELSE End(pl, Num(pl))
  <2>1. CASE Num(pl) = 0
    <3>1. Num(np) = 1 /\ Msg(np, 1) = m /\ End(np, 1) = e
      BY <2>1 DEF Grown
    <3> QED BY <2>1, <3>1 DEF Begun
  <2>2. CASE Num(pl) # 0
    <3>1. Num(np) # 1 /\ Num(np) - 1 = Num(pl) /\ Num(pl) \in 1 .. Num(pl)
      BY <2>2 DEF Grown
    <3>2. End(np, Num(pl)) = End(pl, Num(pl))
      BY <3>1 DEF Grown
    <3> QED BY <2>2, <3>1, <3>2 DEF Begun
  <2> QED BY <2>1, <2>2
<1> QED BY <1>1, <1>2, <1>3

(* A message begins, with the status left out or not. *)
LEMMA OneBegun ==
  ASSUME NEW pl, NEW np, NEW m, Complete(m), NEW n \in Nat, NEW w, NEW u, NEW y, NEW r,
         Timed(pl, n), OnWire(pl, w, n), Coming(pl, y, n), Length(y) = 0, RunningIs(pl, r),
         Grown(pl, np, m, n + Length(u)),
         Length(u) \in Nat \ {0}, Length(u) <= Length(m),
         \A k \in 1 .. Length(u) : u[k] = m[Length(m) - Length(u) + k],
         \/ Length(u) = Length(m)
         \/ Length(u) = Length(m) - 1 /\ r # 0 /\ Lead(m) = r
  PROVE  Timed(np, n) /\ OnWire(np, w, n) /\ Coming(np, u, n) /\ Begun(np, Num(np)) = n
<1> DEFINE N == Num(pl)
           M == Num(pl) + 1
           e == n + Length(u)
<1>1. N \in Nat /\ Num(np) = M /\ M \in 1 .. M /\ Msg(np, M) = m /\ End(np, M) = e
  BY DEF Grown
<1>2. /\ \A i \in 1 .. N : Begun(np, i) = Begun(pl, i)
      /\ \A i \in 1 .. M : \A s : Runs(np, i, s) <=> Runs(pl, i, s)
      /\ Begun(np, M) = IF N = 0 THEN e - Length(m) ELSE End(pl, N)
  BY <1>1, GrownKeeps
<1>3. Length(m) \in Nat
  BY Legal
<1>4. r # 0 => r < 240 /\ Runs(pl, M, r) /\ N # 0
  <2>1. r # 0 => r \in 128 .. 239 /\ Runs(pl, M, r)
    BY DEF RunningIs
  <2>2. N = 0 => ~ Runs(pl, M, r)
    BY DEF Runs
  <2> QED BY <2>1, <2>2
<1>5. Begun(np, M) = n
  <2>1. CASE N = 0
    <3>1. Length(u) = Length(m)
      BY <1>4, <2>1
    <3>2. e - Length(m) = n
      BY <3>1
    <3> QED BY <1>2, <2>1, <3>2
  <2>2. CASE N # 0
    <3>1. n + Length(y) = End(pl, N)
      BY <1>1, <2>2 DEF Coming
    <3> QED BY <1>2, <2>2, <3>1
  <2> QED BY <2>1, <2>2
<1>6. Timed(np, n)
  <2>1. ASSUME NEW i \in 1 .. N
        PROVE  /\ Complete(Msg(np, i)) /\ End(np, i) \in Nat
               /\ Begun(np, i) \in Nat /\ Begun(np, i) < End(np, i) /\ Begun(np, i) <= n
               /\ \/ End(np, i) - Begun(np, i) = Length(Msg(np, i))
                  \/ /\ End(np, i) - Begun(np, i) = Length(Msg(np, i)) - 1
                     /\ Lead(Msg(np, i)) < 240 /\ Runs(np, i, Lead(Msg(np, i)))
    <3>1. Msg(np, i) = Msg(pl, i) /\ End(np, i) = End(pl, i) /\ Begun(np, i) = Begun(pl, i)
      BY <1>2 DEF Grown
    <3>2. i \in 1 .. M
      BY <1>1
    <3>3. Runs(np, i, Lead(Msg(np, i))) <=> Runs(pl, i, Lead(Msg(pl, i)))
      BY <1>2, <3>1, <3>2
    <3> QED BY <3>1, <3>3 DEF Timed
  <2>2. /\ Complete(Msg(np, M)) /\ End(np, M) \in Nat
        /\ Begun(np, M) \in Nat /\ Begun(np, M) < End(np, M) /\ Begun(np, M) <= n
    BY <1>1, <1>5
  <2>3. \/ End(np, M) - Begun(np, M) = Length(Msg(np, M))
        \/ /\ End(np, M) - Begun(np, M) = Length(Msg(np, M)) - 1
           /\ Lead(Msg(np, M)) < 240 /\ Runs(np, M, Lead(Msg(np, M)))
    <3>1. End(np, M) - Begun(np, M) = Length(u)
      BY <1>1, <1>5
    <3>2. CASE Length(u) = Length(m)
      BY <1>1, <3>1, <3>2
    <3>3. CASE Length(u) = Length(m) - 1 /\ r # 0 /\ Lead(m) = r
      BY <1>1, <1>2, <1>4, <3>1, <3>3
    <3> QED BY <3>2, <3>3
  <2>4. ASSUME NEW j \in 1 .. M, NEW i \in 1 .. j - 1 PROVE End(np, i) <= Begun(np, j)
    <3>1. i \in 1 .. N /\ End(np, i) = End(pl, i)
      BY <1>1 DEF Grown
    <3>2. CASE j \in 1 .. N
      BY <1>2, <3>1, <3>2 DEF Timed
    <3>3. CASE j = M
      <4>1. End(pl, i) <= n
        <5>1. N \in 1 .. N /\ N # 0
          BY <1>1, <3>1
        <5>2. End(pl, N) = n
          <6>1. n + Length(y) = End(pl, N)
            BY <1>1, <5>1 DEF Coming
          <6> QED BY <6>1
        <5>3. CASE i = N
          BY <5>2, <5>3
        <5>4. CASE i # N
          <6>1. i \in 1 .. N - 1
            BY <1>1, <3>1, <5>4
          <6>2. End(pl, i) <= Begun(pl, N) /\ Begun(pl, N) <= n
                /\ End(pl, i) \in Nat /\ Begun(pl, N) \in Nat
            BY <3>1, <5>1, <6>1 DEF Timed
          <6> QED BY <6>2
        <5> QED BY <5>3, <5>4
      <4> QED BY <1>5, <3>1, <3>3, <4>1
    <3> QED BY <1>1, <3>2, <3>3
  <2>5. \A i \in 1 .. M :
          /\ Complete(Msg(np, i)) /\ End(np, i) \in Nat
          /\ Begun(np, i) \in Nat /\ Begun(np, i) < End(np, i) /\ Begun(np, i) <= n
          /\ \/ End(np, i) - Begun(np, i) = Length(Msg(np, i))
             \/ /\ End(np, i) - Begun(np, i) = Length(Msg(np, i)) - 1
                /\ Lead(Msg(np, i)) < 240 /\ Runs(np, i, Lead(Msg(np, i)))
    <3> SUFFICES ASSUME NEW i \in 1 .. M
                 PROVE  /\ Complete(Msg(np, i)) /\ End(np, i) \in Nat
                        /\ Begun(np, i) \in Nat /\ Begun(np, i) < End(np, i) /\ Begun(np, i) <= n
                        /\ \/ End(np, i) - Begun(np, i) = Length(Msg(np, i))
                           \/ /\ End(np, i) - Begun(np, i) = Length(Msg(np, i)) - 1
                              /\ Lead(Msg(np, i)) < 240 /\ Runs(np, i, Lead(Msg(np, i)))
      OBVIOUS
    <3>1. i \in 1 .. N \/ i = M
      BY <1>1
    <3>2. CASE i \in 1 .. N
      BY <2>1, <3>2
    <3>3. CASE i = M
      BY <2>2, <2>3, <3>3
    <3> QED BY <3>1, <3>2, <3>3
  <2> HIDE DEF M
  <2> QED BY <1>1, <2>4, <2>5 DEF Timed
<1>7. Coming(np, u, n)
  <2>1. ASSUME NEW k \in 1 .. Length(u) PROVE u[k] = ByteOf(np, M, n + k)
    <3>1. Length(m) - (e - (n + k)) = Length(m) - Length(u) + k
      BY <1>3
    <3> QED BY <1>1, <3>1 DEF ByteOf, Place
  <2>2. Num(np) > 0
    BY <1>1
  <2> QED BY <1>1, <2>1, <2>2 DEF Coming
<1>8. OnWire(np, w, n)
  <2>1. ASSUME NEW i \in 1 .. M, NEW p \in 1 .. n, Begun(np, i) < p, p <= End(np, i)
        PROVE  w[p] = ByteOf(np, i, p)
    <3>1. i \in 1 .. N
      <4>1. i # M
        BY <1>5, <2>1
      <4> QED BY <1>1, <4>1
    <3>2. Msg(np, i) = Msg(pl, i) /\ End(np, i) = End(pl, i) /\ Begun(np, i) = Begun(pl, i)
      BY <1>2, <3>1 DEF Grown
    <3>3. ByteOf(np, i, p) = ByteOf(pl, i, p)
      BY <3>2 DEF ByteOf, Place
    <3> QED BY <2>1, <3>1, <3>2, <3>3 DEF OnWire
  <2>2. ASSUME NEW p \in 1 .. n, p <= Begun(np, 1) PROVE w[p] \in Harmless
    <3>1. CASE N = 0
      BY <3>1 DEF OnWire
    <3>2. CASE N # 0
      <4>1. 1 \in 1 .. N
        BY <1>1, <3>2
      <4>2. p <= Begun(pl, 1)
        BY <1>2, <2>2, <4>1
      <4> QED BY <4>2 DEF OnWire
    <3> QED BY <3>1, <3>2
  <2>3. Num(np) # 0
    BY <1>1
  <2> HIDE DEF M
  <2> QED BY <1>1, <2>1, <2>2, <2>3 DEF OnWire
<1> QED BY <1>1, <1>5, <1>6, <1>7, <1>8

(* The running status after it. *)
LEMMA RunsOn ==
  ASSUME NEW pl, NEW np, NEW m, Complete(m), NEW e, NEW r, RunningIs(pl, r),
         Grown(pl, np, m, e),
         NEW q, q = IF Lead(m) < 240 THEN Lead(m) ELSE IF Lead(m) >= 248 THEN r ELSE 0
  PROVE  RunningIs(np, q)
<1> DEFINE M == Num(pl) + 1
<1>1. Num(pl) \in Nat /\ Num(np) = M /\ Msg(np, M) = m /\ M \in 1 .. M
      /\ \A i \in 1 .. Num(pl) : Msg(np, i) = Msg(pl, i)
  BY DEF Grown
<1>2. Lead(m) \in 128 .. 255
  BY Legal
<1>3. CASE Lead(m) < 240
  <2>1. Runs(np, M + 1, Lead(m))
    <3>1. M \in 1 .. (M + 1) - 1 /\ \A k \in M + 1 .. (M + 1) - 1 : FALSE
      BY <1>1
    <3> QED BY <1>1, <3>1 DEF Runs
  <2> QED BY <1>1, <1>2, <1>3, <2>1 DEF RunningIs
<1>4. CASE Lead(m) >= 248
  <2>1. SUFFICES ASSUME r # 0 PROVE r \in 128 .. 239 /\ Runs(np, M + 1, r)
    BY <1>1, <1>2, <1>4 DEF RunningIs
  <2>2. r \in 128 .. 239 /\ Runs(pl, M, r)
    BY <2>1 DEF RunningIs
  <2>3. PICK j \in 1 .. M - 1 : /\ Lead(Msg(pl, j)) = r
                                /\ \A k \in j + 1 .. M - 1 : Lead(Msg(pl, k)) >= 248
    BY <2>2 DEF Runs
  <2>4. j \in 1 .. (M + 1) - 1 /\ Lead(Msg(np, j)) = r
    BY <1>1, <2>3
  <2>5. ASSUME NEW k \in j + 1 .. (M + 1) - 1 PROVE Lead(Msg(np, k)) >= 248
    <3>1. CASE k = M
      BY <1>1, <1>4, <3>1
    <3>2. CASE k # M
      <4>1. k \in j + 1 .. M - 1 /\ k \in 1 .. Num(pl)
        BY <1>1, <2>3, <3>2
      <4> QED BY <1>1, <2>3, <4>1
    <3> QED BY <3>1, <3>2
  <2>6. Runs(np, M + 1, r)
    BY <2>4, <2>5 DEF Runs
  <2> QED BY <2>2, <2>6
<1>5. CASE ~ (Lead(m) < 240) /\ ~ (Lead(m) >= 248)
  BY <1>5 DEF RunningIs
<1> QED BY <1>3, <1>4, <1>5

----------------------------------------------------------------------------
(* MIDIECHO: the parser, after t bytes of the wire.                        *)

(* Message i is being read. *)
Amid(pl, i, t) == Begun(pl, i) < t /\ t < End(pl, i)

Stage(pl, t, x, s, c, d) ==
  /\ \A i \in 1 .. Num(pl) : Amid(pl, i, t) => Inside(Msg(pl, i), Place(pl, i, t), x, s, c, d)
  /\ (\A i \in 1 .. Num(pl) : ~ Amid(pl, i, t)) => Closed(x)
  /\ \A i \in 1 .. Num(pl) : t = End(pl, i) =>
       \A r \in 128 .. 239 : Runs(pl, i + 1, r) => s = OfPart(r) /\ c = 0
  /\ Num(pl) = 0 \/ t <= Begun(pl, 1) => s < 128
StageAt(t) == Stage(played, t, sysex, cv_status, cv_bytecnt, cv_message)

(* Messages follow one another. *)
LEMMA Apart ==
  ASSUME NEW pl, NEW n \in Nat, Timed(pl, n), NEW i \in 1 .. Num(pl), NEW j \in 1 .. Num(pl)
  PROVE  /\ Begun(pl, i) \in Nat /\ End(pl, i) \in Nat /\ Begun(pl, i) < End(pl, i)
         /\ i < j => End(pl, i) <= Begun(pl, j) /\ End(pl, i) < End(pl, j)
         /\ i # 1 => i - 1 \in 1 .. Num(pl) /\ Begun(pl, i) = End(pl, i - 1)
         /\ Begun(pl, 1) <= Begun(pl, i) /\ Begun(pl, 1) \in Nat
<1>1. Num(pl) \in Nat /\ \A k \in 1 .. Num(pl) :
        Begun(pl, k) \in Nat /\ End(pl, k) \in Nat /\ Begun(pl, k) < End(pl, k)
  BY DEF Timed
<1>2. \A a \in 1 .. Num(pl) : \A b \in 1 .. a - 1 : End(pl, b) <= Begun(pl, a)
  BY DEF Timed
<1>3. ASSUME i < j PROVE End(pl, i) <= Begun(pl, j) /\ End(pl, i) < End(pl, j)
  <2>1. i \in 1 .. j - 1
    BY <1>3
  <2>2. End(pl, i) <= Begun(pl, j)
    BY <1>2, <2>1
  <2>3. End(pl, i) \in Nat /\ Begun(pl, j) \in Nat /\ End(pl, j) \in Nat /\ Begun(pl, j) < End(pl, j)
    BY <1>1
  <2> QED BY <2>2, <2>3
<1>4. i # 1 => i - 1 \in 1 .. Num(pl) /\ Begun(pl, i) = End(pl, i - 1)
  BY <1>1 DEF Begun
<1>5. 1 \in 1 .. Num(pl)
  BY <1>1
<1>6. Begun(pl, 1) <= Begun(pl, i)
  <2>1. CASE i = 1
    BY <1>1, <1>5, <2>1
  <2>2. CASE i # 1
    <3>1. 1 \in 1 .. i - 1
      BY <2>2
    <3>2. End(pl, 1) <= Begun(pl, i)
      BY <1>2, <3>1
    <3>3. Begun(pl, 1) < End(pl, 1) /\ Begun(pl, 1) \in Nat /\ End(pl, 1) \in Nat /\ Begun(pl, i) \in Nat
      BY <1>1, <1>5
    <3> QED BY <3>2, <3>3
  <2> QED BY <2>1, <2>2
<1> QED BY <1>1, <1>3, <1>4, <1>5, <1>6

(* The next byte is one of the message the cable was plugged in in, or of  *)
(* message i.                                                              *)
LEMMA WhereNext ==
  ASSUME NEW pl, NEW n \in Nat, Timed(pl, n), NEW u, Coming(pl, u, n), Length(u) \in Nat,
         NEW t \in 0 .. n - 1
  PROVE  \/ Num(pl) = 0 \/ t + 1 <= Begun(pl, 1)
         \/ \E i \in 1 .. Num(pl) : Begun(pl, i) <= t /\ t < End(pl, i)
<1>1. SUFFICES ASSUME Num(pl) # 0, ~ (t + 1 <= Begun(pl, 1))
               PROVE  \E i \in 1 .. Num(pl) : Begun(pl, i) <= t /\ t < End(pl, i)
  OBVIOUS
<1> DEFINE later == {i \in 1 .. Num(pl) : t < End(pl, i)}
<1>2. Num(pl) \in later
  <2>1. n + Length(u) = End(pl, Num(pl))
    BY <1>1 DEF Coming, Timed
  <2>2. Num(pl) \in 1 .. Num(pl)
    BY <1>1 DEF Timed
  <2>3. End(pl, Num(pl)) \in Nat
    BY <2>2 DEF Timed
  <2>4. t < End(pl, Num(pl))
    BY <2>1, <2>3
  <2> QED BY <2>2, <2>4
<1>3. later \in SUBSET Nat
  OBVIOUS
<1>4. PICK i \in later : \A j \in later : i <= j
  <2> HIDE DEF later
  <2> QED BY <1>2, <1>3, LowestMember
<1>5. i \in 1 .. Num(pl) /\ t < End(pl, i)
  BY <1>4
<1>6. Begun(pl, i) <= t
  <2>1. CASE i = 1
    <3>1. Begun(pl, 1) \in Nat
      BY <1>5, <2>1, Apart
    <3> QED BY <1>1, <2>1, <3>1
  <2>2. CASE i # 1
    <3>1. i - 1 \in 1 .. Num(pl) /\ Begun(pl, i) = End(pl, i - 1)
      BY <1>5, <2>2, Apart
    <3>2. i - 1 \notin later
      BY <1>4, <1>5
    <3>3. ~ (t < End(pl, i - 1)) /\ End(pl, i - 1) \in Nat
      BY <3>1, <3>2, Apart
    <3> QED BY <3>1, <3>3
  <2> QED BY <2>1, <2>2
<1> QED BY <1>5, <1>6

(* The parser is ready for the next byte of message i. *)
LEMMA ReadyFor ==
  ASSUME NEW n \in Nat, Timed(played, n), NEW w, OnWire(played, w, n), NEW t \in 0 .. n - 1,
         StageAt(t), watch_queue = w[t + 1],
         NEW i \in 1 .. Num(played), Begun(played, i) <= t, t < End(played, i)
  PROVE  /\ Place(played, i, t + 1) \in Nat
         /\ Reads(Msg(played, i), Place(played, i, t + 1))
         /\ Place(played, i, t + 1) = Length(Msg(played, i)) <=> t + 1 = End(played, i)
         /\ Place(played, i, t + 1) = 1 => Begun(played, i) = t
<1> DEFINE m == Msg(played, i)
           q == Place(played, i, t + 1)
           b == Begun(played, i)
           e == End(played, i)
<1>1. Complete(m) /\ b \in Nat /\ e \in Nat /\ b < e
      /\ \/ e - b = Length(m)
         \/ e - b = Length(m) - 1 /\ Lead(m) < 240 /\ Runs(played, i, Lead(m))
  BY DEF Timed
<1>2. Length(m) \in Nat \ {0} /\ Lead(m) \in 128 .. 255
  BY <1>1, Legal
<1>3. q = Length(m) - (e - (t + 1))
  BY DEF Place
<1>4. q \in 1 .. Length(m) /\ (q = Length(m) <=> t + 1 = e) /\ (q = 1 => b = t)
  <2> HIDE DEF m, q, b, e
  <2>1. b <= t /\ t < e
    BY DEF b, e
  <2> QED BY <1>1, <1>2, <1>3, <2>1
<1>5. watch_queue = m[q]
  <2>1. t + 1 \in 1 .. n /\ b < t + 1 /\ t + 1 <= e
    BY <1>1
  <2>2. w[t + 1] = ByteOf(played, i, t + 1)
    BY <2>1 DEF OnWire
  <2> QED BY <2>2 DEF ByteOf
<1>6. \A j \in 1 .. Num(played) : b = t => ~ Amid(played, j, t)
  <2> SUFFICES ASSUME NEW j \in 1 .. Num(played), b = t, Amid(played, j, t) PROVE FALSE
    OBVIOUS
  <2>1. Begun(played, j) < t /\ t < End(played, j)
    BY DEF Amid
  <2>2. /\ i < j => e <= Begun(played, j)
        /\ j < i => End(played, j) <= b
        /\ Begun(played, j) \in Nat /\ End(played, j) \in Nat
    BY Apart
  <2>3. i # j
    BY <1>1, <2>1
  <2> QED BY <1>1, <2>1, <2>2, <2>3
<1>7. b = t => Closed(sysex)
  BY <1>6 DEF StageAt, Stage
<1>8. ASSUME q > 1 PROVE Within(m, q - 1)
  <2>1. q - 1 = Place(played, i, t)
    BY <1>1, <1>2, <1>3 DEF Place
  <2>2. CASE b < t
    <3>1. Amid(played, i, t)
      BY <2>2 DEF Amid
    <3>2. Inside(m, Place(played, i, t), sysex, cv_status, cv_bytecnt, cv_message)
      BY <3>1 DEF StageAt, Stage
    <3> QED BY <2>1, <3>2 DEF Within
  <2>3. CASE b = t
    <3>1. q = 2 /\ Lead(m) \in 128 .. 239 /\ Runs(played, i, Lead(m))
      <4> HIDE DEF m, q, b, e
      <4>1. e - b # Length(m)
        BY <1>1, <1>2, <1>3, <1>8, <2>3
      <4>2. e - b = Length(m) - 1 /\ Lead(m) < 240 /\ Runs(played, i, Lead(m))
        BY <1>1, <4>1
      <4>3. q = 2
        BY <1>1, <1>2, <1>3, <2>3, <4>2
      <4> QED BY <1>2, <4>2, <4>3
    <3>2. i # 1
      <4>1. i = 1 => ~ Runs(played, i, Lead(m))
        BY DEF Runs
      <4> QED BY <3>1, <4>1
    <3>3. i - 1 \in 1 .. Num(played) /\ t = End(played, i - 1) /\ (i - 1) + 1 = i
      BY <2>3, <3>2, Apart
    <3>4. cv_status = OfPart(Lead(m)) /\ cv_bytecnt = 0
      BY <3>1, <3>3 DEF StageAt, Stage
    <3>5. Closed(sysex)
      BY <1>7, <2>3
    <3>6. Within(m, 1)
      <4> HIDE DEF m
      <4> QED BY <3>1, <3>4, <3>5 DEF Within, Inside
    <3> QED BY <3>1, <3>6
  <2> QED BY <1>1, <2>2, <2>3
<1>9. Reads(m, q)
  BY <1>4, <1>5, <1>7, <1>8 DEF Reads
<1> QED BY <1>4, <1>9

(* A byte of message i is read. *)
LEMMA StageOn ==
  ASSUME NEW n \in Nat, Timed(played, n), NEW t \in 0 .. n - 1, StageAt(t), UNCHANGED played,
         NEW i \in 1 .. Num(played), Begun(played, i) <= t, t < End(played, i),
         NEW q \in Nat, q = Place(played, i, t + 1), Parsed(Msg(played, i), q),
         q = Length(Msg(played, i)) <=> t + 1 = End(played, i),
         q = 1 => Begun(played, i) = t, q \in 1 .. Length(Msg(played, i))
  PROVE  StageAt(t + 1)'
<1> DEFINE m == Msg(played, i)
<1>1. Complete(m) /\ Begun(played, i) \in Nat /\ End(played, i) \in Nat
  BY DEF Timed
<1>2. Lead(m) \in 128 .. 255 /\ (Lead(m) >= 248 => Length(m) = 1)
      /\ Length(m) \in Nat
  BY <1>1, Legal
(* No other message is near. *)
<1>3. ASSUME NEW j \in 1 .. Num(played), Amid(played, j, t + 1) \/ t + 1 = End(played, j)
      PROVE  j = i
  <2>1. Begun(played, j) < t + 1 /\ t + 1 <= End(played, j) /\ Begun(played, j) \in Nat
        /\ End(played, j) \in Nat
    <3>1. Begun(played, j) \in Nat /\ End(played, j) \in Nat /\ Begun(played, j) < End(played, j)
      BY Apart
    <3> QED BY <1>3, <3>1 DEF Amid
  <2>2. /\ i < j => End(played, i) <= Begun(played, j)
        /\ j < i => End(played, j) <= Begun(played, i)
    BY Apart
  <2> QED BY <1>1, <2>1, <2>2
<1>4. ASSUME Amid(played, i, t + 1) PROVE Within(m, q)'
  <2>1. q < Length(m)
    <3>1. q # Length(m)
      BY <1>4 DEF Amid
    <3> QED BY <1>2, <3>1
  <2> QED BY <2>1 DEF Parsed
<1>5. t + 1 = End(played, i) => Completed(m)
  BY DEF Parsed
<1>6. Amid(played, i, t + 1) \/ t + 1 = End(played, i)
  <2>1. t + 1 <= End(played, i) /\ Begun(played, i) < t + 1
    BY <1>1
  <2> QED BY <1>1, <2>1 DEF Amid
<1>7. \A j \in 1 .. Num(played) : Amid(played, j, t + 1) =>
        Inside(Msg(played, j), Place(played, j, t + 1), sysex', cv_status', cv_bytecnt', cv_message')
  BY <1>3, <1>4 DEF Within
<1>8. (\A j \in 1 .. Num(played) : ~ Amid(played, j, t + 1)) => Closed(sysex')
  BY <1>5, <1>6 DEF Completed
<1>9. ASSUME NEW j \in 1 .. Num(played), t + 1 = End(played, j),
             NEW r \in 128 .. 239, Runs(played, j + 1, r)
      PROVE  cv_status' = OfPart(r) /\ cv_bytecnt' = 0
  <2>1. j = i /\ Completed(m)
    BY <1>3, <1>5, <1>9
  <2>2. PICK k \in 1 .. (i + 1) - 1 :
          /\ Lead(Msg(played, k)) = r
          /\ \A l \in k + 1 .. (i + 1) - 1 : Lead(Msg(played, l)) >= 248
    BY <1>9, <2>1 DEF Runs
  <2>3. CASE k = i
    <3>1. Lead(m) = r /\ r < 240
      BY <2>2, <2>3
    <3> QED BY <2>1, <3>1 DEF Completed
  <2>4. CASE k # i
    <3>1. i \in k + 1 .. (i + 1) - 1 /\ k \in 1 .. i - 1
      BY <2>2, <2>4
    <3>2. Lead(m) >= 248 /\ Length(m) = 1
      BY <1>2, <2>2, <3>1
    <3>3. cv_status' = cv_status /\ cv_bytecnt' = cv_bytecnt
      BY <2>1, <3>2 DEF Completed
    <3>4. q = 1
      BY <3>2
    <3>5. t = Begun(played, i)
      BY <3>4
    <3>6. i # 1
      BY <3>1
    <3>7. i - 1 \in 1 .. Num(played) /\ t = End(played, i - 1) /\ (i - 1) + 1 = i
      BY <3>5, <3>6, Apart
    <3>8. \A l \in k + 1 .. i - 1 : Lead(Msg(played, l)) >= 248
      BY <2>2
    <3>9. Runs(played, i, r)
      BY <2>2, <3>1, <3>8 DEF Runs
    <3>10. cv_status = OfPart(r) /\ cv_bytecnt = 0
      BY <3>7, <3>9 DEF StageAt, Stage
    <3> QED BY <3>3, <3>10
  <2> QED BY <2>3, <2>4
<1>10. ~ (Num(played) = 0 \/ t + 1 <= Begun(played, 1))
  <2>1. Begun(played, 1) <= Begun(played, i) /\ Begun(played, 1) \in Nat
    BY Apart
  <2> QED BY <1>1, <2>1
<1> HIDE DEF m
<1> QED BY <1>7, <1>8, <1>9, <1>10 DEF StageAt, Stage

(* A byte of the message that was cut is read. *)
LEMMA StageBefore ==
  ASSUME NEW n \in Nat, Timed(played, n), NEW t \in 0 .. n - 1, StageAt(t), UNCHANGED played,
         ParserInv, Num(played) = 0 \/ t + 1 <= Begun(played, 1), watch_queue \in Harmless,
         exclusive_byte \/ status_byte \/ data_byte \/ message
  PROVE  StageAt(t + 1)' /\ sent' = sent
<1>1. ASSUME NEW j \in 1 .. Num(played), NEW s \in {t, t + 1}
      PROVE  ~ Amid(played, j, s) /\ s # End(played, j)
  <2>1. Begun(played, 1) <= Begun(played, j) /\ Begun(played, 1) \in Nat
        /\ Begun(played, j) < End(played, j) /\ Begun(played, j) \in Nat /\ End(played, j) \in Nat
    BY Apart
  <2>2. s <= Begun(played, 1)
    BY <2>1
  <2> QED BY <2>1, <2>2 DEF Amid
<1>2. cv_status < 128 /\ Closed(sysex)
  <2>1. Num(played) = 0 \/ t <= Begun(played, 1)
    <3>1. CASE Num(played) # 0
      <4>1. 1 \in 1 .. Num(played)
        BY <3>1 DEF Timed
      <4>2. Begun(played, 1) \in Nat
        BY <4>1, Apart
      <4> QED BY <4>2
    <3> QED BY <3>1
  <2> QED BY <1>1, <2>1 DEF StageAt, Stage
<1>3. watch_queue \in 0 .. 127 \/ watch_queue \in 241 .. 255
  BY DEF Harmless
<1>4. Closed(sysex') /\ cv_status' < 128 /\ sent' = sent
  <2>1. ~ exclusive_byte
    <3>1. watch_queue # 240
      BY <1>3
    <3> QED BY <1>2, <3>1 DEF exclusive_byte, Closed
  <2>2. CASE status_byte
    <3>1. sysex' = sysex /\ sent' = sent /\ watch_queue \in 241 .. 255
      <4>1. sysex' = sysex /\ sent' = sent /\ watch_queue >= 128
        BY <2>2 DEF status_byte, driver
      <4>2. watch_queue \in 241 .. 255
        BY <1>3, <4>1
      <4> QED BY <4>1, <4>2
    <3>2. CASE watch_queue < 248
      <4> DEFINE b == watch_queue
      <4>1. cv_status' = Part(b) + (IF b >= 240 THEN 0 ELSE (b \div 16) * 16)
        BY <2>2, <3>2 DEF status_byte
      <4>2. b \in 241 .. 255
        BY <3>1
      <4> HIDE DEF b
      <4>3. b % 16 \in 0 .. 15
        BY <4>2
      <4>4. Part(b) \in 0 .. 9
        BY <4>3 DEF Part
      <4>5. cv_status' = Part(b) + 0
        BY <4>1, <4>2
      <4>6. cv_status' < 128
        BY <4>4, <4>5
      <4> QED BY <1>2, <3>1, <4>6
    <3>3. CASE ~ (watch_queue < 248)
      <4>1. cv_status' = cv_status
        BY <2>2, <3>3 DEF status_byte
      <4> QED BY <1>2, <3>1, <4>1
    <3> QED BY <3>2, <3>3
  <2>3. CASE data_byte
    BY <1>2, <2>3 DEF data_byte, driver
  <2>4. ~ message
    <3>1. cv_status \in 0 .. 255
      BY DEF ParserInv, Byte
    <3>2. ~ (cv_status >= 128)
      BY <1>2, <3>1
    <3> QED BY <3>2 DEF message
  <2> QED BY <2>1, <2>2, <2>3, <2>4
<1>5. \A j \in 1 .. Num(played) : ~ Amid(played, j, t + 1) /\ t + 1 # End(played, j)
  BY <1>1
<1> QED BY <1>4, <1>5 DEF StageAt, Stage

(* A message more does not concern the parser yet. *)
LEMMA StageStays ==
  ASSUME NEW np, NEW m, NEW e, Grown(played, np, m, e), NEW n \in Nat, Timed(np, n),
         NEW t \in 0 .. n, StageAt(t), Begun(np, Num(np)) = n, played' = np, UNCHANGED parser
  PROVE  StageAt(t)'
<1>1. /\ Num(played) \in Nat /\ Num(np) = Num(played) + 1
      /\ \A i \in 1 .. Num(played) : Msg(np, i) = Msg(played, i) /\ End(np, i) = End(played, i)
      /\ \A i \in 1 .. Num(played) : Begun(np, i) = Begun(played, i)
      /\ \A i \in 1 .. Num(played) + 1 : \A s : Runs(np, i, s) <=> Runs(played, i, s)
  BY GrownKeeps DEF Grown
<1>2. Num(np) \in 1 .. Num(np)
  BY <1>1
<1>3. ~ Amid(np, Num(np), t) /\ t # End(np, Num(np))
  <2>1. Begun(np, Num(np)) < End(np, Num(np)) /\ End(np, Num(np)) \in Nat
    BY <1>2, Apart
  <2> QED BY <2>1 DEF Amid
<1>4. ASSUME NEW i \in 1 .. Num(np), Amid(np, i, t)
      PROVE  Inside(Msg(np, i), Place(np, i, t), sysex, cv_status, cv_bytecnt, cv_message)
  <2>1. i \in 1 .. Num(played)
    BY <1>1, <1>3, <1>4
  <2>2. Amid(played, i, t)
    BY <1>1, <1>4, <2>1 DEF Amid
  <2>3. Place(np, i, t) = Place(played, i, t) /\ Msg(np, i) = Msg(played, i)
    BY <1>1, <2>1 DEF Place
  <2> QED BY <2>1, <2>2, <2>3 DEF StageAt, Stage
<1>5. ASSUME \A i \in 1 .. Num(np) : ~ Amid(np, i, t) PROVE Closed(sysex)
  <2>1. \A i \in 1 .. Num(played) : ~ Amid(played, i, t)
    <3> SUFFICES ASSUME NEW i \in 1 .. Num(played) PROVE ~ Amid(played, i, t)
      OBVIOUS
    <3>1. i \in 1 .. Num(np) /\ Begun(np, i) = Begun(played, i) /\ End(np, i) = End(played, i)
      BY <1>1
    <3>2. ~ Amid(np, i, t)
      BY <1>5, <3>1
    <3> QED BY <3>1, <3>2 DEF Amid
  <2> QED BY <2>1 DEF StageAt, Stage
<1>6. ASSUME NEW i \in 1 .. Num(np), t = End(np, i), NEW r \in 128 .. 239, Runs(np, i + 1, r)
      PROVE  cv_status = OfPart(r) /\ cv_bytecnt = 0
  <2>1. i \in 1 .. Num(played)
    BY <1>1, <1>3, <1>6
  <2>2. i + 1 \in 1 .. Num(played) + 1
    BY <1>1, <2>1
  <2>3. t = End(played, i) /\ Runs(played, i + 1, r)
    BY <1>1, <1>6, <2>1, <2>2
  <2> QED BY <2>1, <2>3 DEF StageAt, Stage
<1>7. ASSUME t <= Begun(np, 1) PROVE cv_status < 128
  <2>1. CASE Num(played) = 0
    BY <2>1 DEF StageAt, Stage
  <2>2. CASE Num(played) # 0
    <3>1. 1 \in 1 .. Num(played)
      BY <1>1, <2>2
    <3>2. t <= Begun(played, 1)
      BY <1>1, <1>7, <3>1
    <3> QED BY <3>2 DEF StageAt, Stage
  <2> QED BY <2>1, <2>2
<1>8. Num(np) # 0
  BY <1>1
<1>9. Stage(np, t, sysex, cv_status, cv_bytecnt, cv_message)
  BY <1>4, <1>5, <1>6, <1>7, <1>8 DEF Stage
<1> QED BY <1>9 DEF StageAt, parser

(* What was sent, after t bytes. *)
Due(pl, t) == {i \in 1 .. Num(pl) : End(pl, i) <= t /\ Lead(Msg(pl, i)) <= 240}
UpTo(pl, t, k) == {j \in Due(pl, t) : j <= k}
Echoed(pl, t, se) ==
  /\ \E S : se \in Seq(S)
  /\ Len(se) = Cardinality(Due(pl, t))
  /\ \A i \in Due(pl, t) :
       IsPrefix(Outcome(Msg(pl, i)), se[Cardinality(UpTo(pl, t, i))])

LEMMA DueFinite ==
  ASSUME NEW pl, Num(pl) \in Nat, NEW t
  PROVE  IsFiniteSet(Due(pl, t)) /\ Cardinality(Due(pl, t)) \in Nat
<1>1. IsFiniteSet(1 .. Num(pl))
  BY FS_Interval
<1>2. Due(pl, t) \subseteq 1 .. Num(pl)
  BY DEF Due
<1>3. IsFiniteSet(Due(pl, t))
  BY <1>1, <1>2, FS_Subset
<1> QED BY <1>3, FS_CardinalityType

LEMMA OneAppended ==
  ASSUME NEW S, NEW se \in Seq(S), NEW v
  PROVE  /\ \E T : Append(se, v) \in Seq(T)
         /\ Len(Append(se, v)) = Len(se) + 1 /\ Len(se) \in Nat
         /\ \A k \in 1 .. Len(se) : Append(se, v)[k] = se[k]
         /\ Append(se, v)[Len(se) + 1] = v
<1> DEFINE T == S \cup {v}
<1>1. se \in Seq(T) /\ v \in T
  <2>1. S \subseteq T
    OBVIOUS
  <2>2. v \in T
    OBVIOUS
  <2> HIDE DEF T
  <2> QED BY <2>1, <2>2
<1>2. Append(se, v) \in Seq(T)
  <2> HIDE DEF T
  <2> QED BY <1>1
<1> HIDE DEF T
<1>3. /\ Len(Append(se, v)) = Len(se) + 1 /\ Len(se) \in Nat
      /\ \A k \in 1 .. Len(se) : Append(se, v)[k] = se[k]
      /\ Append(se, v)[Len(se) + 1] = v
  BY <1>1
<1> QED BY <1>2, <1>3

(* The message i is complete, and was sent. *)
LEMMA EchoOne ==
  ASSUME NEW pl, NEW n \in Nat, Timed(pl, n), NEW t \in Nat, NEW se, NEW ne, NEW v,
         Echoed(pl, t, se), NEW i \in 1 .. Num(pl), End(pl, i) = t + 1, Lead(Msg(pl, i)) <= 240,
         ne = Append(se, v), IsPrefix(Outcome(Msg(pl, i)), v)
  PROVE  Echoed(pl, t + 1, ne)
<1> DEFINE D == Due(pl, t)
           E == Due(pl, t + 1)
<1>1. \A j \in 1 .. Num(pl) : End(pl, j) \in Nat
  BY DEF Timed
<1>2. \A j \in 1 .. Num(pl) : End(pl, j) <= t => j < i
  <2> SUFFICES ASSUME NEW j \in 1 .. Num(pl), End(pl, j) <= t PROVE j < i
    OBVIOUS
  <2>1. i < j => End(pl, i) < End(pl, j)
    BY Apart
  <2> QED BY <1>1, <2>1
<1>3. \A j \in 1 .. Num(pl) : End(pl, j) = t + 1 => j = i
  <2> SUFFICES ASSUME NEW j \in 1 .. Num(pl), End(pl, j) = t + 1 PROVE j = i
    OBVIOUS
  <2>1. (i < j => End(pl, i) < End(pl, j)) /\ (j < i => End(pl, j) < End(pl, i))
    BY Apart
  <2> QED BY <2>1
<1>4. E = D \cup {i} /\ i \notin D /\ \A j \in D : j \in Nat /\ j < i
  <2>1. \A j \in 1 .. Num(pl) : End(pl, j) <= t + 1 <=> End(pl, j) <= t \/ j = i
    BY <1>1, <1>3
  <2>2. \A j \in D : j \in 1 .. Num(pl) /\ j < i
    BY <1>2 DEF Due
  <2>3. i \notin D
    BY <1>1 DEF Due
  <2> QED BY <2>1, <2>2, <2>3 DEF Due
<1>5. IsFiniteSet(D) /\ Cardinality(D) \in Nat
  BY DueFinite DEF Timed
<1>6. Cardinality(E) = Cardinality(D) + 1
  <2> HIDE DEF D, E
  <2> QED BY <1>4, <1>5, FS_AddElement
<1>7. \A k \in D : UpTo(pl, t + 1, k) = UpTo(pl, t, k)
  BY <1>4 DEF UpTo
<1>8. UpTo(pl, t + 1, i) = E
  BY <1>4 DEF UpTo
<1>9. PICK S : se \in Seq(S)
  BY DEF Echoed
<1>10. Len(se) = Cardinality(D)
  BY DEF Echoed
<1>11. /\ \E T : ne \in Seq(T)
       /\ Len(ne) = Len(se) + 1
       /\ \A k \in 1 .. Len(se) : ne[k] = se[k]
       /\ ne[Len(se) + 1] = v
  <2>1. /\ \E T : Append(se, v) \in Seq(T)
        /\ Len(Append(se, v)) = Len(se) + 1
        /\ \A k \in 1 .. Len(se) : Append(se, v)[k] = se[k]
        /\ Append(se, v)[Len(se) + 1] = v
    BY <1>9, OneAppended, ZenonT(60)
  <2> QED BY <2>1, Zenon
<1>12. ASSUME NEW k \in D PROVE Cardinality(UpTo(pl, t, k)) \in 1 .. Len(se)
  <2> DEFINE F == UpTo(pl, t, k)
  <2>1. F \subseteq D /\ k \in F
    BY <1>4 DEF UpTo
  <2> HIDE DEF D, F
  <2>2. IsFiniteSet(F) /\ Cardinality(F) <= Cardinality(D)
    BY <1>5, <2>1, FS_Subset
  <2>3. Cardinality(F) \in Nat /\ Cardinality(F) # 0
    BY <2>1, <2>2, FS_CardinalityType, FS_EmptySet
  <2>4. Cardinality(F) \in 1 .. Len(se)
    BY <1>5, <1>10, <2>2, <2>3
  <2> QED BY <2>4 DEF F
<1>13. ASSUME NEW k \in E
       PROVE  IsPrefix(Outcome(Msg(pl, k)), ne[Cardinality(UpTo(pl, t + 1, k))])
  <2>1. CASE k = i
    <3>1. Cardinality(UpTo(pl, t + 1, k)) = Len(se) + 1
      BY <1>6, <1>8, <1>10, <2>1
    <3> QED BY <1>11, <2>1, <3>1
  <2>2. CASE k \in D
    <3>1. UpTo(pl, t + 1, k) = UpTo(pl, t, k) /\ Cardinality(UpTo(pl, t, k)) \in 1 .. Len(se)
      BY <1>7, <1>12, <2>2
    <3>2. IsPrefix(Outcome(Msg(pl, k)), se[Cardinality(UpTo(pl, t, k))])
      BY <2>2 DEF Echoed
    <3> QED BY <1>11, <3>1, <3>2
  <2> QED BY <1>4, <2>1, <2>2
<1>14. Len(ne) = Cardinality(E)
  BY <1>6, <1>10, <1>11
<1> QED BY <1>11, <1>13, <1>14 DEF Echoed

(* Nothing is due. *)
LEMMA EchoNone ==
  ASSUME NEW pl, NEW np, NEW t, NEW s, NEW se, Echoed(pl, t, se), Due(np, s) = Due(pl, t),
         \A i \in Due(pl, t) : Msg(np, i) = Msg(pl, i)
  PROVE  Echoed(np, s, se)
  BY DEF Echoed, UpTo

----------------------------------------------------------------------------
(* MIDIECHO: from the instrument to the driver.                            *)

(* What is in the ring, what was sent, played and begun, and where the     *)
(* parser stands, fit one stream of bytes w, unless the ring was once full.*)
FitsWire(w) ==
  /\ Carries(w) /\ Timed(played, arrived) /\ OnWire(played, w, arrived)
  /\ Coming(played, sending, arrived) /\ RunningIs(played, running)
  /\ StageAt(arrived - Unread) /\ Echoed(played, arrived - Unread, sent)
StreamInv ==
  /\ arrived \in Nat /\ played \in Plays
  /\ ~ overrun => \E w : FitsWire(w)

(* The rest of a message. *)
LEMMA RestOf ==
  ASSUME NEW u \in Seq(Byte), u # <<>>
  PROVE  /\ Length(u) \in Nat \ {0} /\ Length(Tail(u)) = Length(u) - 1
         /\ u[1] \in Byte
         /\ \A k \in 1 .. Length(Tail(u)) : Tail(u)[k] = u[k + 1]
<1> DEFINE B == Byte
<1>1. u \in Seq(B)
  OBVIOUS
<1> HIDE DEF B
<1>2. Len(u) \in Nat /\ Len(u) # 0 /\ Len(Tail(u)) = Len(u) - 1 /\ u[1] \in B
      /\ \A k \in 1 .. Len(Tail(u)) : Tail(u)[k] = u[k + 1]
  BY <1>1
<1> QED BY <1>2 DEF Length, B

(* A message begins. *)
LEMMA WireBegun ==
  ASSUME NEW pl, NEW np, NEW m, Complete(m), NEW n \in Nat, NEW w, NEW u, NEW y, NEW r,
         Timed(pl, n), OnWire(pl, w, n), Coming(pl, y, n), Length(y) = 0, RunningIs(pl, r),
         Grown(pl, np, m, n + Length(u)), Length(u) \in Nat \ {0},
         u = m \/ (u = Tail(m) /\ r # 0 /\ Lead(m) = r)
  PROVE  Timed(np, n) /\ OnWire(np, w, n) /\ Coming(np, u, n) /\ Begun(np, Num(np)) = n
<1>1. /\ Length(u) <= Length(m)
      /\ \A k \in 1 .. Length(u) : u[k] = m[Length(m) - Length(u) + k]
      /\ \/ Length(u) = Length(m)
         \/ Length(u) = Length(m) - 1 /\ r # 0 /\ Lead(m) = r
  <2>1. m \in Seq(Byte) /\ m # <<>>
    BY DEF Complete
  <2>2. Length(m) \in Nat
    BY Legal
  <2>3. CASE u = m
    BY <2>2, <2>3
  <2>4. CASE u = Tail(m) /\ r # 0 /\ Lead(m) = r
    <3>1. Length(u) = Length(m) - 1 /\ \A k \in 1 .. Length(u) : u[k] = m[k + 1]
      BY <2>1, <2>4, RestOf
    <3>2. \A k \in 1 .. Length(u) : u[k] = m[Length(m) - Length(u) + k]
      <4>1. Length(m) - Length(u) = 1
        BY <2>2, <3>1
      <4> QED BY <3>1, <4>1
    <3>3. Length(u) = Length(m) - 1
      BY <3>1
    <3>4. Length(u) <= Length(m)
      BY <2>2, <3>3
    <3> QED BY <2>4, <3>2, <3>3, <3>4
  <2> QED BY <2>3, <2>4
<1> QED BY <1>1, OneBegun

(* What is sent next. *)
LEMMA SentNext ==
  ASSUME NEW M, \A m \in M : Complete(m), sending \in Seq(Byte), running \in 0 .. 239,
         NEW s \in NextBytes(M)
  PROVE  /\ s[1] \in Seq(Byte) /\ s[1] # <<>>
         /\ s[2] = <<>> => s[1] = sending
         /\ s[2] # <<>> =>
              /\ s[2] \in M /\ Length(sending) = 0
              /\ \/ s[1] = s[2]
                 \/ s[1] = Tail(s[2]) /\ running # 0 /\ Lead(s[2]) = running
<1>1. s[1] \in Seq(Byte) /\ s[1] # <<>> /\ (s[2] # <<>> => s[2] \in M)
  BY SentBytes
<1>2. \A m \in M : m # <<>>
  BY DEF Complete
<1>3. CASE sending # <<>>
  <2>1. s = <<sending, <<>> >>
    BY <1>3 DEF NextBytes
  <2> QED BY <1>1, <2>1
<1>4. CASE sending = <<>>
  <2>1. Length(sending) = 0
    BY <1>4 DEF Length
  <2>2. s \in {<<m, m>> : m \in M}
              \cup {<<Tail(m), m>> : m \in {x \in M : running # 0 /\ x[1] = running}}
    BY <1>4 DEF NextBytes
  <2>3. s[2] \in M /\
          \/ s[1] = s[2]
          \/ s[1] = Tail(s[2]) /\ running # 0 /\ s[2][1] = running
    <3>1. CASE s \in {<<m, m>> : m \in M}
      BY <3>1
    <3>2. CASE s \in {<<Tail(m), m>> : m \in {x \in M : running # 0 /\ x[1] = running}}
      <4>1. PICK m \in M : s = <<Tail(m), m>> /\ running # 0 /\ m[1] = running
        BY <3>2
      <4>2. s[1] = Tail(m) /\ s[2] = m
        BY <4>1
      <4> QED BY <4>1, <4>2
    <3> QED BY <2>2, <3>1, <3>2
  <2>4. s[2] # <<>>
    BY <1>2, <2>3
  <2> QED BY <1>1, <2>1, <2>3, <2>4 DEF Lead
<1> QED BY <1>3, <1>4

LEMMA TaleTakes ==
  ASSUME WireInv, StreamInv, MIDIECHO_isr
  PROVE  StreamInv'
<1>1. PICK s \in NextBytes(EchoMessages) :
        /\ sending' = Tail(s[1]) /\ write_queue(s[1][1]) /\ arrived' = arrived + 1
        /\ running' = IF s[2] = <<>> THEN running
                      ELSE IF s[2][1] < 240 THEN s[2][1]
                      ELSE IF s[2][1] >= 248 THEN running ELSE 0
        /\ played' = IF s[2] = <<>> THEN played
                     ELSE Append(played, [bytes |-> s[2], upto |-> arrived + Len(s[1])])
  BY DEF MIDIECHO_isr
<1>2. UNCHANGED parser /\ sent' = sent
  BY DEF MIDIECHO_isr, driver
<1> DEFINE u == s[1]
           m == s[2]
           x == Tail(s[1])
<1>3. /\ u \in Seq(Byte) /\ u # <<>>
      /\ m = <<>> => u = sending
      /\ m # <<>> => /\ m \in EchoMessages /\ Length(sending) = 0
                     /\ u = m \/ (u = Tail(m) /\ running # 0 /\ Lead(m) = running)
  BY SentNext, InstrumentAssumption DEF WireInv
<1>4. /\ Length(u) \in Nat \ {0} /\ Length(x) = Length(u) - 1 /\ u[1] \in Byte
      /\ \A k \in 1 .. Length(x) : x[k] = u[k + 1]
  BY <1>3, RestOf
<1>5. arrived \in Nat /\ played \in Plays
  BY DEF StreamInv
<1>6. played' = IF m = <<>> THEN played
                ELSE Append(played, [bytes |-> m, upto |-> arrived + Length(u)])
  BY <1>1 DEF Length
<1>7. running' = IF m = <<>> THEN running
                 ELSE IF Lead(m) < 240 THEN Lead(m)
                 ELSE IF Lead(m) >= 248 THEN running ELSE 0
  BY <1>1 DEF Lead
<1>8. write_queue(u[1]) /\ arrived' = arrived + 1 /\ sending' = x
  BY <1>1
<1>9. m # <<>> => played' \in Plays /\ Grown(played, played', m, arrived + Length(u))
  <2> HIDE DEF u, m
  <2>1. arrived + Length(u) \in Nat
    BY <1>4, <1>5
  <2> QED BY <1>3, <1>5, <1>6, <2>1, Appended
<1>10. arrived' \in Nat /\ played' \in Plays
  BY <1>5, <1>6, <1>8, <1>9
<1> SUFFICES ASSUME ~ overrun' PROVE \E w : FitsWire(w)'
  BY <1>10 DEF StreamInv
<1>11. ~ overrun
  BY <1>8 DEF write_queue
<1>12. PICK w : FitsWire(w)
  BY <1>11 DEF StreamInv
<1> PICK v : v = [i \in 1 .. arrived + 1 |-> IF i = arrived + 1 THEN u[1] ELSE w[i]]
  OBVIOUS
<1> PICK t : t = arrived - Unread
  OBVIOUS
<1>13. Unread' = Unread + 1 /\ Carries(v)'
  <2>1. Carries(w)
    BY <1>12 DEF FitsWire
  <2> HIDE DEF u, m
  <2> QED BY <1>4, <1>5, <1>8, <2>1, RingTakes DEF WireInv
<1>14. t \in 0 .. arrived /\ arrived' - Unread' = t
  <2>1. Unread \in Nat
    BY UnreadIs, RingAssumption DEF WireInv
  <2>2. Unread <= arrived
    BY <1>12 DEF FitsWire, Carries
  <2> QED BY <1>5, <1>8, <1>13, <2>1, <2>2
<1>15. /\ Timed(played, arrived) /\ OnWire(played, w, arrived)
       /\ Coming(played, sending, arrived) /\ RunningIs(played, running)
       /\ StageAt(t) /\ Echoed(played, t, sent)
  BY <1>12 DEF FitsWire
<1>16. /\ Timed(played', arrived) /\ OnWire(played', w, arrived) /\ Coming(played', u, arrived)
       /\ RunningIs(played', running') /\ StageAt(t)' /\ Echoed(played', t, sent)
  <2>1. CASE m = <<>>
    <3>1. u = sending /\ played' = played /\ running' = running
      BY <1>3, <1>6, <1>7, <2>1
    <3>2. StageAt(t)'
      <4> HIDE DEF u, m, x
      <4> QED BY <1>2, <1>15, <3>1 DEF StageAt, parser
    <3> HIDE DEF u, m
    <3> QED BY <1>15, <3>1, <3>2
  <2>2. CASE m # <<>>
    <3>1. Complete(m) /\ Grown(played, played', m, arrived + Length(u)) /\ Length(sending) = 0
      BY <1>3, <1>9, <2>2, InstrumentAssumption
    <3>2. Timed(played', arrived) /\ OnWire(played', w, arrived) /\ Coming(played', u, arrived)
          /\ Begun(played', Num(played')) = arrived
      <4> HIDE DEF u, m, x
      <4> QED BY <1>3, <1>4, <1>5, <1>15, <2>2, <3>1, WireBegun
    <3>3. RunningIs(played', running')
      <4> HIDE DEF u, m, x
      <4> QED BY <1>7, <1>15, <2>2, <3>1, RunsOn
    <3>4. StageAt(t)'
      <4> HIDE DEF u, m, x
      <4> QED BY <1>2, <1>5, <1>14, <1>15, <3>1, <3>2, StageStays
    <3>5. Echoed(played', t, sent)
      <4> DEFINE np == played'
      <4>1. /\ Num(played) \in Nat /\ Num(np) = Num(played) + 1
            /\ \A i \in 1 .. Num(played) : Msg(np, i) = Msg(played, i) /\ End(np, i) = End(played, i)
        BY <3>1 DEF Grown
      <4>2. ~ (End(np, Num(np)) <= t)
        <5>1. Num(np) \in 1 .. Num(np)
          BY <4>1
        <5>2. arrived < End(np, Num(np)) /\ End(np, Num(np)) \in Nat
          BY <1>5, <3>2, <5>1, Apart
        <5> HIDE DEF np
        <5> QED BY <1>5, <1>14, <5>2
      <4>3. Due(np, t) = Due(played, t)
        <5> HIDE DEF np
        <5>1. \A i : i \in 1 .. Num(np) <=> i \in 1 .. Num(played) \/ i = Num(np)
          BY <4>1
        <5>2. \A i \in 1 .. Num(played) : i # Num(np)
          BY <4>1
        <5> QED BY <4>1, <4>2, <5>1, <5>2 DEF Due
      <4>4. \A i \in Due(played, t) : Msg(np, i) = Msg(played, i)
        BY <4>1 DEF Due
      <4> HIDE DEF np
      <4>5. Echoed(np, t, sent)
        BY <1>15, <4>3, <4>4, EchoNone
      <4> QED BY <4>5 DEF np
    <3> QED BY <3>2, <3>3, <3>4, <3>5
  <2> QED BY <2>1, <2>2
<1>17. Timed(played', arrived + 1) /\ OnWire(played', v, arrived + 1)
       /\ Coming(played', x, arrived + 1)
  <2> HIDE DEF u, m, x
  <2> QED BY <1>4, <1>5, <1>16, OneSent
<1>18. FitsWire(v)'
  <2> HIDE DEF u, m, x
  <2>1. StageAt(arrived - Unread)'
    BY <1>14, <1>16 DEF StageAt
  <2>2. Echoed(played', arrived' - Unread', sent')
    BY <1>2, <1>14, <1>16
  <2> QED BY <1>8, <1>13, <1>16, <1>17, <2>1, <2>2 DEF FitsWire
<1> QED BY <1>18

(* The main loop reads a byte. *)
LEMMA TaleGives ==
  ASSUME WireInv, ParserInv, StreamInv,
         exclusive_byte \/ status_byte \/ data_byte \/ message
  PROVE  StreamInv'
<1>1. NextByte /\ UNCHANGED device
  BY DEF exclusive_byte, status_byte, data_byte, message
<1>2. sending' = sending /\ running' = running /\ arrived' = arrived /\ played' = played
  BY <1>1 DEF device
<1>3. overrun' = overrun
  BY <1>1 DEF NextByte, read_queue
<1>4. arrived \in Nat /\ played \in Plays
  BY DEF StreamInv
<1> SUFFICES ASSUME ~ overrun PROVE \E w : FitsWire(w)'
  BY <1>2, <1>3, <1>4 DEF StreamInv
<1>5. PICK w : FitsWire(w)
  BY DEF StreamInv
<1> PICK t : t = arrived - Unread
  OBVIOUS
<1>6. /\ Carries(w) /\ Timed(played, arrived) /\ OnWire(played, w, arrived)
      /\ Coming(played, sending, arrived) /\ RunningIs(played, running)
      /\ StageAt(t) /\ Echoed(played, t, sent)
  BY <1>5 DEF FitsWire
<1>7. Unread' = Unread - 1 /\ Carries(w)' /\ Unread \in 1 .. arrived
      /\ watch_queue = w[arrived - Unread + 1]
  BY <1>1, <1>2, <1>4, <1>6, RingGives DEF WireInv
<1>8. t \in 0 .. arrived - 1 /\ t \in Nat /\ t + 1 \in 1 .. arrived
      /\ arrived' - Unread' = t + 1 /\ watch_queue = w[t + 1]
  BY <1>2, <1>4, <1>7
<1>9. StageAt(t + 1)' /\ Echoed(played, t + 1, sent')
  <2>1. Length(sending) \in Nat
    <3>1. sending \in Seq(Byte)
      BY DEF WireInv
    <3> QED BY <3>1 DEF Length
  <2>2. CASE Num(played) = 0 \/ t + 1 <= Begun(played, 1)
    <3>1. watch_queue \in Harmless
      BY <1>6, <1>8, <2>2 DEF OnWire
    <3>2. StageAt(t + 1)' /\ sent' = sent
      BY <1>2, <1>4, <1>6, <1>8, <2>2, <3>1, StageBefore
    <3>3. Due(played, t + 1) = Due(played, t)
      <4>1. ASSUME NEW i \in 1 .. Num(played) PROVE ~ (End(played, i) <= t + 1) /\ ~ (End(played, i) <= t)
        <5>1. /\ Begun(played, i) \in Nat /\ End(played, i) \in Nat
              /\ Begun(played, i) < End(played, i) /\ Begun(played, 1) <= Begun(played, i)
              /\ Begun(played, 1) \in Nat
          BY <1>4, <1>6, Apart
        <5>2. Num(played) # 0
          BY <1>6 DEF Timed
        <5> QED BY <1>8, <2>2, <5>1, <5>2
      <4> QED BY <4>1 DEF Due
    <3>4. Echoed(played, t + 1, sent)
      BY <1>6, <3>3, EchoNone
    <3> QED BY <3>2, <3>4
  <2>3. ASSUME NEW i \in 1 .. Num(played), Begun(played, i) <= t, t < End(played, i)
        PROVE  StageAt(t + 1)' /\ Echoed(played, t + 1, sent')
    <3> PICK q : q = Place(played, i, t + 1)
      OBVIOUS
    <3> PICK m : m = Msg(played, i)
      OBVIOUS
    <3>1. /\ q \in Nat /\ Reads(m, q)
          /\ q = Length(m) <=> t + 1 = End(played, i)
          /\ q = 1 => Begun(played, i) = t
      BY <1>4, <1>6, <1>8, <2>3, ReadyFor
    <3>2. Complete(m)
      BY <1>6 DEF Timed
    <3>3. Parsed(m, q)
      BY <3>1, <3>2, ExclusiveParsed, StatusParsed, DataParsed, MessageParsed
    <3>4. q \in 1 .. Length(m)
      BY <3>1 DEF Reads
    <3>5. StageAt(t + 1)'
      BY <1>2, <1>4, <1>6, <1>8, <2>3, <3>1, <3>3, <3>4, StageOn
    <3>6. \A j \in 1 .. Num(played) :
            End(played, j) <= t + 1
              <=> End(played, j) <= t \/ (j = i /\ t + 1 = End(played, i))
      <4> SUFFICES ASSUME NEW j \in 1 .. Num(played)
                   PROVE  End(played, j) <= t + 1 <=> End(played, j) <= t \/ (j = i /\ t + 1 = End(played, i))
        OBVIOUS
      <4>1. CASE j = i
        <5>1. End(played, i) \in Nat
          BY <1>4, <1>6, Apart
        <5> QED BY <1>8, <2>3, <4>1, <5>1
      <4>2. CASE j < i
        <5>1. End(played, j) <= Begun(played, i) /\ End(played, j) \in Nat /\ Begun(played, i) \in Nat
          BY <1>4, <1>6, <4>2, Apart
        <5> QED BY <1>8, <2>3, <4>2, <5>1
      <4>3. CASE i < j
        <5>1. End(played, i) < End(played, j) /\ End(played, j) \in Nat /\ End(played, i) \in Nat
          BY <1>4, <1>6, <4>3, Apart
        <5> QED BY <1>8, <2>3, <4>3, <5>1
      <4>4. j < i \/ j = i \/ i < j
        BY <1>6 DEF Timed
      <4> QED BY <4>1, <4>2, <4>3, <4>4
    <3>7. CASE t + 1 = End(played, i) /\ Lead(m) <= 240
      <4>1. \E v : sent' = Append(sent, v) /\ IsPrefix(Outcome(m), v)
        BY <3>1, <3>3, <3>7 DEF Parsed, Completed
      <4>2. PICK v : sent' = Append(sent, v) /\ IsPrefix(Outcome(m), v)
        BY <4>1
      <4>3. Echoed(played, t + 1, sent')
        BY <1>4, <1>6, <1>8, <3>7, <4>2, EchoOne
      <4> QED BY <3>5, <4>3
    <3>8. CASE ~ (t + 1 = End(played, i) /\ Lead(m) <= 240)
      <4>1. sent' = sent
        <5>1. CASE q = Length(m)
          <6>1. Lead(m) \in 128 .. 255
            BY <3>2, Legal
          <6>2. Lead(m) > 240
            BY <3>1, <3>8, <5>1, <6>1
          <6> QED BY <3>3, <5>1, <6>2 DEF Parsed, Completed
        <5>2. CASE q # Length(m)
          <6>1. Length(m) \in Nat
            BY <3>2, Legal
          <6>2. q < Length(m)
            BY <3>4, <5>2, <6>1
          <6> QED BY <3>3, <6>2 DEF Parsed
        <5> QED BY <5>1, <5>2
      <4>2. Due(played, t + 1) = Due(played, t)
        BY <3>6, <3>8 DEF Due
      <4>3. Echoed(played, t + 1, sent)
        BY <1>6, <4>2, EchoNone
      <4> QED BY <3>5, <4>1, <4>3
    <3> QED BY <3>7, <3>8
  <2>4. \/ Num(played) = 0 \/ t + 1 <= Begun(played, 1)
        \/ \E i \in 1 .. Num(played) : Begun(played, i) <= t /\ t < End(played, i)
    BY <1>4, <1>6, <1>8, <2>1, WhereNext
  <2> QED BY <2>2, <2>3, <2>4
<1>10. FitsWire(w)'
  <2>1. StageAt(arrived - Unread)'
    BY <1>8, <1>9 DEF StageAt
  <2>2. Echoed(played', arrived' - Unread', sent')
    BY <1>2, <1>8, <1>9
  <2> QED BY <1>2, <1>6, <1>7, <2>1, <2>2 DEF FitsWire
<1> QED BY <1>10

LEMMA BehindLead ==
  ASSUME NEW m, Complete(m), NEW k \in 2 .. Length(m)
  PROVE  m[k] \in Harmless
<1> PICK b : b = m[k]
  OBVIOUS
<1>1. Length(m) \in Nat
  BY Legal
<1>2. k \in 1 .. Length(m)
  BY <1>1
<1>3. b \in 0 .. 255 /\ (b < 128 \/ b >= 248 \/ b = 247)
  BY <1>2, Legal
<1>4. b \in 0 .. 127 \/ b \in 241 .. 255
  BY <1>3
<1> QED BY <1>4 DEF Harmless

(* Nothing was sent yet, but the rest of a message may come. *)
LEMMA TaleBegins ==
  ASSUME init_queue, EchoPlugged, sysex = <<>>, cv_status = 0, sent = <<>>
  PROVE  StreamInv
<1>1. arrived = 0 /\ played = <<>> /\ running = 0 /\ head = 0 /\ tail = 0
  BY DEF EchoPlugged, Plugged, init_queue
<1>2. Num(played) = 0 /\ played \in Plays /\ arrived \in Nat
  BY <1>1 DEF Num, Plays
<1>3. Unread = 0
  BY <1>1, RingAssumption DEF Unread
<1> PICK w : w = [i \in 1 .. 0 |-> 0]
  OBVIOUS
<1>4. Carries(w)
  BY <1>1, <1>3 DEF Carries
<1>5. Timed(played, arrived) /\ OnWire(played, w, arrived) /\ RunningIs(played, running)
  BY <1>1, <1>2 DEF Timed, OnWire, RunningIs
<1>6. Coming(played, sending, arrived)
  <2>1. SUFFICES ASSUME NEW k \in 1 .. Length(sending) PROVE sending[k] \in Harmless
    BY <1>2 DEF Coming
  <2>2. CASE sending = <<>>
    BY <2>1, <2>2 DEF Length
  <2>3. ASSUME NEW m \in EchoMessages, sending = Tail(m) PROVE sending[k] \in Harmless
    <3>1. Complete(m) /\ m \in Seq(Byte) /\ m # <<>>
      BY InstrumentAssumption DEF Complete
    <3>2. Length(sending) = Length(m) - 1 /\ sending[k] = m[k + 1]
      BY <2>1, <2>3, <3>1, RestOf
    <3>3. Length(m) \in Nat
      BY <3>1, Legal
    <3>4. k + 1 \in 2 .. Length(m)
      BY <2>1, <3>2, <3>3
    <3> QED BY <3>1, <3>2, <3>4, BehindLead
  <2> QED BY <2>2, <2>3 DEF EchoPlugged, Plugged
<1>7. StageAt(arrived - Unread)
  BY <1>1, <1>2, <1>3 DEF StageAt, Stage, Closed
<1>8. Echoed(played, arrived - Unread, sent)
  <2>1. Due(played, arrived - Unread) = {}
    BY <1>2 DEF Due
  <2>2. sent \in Seq({}) /\ Len(sent) = 0 /\ Cardinality({}) = 0
    BY FS_EmptySet
  <2> QED BY <2>1, <2>2 DEF Echoed
<1>9. FitsWire(w)
  BY <1>4, <1>5, <1>6, <1>7, <1>8 DEF FitsWire
<1> QED BY <1>2, <1>9 DEF StreamInv

(* What was read from the ring was passed on. *)
LEMMA TaleTold ==
  ASSUME WireInv, StreamInv
  PROVE  EchoedAsPlayed
<1> SUFFICES ASSUME ~ overrun, ~ broken
             PROVE  /\ Len(sent) = Cardinality(Forwarded)
                    /\ \A i \in Forwarded :
                         IsPrefix(Outcome(played[i].bytes), sent[Cardinality({j \in Forwarded : j <= i})])
  BY DEF EchoedAsPlayed
<1>1. PICK w : FitsWire(w)
  BY DEF StreamInv
<1> PICK t : t = arrived - Unread
  OBVIOUS
<1>2. Echoed(played, t, sent)
  BY <1>1 DEF FitsWire
<1>3. Forwarded = Due(played, t)
  <2>1. Len(Pending) = Unread
    BY UnreadIs DEF WireInv
  <2>2. DOMAIN played = 1 .. Num(played)
    BY DEF StreamInv, Plays, Num
  <2> QED BY <2>1, <2>2 DEF Forwarded, Due, End, Msg, Lead
<1>4. \A i \in Forwarded : {j \in Forwarded : j <= i} = UpTo(played, t, i)
  BY <1>3 DEF UpTo
<1> QED BY <1>2, <1>3, <1>4 DEF Echoed, Msg

(* Only MIDIECHO's own steps, and none of the other tools, move its bytes. *)
LEMMA NextTale ==
  ASSUME EchoInv, tool = "MIDIECHO" => StreamInv, [Next]_toolvars
  PROVE  tool' = "MIDIECHO" => StreamInv'
<1> SUFFICES ASSUME tool' = "MIDIECHO" PROVE StreamInv'
  OBVIOUS
<1>1. tool = "MIDIECHO"
  BY EchoSteps
<1>2. WireInv /\ ParserInv /\ StreamInv
  BY <1>1 DEF EchoInv
<1>3. CASE EchoStep
  BY <1>2, <1>3, TaleTakes, TaleGives DEF EchoStep
<1>4. CASE UNCHANGED <<cable, echovars>>
  <2>1. /\ UNCHANGED <<queue, head, tail, overrun, sending, running, arrived, played>>
        /\ UNCHANGED <<sysex, cv_status, cv_bytecnt, cv_message, sent>>
    BY <1>4 DEF cable, ring, device, echovars, parser, driver
  <2>2. Unread' = Unread
    BY <2>1 DEF Unread
  <2>3. \A w : FitsWire(w) => FitsWire(w)'
    BY <2>1, <2>2 DEF FitsWire, Carries, Slot, StageAt
  <2> QED BY <1>2, <2>1, <2>3 DEF StreamInv
<1> QED BY <1>1, <1>3, <1>4, EchoSteps

(* The driver and the synthesiser get the messages that were read, each    *)
(* whole and in order, for every instrument that sends legal MIDI, with or *)
(* without running status, wherever the cable is plugged in, and every     *)
(* length of the ring, as long as it was never full.                       *)
THEOREM EchoFaithfulAlways == Spec => []EchoFaithful
<1>1. Init => EchoInv /\ (tool = "MIDIECHO" => StreamInv)
  BY EchoInitWire, EchoInitRest, TaleBegins DEF Init, EchoInv, EchoInit
<1>2. EchoInv /\ (tool = "MIDIECHO" => StreamInv) /\ [Next]_toolvars
      => EchoInv' /\ (tool = "MIDIECHO" => StreamInv)'
  BY NextEcho, NextTale
<1>3. EchoInv /\ (tool = "MIDIECHO" => StreamInv) => EchoFaithful
  BY TaleTold DEF EchoInv, EchoFaithful
<1> QED BY <1>1, <1>2, <1>3, PTL DEF Spec

----------------------------------------------------------------------------
(* The bytes of the chunk.                                                 *)

Cell ==
  [kind : {"digit"}, val : Nat, more : BOOLEAN] \cup [kind : {"interval"}, val : Nat]
    \cup [kind : {"data", "other", "end"}] \cup [kind : {"note"}, chan : Chans, num : NoteNums]
    \cup [kind : {"mark"}, val : Marks]

LEMMA SizeTyped ==
  ASSUME NEW v
  PROVE  Size(v) \in 1 .. 4
<1> DEFINE f == Digits(v)
           IsSize(n) == (n = 1 \/ f[n] # 0) /\ \A i \in n + 1 .. 4 : f[i] = 0
<1> HIDE DEF f
<1>1. \E n \in 1 .. 4 : IsSize(n)
  <2>1. CASE f[4] # 0
    <3>1. IsSize(4)
      BY <2>1
    <3> QED BY <3>1
  <2>2. CASE f[4] = 0 /\ f[3] # 0
    <3>1. IsSize(3)
      BY <2>2
    <3> QED BY <3>1
  <2>3. CASE f[4] = 0 /\ f[3] = 0 /\ f[2] # 0
    <3>1. IsSize(2)
      BY <2>3
    <3> QED BY <3>1
  <2>4. CASE f[4] = 0 /\ f[3] = 0 /\ f[2] = 0
    <3>1. IsSize(1)
      BY <2>4
    <3> QED BY <3>1
  <2> QED BY <2>1, <2>2, <2>3, <2>4
<1>2. Size(v) = CHOOSE n \in 1 .. 4 : IsSize(n)
  BY DEF Size, f
<1> HIDE DEF IsSize
<1> QED BY <1>1, <1>2

LEMMA VlnCells ==
  ASSUME NEW v \in Nat
  PROVE  Vln(v) \in Seq(Cell) /\ Len(Vln(v)) \in Nat \ {0}
<1>1. VlnBase \in Nat \ {0}
  BY ConverterAssumption
<1>2. \A i \in 1 .. 4 : Digits(v)[i] \in Nat
  <2> DEFINE b2 == VlnBase * VlnBase
             b3 == VlnBase * VlnBase * VlnBase
  <2>1. b2 \in Nat \ {0} /\ b3 \in Nat \ {0}
    BY <1>1
  <2> HIDE DEF b2, b3
  <2>2. v \div VlnBase \in Nat /\ v \div b2 \in Nat /\ v \div b3 \in Nat
    BY <1>1, <2>1, DivMod
  <2>3. /\ v % VlnBase \in Nat /\ (v \div VlnBase) % VlnBase \in Nat
        /\ (v \div b2) % VlnBase \in Nat /\ (v \div b3) % VlnBase \in Nat
    BY <1>1, <2>2, DivMod
  <2>4. Digits(v) = <<v % VlnBase, (v \div VlnBase) % VlnBase, (v \div b2) % VlnBase,
                      (v \div b3) % VlnBase>>
    BY DEF Digits, b2, b3
  <2> QED BY <2>3, <2>4
<1>3. Size(v) \in 1 .. 4
  BY SizeTyped
<1> DEFINE cell(i) == [kind |-> "digit", val |-> Digits(v)[Size(v) + 1 - i], more |-> i < Size(v)]
<1>4. \A i \in 1 .. Size(v) : cell(i) \in Cell
  <2> SUFFICES ASSUME NEW i \in 1 .. Size(v) PROVE cell(i) \in Cell
    OBVIOUS
  <2>1. Size(v) + 1 - i \in 1 .. 4
    BY <1>3
  <2>2. Digits(v)[Size(v) + 1 - i] \in Nat /\ (i < Size(v)) \in BOOLEAN
    BY <1>2, <2>1
  <2>3. cell(i) \in [kind : {"digit"}, val : Nat, more : BOOLEAN]
    BY <2>2
  <2> QED BY <2>3 DEF Cell
<1> HIDE DEF cell
<1>5. Vln(v) = [i \in 1 .. Size(v) |-> cell(i)]
  BY DEF Vln, cell
<1> QED BY <1>3, <1>4, <1>5

(* The empty duration is one byte. *)
LEMMA VlnZero == Len(Vln(0)) = 1 /\ Vln(0)[1].kind = "digit"
<1>1. VlnBase \in Nat \ {0}
  BY ConverterAssumption
<1>2. \A m \in Nat \ {0} : 0 % m = 0 /\ 0 \div m = 0
  BY Z3
<1>3. Digits(0) = <<0, 0, 0, 0>>
  <2> DEFINE b2 == VlnBase * VlnBase
             b3 == VlnBase * VlnBase * VlnBase
  <2>1. b2 \in Nat \ {0} /\ b3 \in Nat \ {0}
    BY <1>1
  <2> HIDE DEF b2, b3
  <2>2. 0 \div b2 = 0 /\ 0 \div b3 = 0 /\ 0 \div VlnBase = 0 /\ 0 % VlnBase = 0
    BY <1>1, <1>2, <2>1
  <2>3. Digits(0) = <<0 % VlnBase, (0 \div VlnBase) % VlnBase, (0 \div b2) % VlnBase,
                      (0 \div b3) % VlnBase>>
    BY DEF Digits, b2, b3
  <2> QED BY <2>2, <2>3
<1>4. Size(0) = 1
  <2> DEFINE IsSize(n) == (n = 1 \/ Digits(0)[n] # 0) /\ \A i \in n + 1 .. 4 : Digits(0)[i] = 0
  <2>1. \A n \in 1 .. 4 : IsSize(n) <=> n = 1
    BY <1>3
  <2>2. Size(0) = CHOOSE n \in 1 .. 4 : IsSize(n)
    BY DEF Size
  <2> HIDE DEF IsSize
  <2> QED BY <2>1, <2>2
<1> QED BY <1>4 DEF Vln

LEMMA IntervalCells ==
  ASSUME NEW d \in Nat
  PROVE  /\ IntervalBytes(d) \in Seq(Cell)
         /\ \A i \in 1 .. Len(IntervalBytes(d)) : IntervalBytes(d)[i].kind = "interval"
<1> DEFINE T == [kind : {"interval"}, val : Nat]
<1>1. \A v \in Nat : IntervalByte(v) \in T
  BY DEF IntervalByte
<1>2. IntervalBytes(d) \in Seq(T)
  <2> DEFINE full == IF d = 0 THEN 0 ELSE (d - 1) \div (VlnBase - 1)
  <2>1. VlnBase - 1 \in Nat \ {0}
    BY ConverterAssumption
  <2>2. full \in Nat /\ (d # 0 => d - full * (VlnBase - 1) \in Nat)
    <3>1. CASE d = 0
      BY <3>1
    <3>2. CASE d # 0
      <4> DEFINE m == VlnBase - 1
                 x == d - 1
                 q == x \div m
                 r == x % m
      <4>1. x \in Nat /\ m \in Nat \ {0}
        BY <2>1, <3>2
      <4> HIDE DEF m, x
      <4>2. q \in Nat /\ r \in 0 .. m - 1 /\ x = m * q + r
        BY <4>1, DivMod
      <4> HIDE DEF q, r
      <4>3. m * q = q * m /\ q * m \in Nat
        BY <4>1, <4>2
      <4> DEFINE z == q * m
      <4>4. z \in Nat /\ x = z + r /\ r \in Nat
        BY <4>1, <4>2, <4>3
      <4> HIDE DEF z
      <4>5. d - z \in Nat
        BY <4>4 DEF x
      <4> QED BY <3>2, <4>2, <4>5 DEF z, q, m, x
    <3> QED BY <3>1, <3>2
  <2>3. IntervalBytes(d) = [i \in 1 .. full |-> IntervalByte(VlnBase - 1)]
           \o (IF d = 0 THEN <<>> ELSE <<IntervalByte(d - full * (VlnBase - 1))>>)
    BY DEF IntervalBytes
  <2>4. full \in Nat
    BY <2>2
  <2> HIDE DEF full
  <2>5. [i \in 1 .. full |-> IntervalByte(VlnBase - 1)] \in Seq(T)
    <3>1. IntervalByte(VlnBase - 1) \in T
      BY <1>1, <2>1
    <3> HIDE DEF T
    <3> QED BY <2>4, <3>1
  <2>6. (IF d = 0 THEN <<>> ELSE <<IntervalByte(d - full * (VlnBase - 1))>>) \in Seq(T)
    <3>1. CASE d = 0
      BY <3>1
    <3>2. CASE d # 0
      <4>1. IntervalByte(d - full * (VlnBase - 1)) \in T
        BY <1>1, <2>2, <2>4, <3>2
      <4> HIDE DEF T
      <4> QED BY <3>2, <4>1
    <3> QED BY <3>1, <3>2
  <2> HIDE DEF T
  <2> QED BY <2>3, <2>5, <2>6, ConcatProperties
<1>3. \A i \in 1 .. Len(IntervalBytes(d)) : IntervalBytes(d)[i] \in T
  <2> HIDE DEF T
  <2> QED BY <1>2
<1>4. T \subseteq Cell
  BY DEF Cell
<1>5. IntervalBytes(d) \in Seq(Cell)
  <2> HIDE DEF T
  <2> QED BY <1>2, <1>4
<1> QED BY <1>3, <1>5

----------------------------------------------------------------------------
(* The places that the notes still on and the branch points remember.      *)

NoteRec == [chan : Chans, num : NoteNums, intvl : Nat, next : Nat]
MarkRec == [bnum : Marks, offset : Nat]

Sounding(E, p, c, n) ==
  /\ p \in 1 .. Len(E) - 3
  /\ E[p].kind = "note" /\ E[p].chan = c /\ E[p].num = n
  /\ E[p + 1].kind = "data" /\ E[p + 2].kind = "data" /\ E[p + 3] = Vln(0)[1]
Leads(E, offset, b) ==
  \E p \in offset + 1 .. Len(E) :
    /\ E[p].kind = "mark" /\ E[p].val = b
    /\ \A q \in offset + 1 .. p - 1 : E[q].kind = "interval"

(* Two notes that are on have places of their own. *)
Places(E, ns, ms, now) ==
  /\ E \in Seq(Cell)
  /\ ns \in [Slots -> NoteRec \cup {Null}] /\ ms \in Seq(MarkRec)
  /\ \A s \in Slots : ns[s] # Null =>
       ns[s].intvl <= now /\ Sounding(E, ns[s].next - 4, ns[s].chan, ns[s].num)
  /\ \A s, u \in Slots : ns[s] # Null /\ ns[u] # Null /\ ns[s].next = ns[u].next => s = u
  /\ \A i \in 1 .. Len(ms) : Leads(E, ms[i].offset, ms[i].bnum)

(* What is written at the end disturbs nothing. *)
LEMMA SoundingExtends ==
  ASSUME NEW E \in Seq(Cell), NEW X \in Seq(Cell), NEW p, NEW c, NEW n, Sounding(E, p, c, n)
  PROVE  Sounding(E \o X, p, c, n)
<1>1. Len(E) \in Nat /\ Len(X) \in Nat
  OBVIOUS
<1>2. Len(E \o X) = Len(E) + Len(X) /\ \A i \in 1 .. Len(E) : (E \o X)[i] = E[i]
  BY ConcatProperties, <1>1
<1>3. p \in 1 .. Len(E) - 3
  BY DEF Sounding
<1>4. /\ (E \o X)[p] = E[p] /\ (E \o X)[p + 1] = E[p + 1]
      /\ (E \o X)[p + 2] = E[p + 2] /\ (E \o X)[p + 3] = E[p + 3]
  BY <1>1, <1>2, <1>3
<1>5. p \in 1 .. Len(E \o X) - 3
  BY <1>1, <1>2, <1>3
<1> QED BY <1>4, <1>5 DEF Sounding

LEMMA LeadsExtends ==
  ASSUME NEW E \in Seq(Cell), NEW X \in Seq(Cell), NEW o \in Nat, NEW b, Leads(E, o, b)
  PROVE  Leads(E \o X, o, b)
<1>1. Len(E) \in Nat /\ Len(X) \in Nat
  OBVIOUS
<1>2. Len(E \o X) = Len(E) + Len(X) /\ \A i \in 1 .. Len(E) : (E \o X)[i] = E[i]
  BY ConcatProperties, <1>1
<1>3. PICK p \in o + 1 .. Len(E) : /\ E[p].kind = "mark" /\ E[p].val = b
                                   /\ \A q \in o + 1 .. p - 1 : E[q].kind = "interval"
  BY DEF Leads
<1>4. p \in o + 1 .. Len(E \o X) /\ (E \o X)[p] = E[p]
      /\ \A q \in o + 1 .. p - 1 : (E \o X)[q] = E[q]
  BY <1>1, <1>2, <1>3
<1> QED BY <1>3, <1>4 DEF Leads

LEMMA PlacesExtend ==
  ASSUME NEW E, NEW X \in Seq(Cell), NEW ns, NEW ms, NEW t \in Nat, NEW u \in Nat, t <= u,
         Places(E, ns, ms, t)
  PROVE  Places(E \o X, ns, ms, u)
<1>1. E \in Seq(Cell) /\ E \o X \in Seq(Cell)
  BY ConcatProperties DEF Places
<1>2. ns \in [Slots -> NoteRec \cup {Null}] /\ ms \in Seq(MarkRec)
  BY DEF Places
<1>3. ASSUME NEW s \in Slots, ns[s] # Null
      PROVE  ns[s].intvl <= u /\ Sounding(E \o X, ns[s].next - 4, ns[s].chan, ns[s].num)
  <2>1. ns[s].intvl <= t /\ Sounding(E, ns[s].next - 4, ns[s].chan, ns[s].num)
    BY <1>3 DEF Places
  <2>2. ns[s].intvl \in Nat
    BY <1>2, <1>3 DEF NoteRec
  <2> QED BY <1>1, <2>1, <2>2, SoundingExtends
<1>4. ASSUME NEW i \in 1 .. Len(ms) PROVE Leads(E \o X, ms[i].offset, ms[i].bnum)
  <2>1. ms[i].offset \in Nat
    <3>1. ms[i] \in MarkRec
      BY <1>2
    <3> QED BY <3>1 DEF MarkRec
  <2>2. Leads(E, ms[i].offset, ms[i].bnum)
    BY DEF Places
  <2> QED BY <1>1, <2>1, <2>2, LeadsExtends
<1> QED BY <1>1, <1>2, <1>3, <1>4 DEF Places

(* A cell gives way to the cells D. *)
Splice(E, k, D) == SubSeq(E, 1, k - 1) \o D \o SubSeq(E, k + 1, Len(E))
LEMMA SpliceCells ==
  ASSUME NEW E \in Seq(Cell), NEW k \in 1 .. Len(E), NEW D \in Seq(Cell), Len(D) \in Nat \ {0}
  PROVE  /\ Splice(E, k, D) \in Seq(Cell)
         /\ Len(Splice(E, k, D)) = Len(E) + (Len(D) - 1)
         /\ \A i \in 1 .. k - 1 : Splice(E, k, D)[i] = E[i]
         /\ \A i \in k + 1 .. Len(E) : Splice(E, k, D)[i + (Len(D) - 1)] = E[i]
<1> DEFINE A == SubSeq(E, 1, k - 1)
           B == SubSeq(E, k + 1, Len(E))
           n == Len(E)
           m == Len(D)
<1>1. n \in Nat /\ m \in Nat \ {0} /\ k \in 1 .. n
  OBVIOUS
<1>2. \A i \in 1 .. n : E[i] \in Cell
  OBVIOUS
<1>3. A \in Seq(Cell) /\ Len(A) = k - 1 /\ \A i \in 1 .. k - 1 : A[i] = E[i]
  <2>1. \A i \in 1 .. k - 1 : E[i] \in Cell
    BY <1>1, <1>2
  <2>2. /\ A \in Seq(Cell) /\ Len(A) = (IF 1 <= k - 1 THEN (k - 1) - 1 + 1 ELSE 0)
        /\ \A i \in 1 .. (k - 1) - 1 + 1 : A[i] = E[1 + i - 1]
    BY <1>1, <2>1, SubSeqProperties
  <2> HIDE DEF A
  <2> QED BY <1>1, <2>2
<1>4. B \in Seq(Cell) /\ Len(B) = n - k /\ \A i \in 1 .. n - k : B[i] = E[k + i]
  <2>1. \A i \in k + 1 .. n : E[i] \in Cell
    BY <1>1, <1>2
  <2>2. /\ B \in Seq(Cell) /\ Len(B) = (IF k + 1 <= n THEN n - (k + 1) + 1 ELSE 0)
        /\ \A i \in 1 .. n - (k + 1) + 1 : B[i] = E[(k + 1) + i - 1]
    BY <1>1, <2>1, SubSeqProperties
  <2> HIDE DEF B
  <2> QED BY <1>1, <2>2
<1> HIDE DEF A, B, n, m
<1>5. /\ A \o D \in Seq(Cell) /\ Len(A \o D) = k - 1 + m
      /\ \A i \in 1 .. k - 1 : (A \o D)[i] = E[i]
  <2>1. /\ A \o D \in Seq(Cell) /\ Len(A \o D) = Len(A) + Len(D)
        /\ \A i \in 1 .. Len(A) + Len(D) :
             (A \o D)[i] = IF i <= Len(A) THEN A[i] ELSE D[i - Len(A)]
    BY <1>3, ConcatProperties
  <2> QED BY <1>1, <1>3, <2>1 DEF m
<1> DEFINE AD == A \o D
<1> HIDE DEF AD
<1>6. /\ AD \o B \in Seq(Cell) /\ Len(AD \o B) = (k - 1 + m) + (n - k)
      /\ \A i \in 1 .. (k - 1 + m) + (n - k) :
           (AD \o B)[i] = IF i <= k - 1 + m THEN AD[i] ELSE B[i - (k - 1 + m)]
  <2>1. AD \in Seq(Cell) /\ Len(AD) = k - 1 + m
    BY <1>5 DEF AD
  <2>2. B \in Seq(Cell) /\ Len(B) = n - k
    BY <1>4
  <2>3. /\ AD \o B \in Seq(Cell) /\ Len(AD \o B) = Len(AD) + Len(B)
        /\ \A i \in 1 .. Len(AD) + Len(B) :
             (AD \o B)[i] = IF i <= Len(AD) THEN AD[i] ELSE B[i - Len(AD)]
    BY <2>1, <2>2, ConcatProperties
  <2> QED BY <2>1, <2>2, <2>3
<1>7. Splice(E, k, D) = AD \o B
  BY DEF Splice, A, B, AD
<1>8. \A i \in 1 .. k - 1 : AD[i] = E[i]
  BY <1>5 DEF AD
<1>9. ASSUME NEW i \in 1 .. k - 1 PROVE (AD \o B)[i] = E[i]
  BY <1>1, <1>6, <1>8
<1>10. ASSUME NEW i \in k + 1 .. n PROVE (AD \o B)[i + (m - 1)] = E[i]
  <2>1. i + (m - 1) \in 1 .. (k - 1 + m) + (n - k) /\ ~ (i + (m - 1) <= k - 1 + m)
    BY <1>1
  <2>2. (i + (m - 1)) - (k - 1 + m) = i - k /\ i - k \in 1 .. n - k
    BY <1>1
  <2>3. B[i - k] = E[i]
    <3>1. k + (i - k) = i
      BY <1>1
    <3> QED BY <1>4, <2>2, <3>1
  <2> QED BY <1>6, <2>1, <2>2, <2>3
<1>11. Len(AD \o B) = n + (m - 1)
  BY <1>1, <1>6
<1> QED BY <1>6, <1>7, <1>9, <1>10, <1>11 DEF n, m

(* The one-byte duration at k becomes D; what is behind it moves.          *)
Moved(x, k, D) == IF x > k THEN x + (Len(D) - 1) ELSE x

LEMMA SoundingMoves ==
  ASSUME NEW E \in Seq(Cell), NEW D \in Seq(Cell), Len(D) \in Nat \ {0},
         NEW k, NEW c0, NEW n0, Sounding(E, k - 3, c0, n0), k \in Nat,
         NEW p \in Int, NEW c, NEW n, Sounding(E, p, c, n), p # k - 3
  PROVE  Sounding(Splice(E, k, D), Moved(p + 4, k, D) - 4, c, n)
<1> DEFINE F == Splice(E, k, D)
           x == Len(D) - 1
           m == Len(E)
           r == Moved(p + 4, k, D) - 4
<1>1. m \in Nat /\ x \in Nat
  OBVIOUS
<1>2. /\ k - 3 \in 1 .. m - 3
      /\ E[k - 3].kind = "note" /\ E[k - 2].kind = "data" /\ E[k - 1].kind = "data"
      /\ E[k].kind = "digit"
  <2>1. k - 3 + 1 = k - 2 /\ k - 3 + 2 = k - 1 /\ k - 3 + 3 = k
    OBVIOUS
  <2>2. /\ k - 3 \in 1 .. m - 3
        /\ E[k - 3].kind = "note" /\ E[k - 3 + 1].kind = "data" /\ E[k - 3 + 2].kind = "data"
        /\ E[k - 3 + 3] = Vln(0)[1]
    BY DEF Sounding
  <2> QED BY <2>1, <2>2, VlnZero
<1>3. /\ p \in 1 .. m - 3 /\ E[p].kind = "note" /\ E[p].chan = c /\ E[p].num = n
      /\ E[p + 1].kind = "data" /\ E[p + 2].kind = "data" /\ E[p + 3] = Vln(0)[1]
  BY DEF Sounding
<1>4. k \in 1 .. m
  BY <1>1, <1>2
<1>5. /\ F \in Seq(Cell) /\ Len(F) = m + x
      /\ \A i \in 1 .. k - 1 : F[i] = E[i]
      /\ \A i \in k + 1 .. m : F[i + x] = E[i]
  BY <1>4, SpliceCells
<1> HIDE DEF F, x, m
<1>6. p # k - 2 /\ p # k - 1 /\ p # k
  BY <1>2, <1>3
<1>7. CASE p > k
  <2>1. r = p + x
    BY <1>1, <1>3, <1>4, <1>7 DEF Moved, x
  <2>2. /\ F[p + x] = E[p] /\ F[(p + 1) + x] = E[p + 1]
        /\ F[(p + 2) + x] = E[p + 2] /\ F[(p + 3) + x] = E[p + 3]
    BY <1>1, <1>3, <1>4, <1>5, <1>7
  <2>3. (p + 1) + x = p + x + 1 /\ (p + 2) + x = p + x + 2 /\ (p + 3) + x = p + x + 3
    BY <1>1
  <2>4. p + x \in 1 .. Len(F) - 3
    BY <1>1, <1>3, <1>5
  <2>5. Sounding(F, p + x, c, n)
    BY <1>3, <2>2, <2>3, <2>4 DEF Sounding
  <2> QED BY <2>1, <2>5 DEF F
<1>8. CASE p < k - 3
  <2>1. r = p
    BY <1>4, <1>8 DEF Moved
  <2>2. F[p] = E[p] /\ F[p + 1] = E[p + 1] /\ F[p + 2] = E[p + 2] /\ F[p + 3] = E[p + 3]
    BY <1>1, <1>3, <1>4, <1>5, <1>8
  <2>3. p \in 1 .. Len(F) - 3
    BY <1>1, <1>3, <1>5
  <2>4. Sounding(F, p, c, n)
    BY <1>3, <2>2, <2>3 DEF Sounding
  <2> QED BY <2>1, <2>4 DEF F
<1> QED BY <1>4, <1>6, <1>7, <1>8

LEMMA LeadsMoves ==
  ASSUME NEW E \in Seq(Cell), NEW D \in Seq(Cell), Len(D) \in Nat \ {0},
         NEW k \in 1 .. Len(E), E[k].kind = "digit",
         NEW o \in Nat, NEW b, Leads(E, o, b)
  PROVE  Leads(Splice(E, k, D), Moved(o + 1, k, D) - 1, b)
<1> DEFINE F == Splice(E, k, D)
           x == Len(D) - 1
           m == Len(E)
           r == Moved(o + 1, k, D) - 1
<1>1. m \in Nat /\ x \in Nat /\ k \in 1 .. m
  OBVIOUS
<1>2. /\ F \in Seq(Cell) /\ Len(F) = m + x
      /\ \A i \in 1 .. k - 1 : F[i] = E[i]
      /\ \A i \in k + 1 .. m : F[i + x] = E[i]
  BY SpliceCells
<1>3. PICK p \in o + 1 .. m : /\ E[p].kind = "mark" /\ E[p].val = b
                              /\ \A q \in o + 1 .. p - 1 : E[q].kind = "interval"
  BY DEF Leads
<1> HIDE DEF F, m
<1>4. CASE o + 1 > k
  <2>1. r = o + x
    BY <1>1, <1>4 DEF Moved
  <2> HIDE DEF x
  <2>2. F[p + x] = E[p] /\ p + x \in (o + x) + 1 .. Len(F)
    BY <1>1, <1>2, <1>4
  <2>3. ASSUME NEW q \in (o + x) + 1 .. (p + x) - 1 PROVE F[q].kind = "interval"
    <3>1. q - x \in o + 1 .. p - 1 /\ q - x \in k + 1 .. m /\ (q - x) + x = q
      BY <1>1, <1>4, SMTT(30)
    <3>2. F[q] = E[q - x]
      BY <1>2, <3>1
    <3> QED BY <1>3, <3>1, <3>2
  <2>4. Leads(F, o + x, b)
    BY <1>3, <2>2, <2>3 DEF Leads
  <2> QED BY <2>1, <2>4 DEF F
<1>5. CASE o + 1 <= k
  <2>1. r = o
    BY <1>1, <1>5 DEF Moved
  <2>2. p # k
    BY <1>3
  <2>3. ~ (p > k)
    <3>1. p > k => k \in o + 1 .. p - 1
      BY <1>1, <1>5
    <3> QED BY <1>3, <3>1
  <2>4. p \in 1 .. k - 1
    BY <1>1, <2>2, <2>3
  <2>5. F[p] = E[p] /\ p \in o + 1 .. Len(F) /\ \A q \in o + 1 .. p - 1 : F[q] = E[q]
    <3> HIDE DEF x
    <3> QED BY <1>1, <1>2, <2>4
  <2>6. Leads(F, o, b)
    BY <1>3, <2>5 DEF Leads
  <2> QED BY <2>1, <2>6 DEF F
<1> QED BY <1>1, <1>4, <1>5

LEMMA LengthenKeeps ==
  ASSUME NEW o, NEW now \in Nat, Places(o.cells, o.notes, o.marks, now),
         NEW s \in Slots, o.notes[s] # Null
  PROVE  LET r == Lengthen(o, s, now) IN Places(r.cells, r.notes, r.marks, now)
<1> DEFINE E == o.cells
           ns == o.notes
           ms == o.marks
           next == ns[s].next
           k == next - 1
           D == Vln(now - ns[s].intvl)
           x == Len(D) - 1
           F == Splice(E, k, D)
           moved(u) == [ns[u] EXCEPT !.next = IF @ >= next THEN @ + x ELSE @]
           newns == [u \in Slots |-> IF u = s \/ ns[u] = Null THEN Null ELSE moved(u)]
           mark(i) == [ms[i] EXCEPT !.offset = IF @ + 1 >= next THEN @ + x ELSE @]
           newms == [i \in DOMAIN ms |-> mark(i)]
<1>1. /\ Lengthen(o, s, now).cells = F /\ Lengthen(o, s, now).notes = newns
      /\ Lengthen(o, s, now).marks = newms
  <2>1. Lengthen(o, s, now) =
          [cells |-> SubSeq(E, 1, next - 2) \o D \o SubSeq(E, next, Len(E)),
           notes |-> newns, marks |-> newms]
    BY DEF Lengthen
  <2>2. next \in Nat
    <3>1. ns[s] \in NoteRec
      BY DEF Places
    <3> QED BY <3>1 DEF NoteRec
  <2> HIDE DEF newns, newms, D, E, next
  <2>3. next - 2 = k - 1 /\ next = k + 1
    BY <2>2
  <2>4. F = SubSeq(E, 1, next - 2) \o D \o SubSeq(E, next, Len(E))
    <3> HIDE DEF k
    <3> QED BY <2>3 DEF Splice
  <2> HIDE DEF F
  <2> DEFINE r == Lengthen(o, s, now)
  <2>5. r = [cells |-> F, notes |-> newns, marks |-> newms]
    BY <2>1, <2>4
  <2> HIDE DEF r
  <2>6. r.cells = F /\ r.notes = newns /\ r.marks = newms
    BY <2>5
  <2> QED BY <2>6 DEF r
<1>2. /\ E \in Seq(Cell) /\ ns \in [Slots -> NoteRec \cup {Null}] /\ ms \in Seq(MarkRec)
      /\ \A u \in Slots : ns[u] # Null =>
           ns[u].intvl <= now /\ Sounding(E, ns[u].next - 4, ns[u].chan, ns[u].num)
      /\ \A t, u \in Slots : ns[t] # Null /\ ns[u] # Null /\ ns[t].next = ns[u].next => t = u
      /\ \A i \in 1 .. Len(ms) : Leads(E, ms[i].offset, ms[i].bnum)
  BY DEF Places
<1>3. ns[s] # Null
  OBVIOUS
<1> HIDE DEF E, ns, ms
<1>4. \A u \in Slots : ns[u] # Null =>
        /\ ns[u] \in NoteRec /\ ns[u].chan \in Chans /\ ns[u].num \in NoteNums
        /\ ns[u].intvl \in Nat /\ ns[u].next \in Nat
  BY <1>2 DEF NoteRec
<1>5. next \in Nat /\ k \in Int /\ k - 3 = next - 4 /\ k + 1 = next
      /\ Sounding(E, k - 3, ns[s].chan, ns[s].num)
  <2>1. next \in Nat /\ Sounding(E, next - 4, ns[s].chan, ns[s].num)
    BY <1>2, <1>3, <1>4
  <2> HIDE DEF next
  <2>2. k - 3 = next - 4 /\ k \in Int /\ k + 1 = next
    BY <2>1
  <2> QED BY <2>1, <2>2
<1>6. D \in Seq(Cell) /\ Len(D) \in Nat \ {0}
  <2>1. now - ns[s].intvl \in Nat
    <3>1. ns[s].intvl <= now /\ ns[s].intvl \in Nat
      BY <1>2, <1>3, <1>4
    <3> QED BY <3>1
  <2> HIDE DEF k, next
  <2> QED BY <2>1, VlnCells
<1> HIDE DEF D
<1>7. x \in Nat
  BY <1>6
<1>8. k \in 1 .. Len(E) /\ E[k].kind = "digit" /\ k \in Nat
  <2>1. k - 3 \in 1 .. Len(E) - 3 /\ E[k - 3 + 3] = Vln(0)[1]
    BY <1>5 DEF Sounding
  <2> HIDE DEF k
  <2>2. k - 3 + 3 = k /\ Len(E) \in Nat
    BY <1>2, <1>5
  <2> QED BY <1>5, <2>1, <2>2, VlnZero
<1> HIDE DEF k, next
<1>9. F \in Seq(Cell)
  BY <1>2, <1>6, <1>8, SpliceCells
<1> HIDE DEF F, x
<1>10. ASSUME NEW u \in Slots, ns[u] # Null, u # s
       PROVE  /\ moved(u) \in NoteRec
              /\ moved(u).intvl = ns[u].intvl /\ moved(u).chan = ns[u].chan
              /\ moved(u).num = ns[u].num
              /\ moved(u).next = IF ns[u].next >= next THEN ns[u].next + x ELSE ns[u].next
              /\ Sounding(F, moved(u).next - 4, ns[u].chan, ns[u].num)
  <2> DEFINE y == IF ns[u].next >= next THEN ns[u].next + x ELSE ns[u].next
  <2>1. y \in Nat /\ ns[u] \in NoteRec /\ ns[u].next \in Nat
    BY <1>4, <1>5, <1>7, <1>10
  <2>2. moved(u) = [ns[u] EXCEPT !.next = y]
    OBVIOUS
  <2>3. y = Moved((ns[u].next - 4) + 4, k, D)
    <3>1. (ns[u].next - 4) + 4 = ns[u].next
      BY <2>1
    <3>2. ns[u].next >= next <=> ns[u].next > k
      BY <1>5, <2>1
    <3> QED BY <3>1, <3>2 DEF Moved, x
  <2> HIDE DEF y, moved
  <2>4. /\ moved(u) \in NoteRec /\ moved(u).next = y
        /\ moved(u).intvl = ns[u].intvl /\ moved(u).chan = ns[u].chan /\ moved(u).num = ns[u].num
    BY <2>1, <2>2 DEF NoteRec
  <2>5. ns[u].next - 4 \in Int /\ ns[u].next - 4 # k - 3
        /\ Sounding(E, ns[u].next - 4, ns[u].chan, ns[u].num)
    <3>1. ns[u].next # next
      BY <1>2, <1>3, <1>10 DEF next
    <3>2. Sounding(E, ns[u].next - 4, ns[u].chan, ns[u].num)
      BY <1>2, <1>10
    <3> QED BY <1>5, <2>1, <3>1, <3>2
  <2>6. Sounding(F, y - 4, ns[u].chan, ns[u].num)
    BY <1>2, <1>5, <1>6, <1>8, <2>3, <2>5, SoundingMoves DEF F
  <2>7. moved(u).next = IF ns[u].next >= next THEN ns[u].next + x ELSE ns[u].next
    BY <2>4 DEF y
  <2> QED BY <2>4, <2>6, <2>7
<1> HIDE DEF moved
<1>11. newns \in [Slots -> NoteRec \cup {Null}]
  <2>1. \A u \in Slots : (IF u = s \/ ns[u] = Null THEN Null ELSE moved(u)) \in NoteRec \cup {Null}
    BY <1>10
  <2> QED BY <2>1
<1>12. ASSUME NEW u \in Slots, newns[u] # Null
       PROVE  u # s /\ ns[u] # Null /\ newns[u] = moved(u)
  BY <1>12
<1> HIDE DEF newns
<1>13. ASSUME NEW u \in Slots, newns[u] # Null
       PROVE  newns[u].intvl <= now /\ Sounding(F, newns[u].next - 4, newns[u].chan, newns[u].num)
  <2>1. u # s /\ ns[u] # Null /\ newns[u] = moved(u)
    BY <1>12, <1>13
  <2>2. ns[u].intvl <= now
    BY <1>2, <2>1
  <2>3. /\ moved(u).intvl = ns[u].intvl /\ moved(u).chan = ns[u].chan /\ moved(u).num = ns[u].num
        /\ Sounding(F, moved(u).next - 4, ns[u].chan, ns[u].num)
    BY <1>10, <2>1
  <2> QED BY <2>1, <2>2, <2>3
<1>14. ASSUME NEW t \in Slots, NEW u \in Slots, newns[t] # Null, newns[u] # Null,
              newns[t].next = newns[u].next
       PROVE  t = u
  <2>1. /\ t # s /\ ns[t] # Null /\ newns[t] = moved(t)
        /\ u # s /\ ns[u] # Null /\ newns[u] = moved(u)
    BY <1>12, <1>14
  <2> DEFINE p == ns[t].next
             q == ns[u].next
  <2>2. (IF p >= next THEN p + x ELSE p) = (IF q >= next THEN q + x ELSE q)
    BY <1>10, <1>14, <2>1
  <2>3. p \in Nat /\ q \in Nat
    BY <1>4, <2>1
  <2>4. p = q
    <3> HIDE DEF p, q
    <3> QED BY <1>5, <1>7, <2>2, <2>3
  <2> QED BY <1>2, <2>1, <2>4
<1>15. newms \in Seq(MarkRec) /\ Len(newms) = Len(ms)
       /\ \A i \in 1 .. Len(newms) : Leads(F, newms[i].offset, newms[i].bnum)
  <2>1. Len(ms) \in Nat /\ DOMAIN ms = 1 .. Len(ms)
    BY <1>2
  <2>2. ASSUME NEW i \in 1 .. Len(ms)
        PROVE  mark(i) \in MarkRec /\ Leads(F, mark(i).offset, mark(i).bnum)
    <3> DEFINE y == IF ms[i].offset + 1 >= next THEN ms[i].offset + x ELSE ms[i].offset
    <3>1. ms[i] \in MarkRec
      BY <1>2
    <3>2. ms[i].offset \in Nat
      BY <3>1 DEF MarkRec
    <3>3. mark(i) = [ms[i] EXCEPT !.offset = y]
      OBVIOUS
    <3>4. y \in Nat
      BY <1>5, <1>7, <3>2
    <3>5. y = Moved(ms[i].offset + 1, k, D) - 1
      <4>1. ms[i].offset + 1 >= next <=> ms[i].offset + 1 > k
        BY <1>5, <3>2
      <4>2. CASE ms[i].offset + 1 > k
        <5>1. y = ms[i].offset + x
          BY <4>1, <4>2
        <5>2. Moved(ms[i].offset + 1, k, D) = ms[i].offset + 1 + x
          BY <4>2 DEF Moved, x
        <5> HIDE DEF y
        <5> QED BY <1>7, <3>2, <5>1, <5>2
      <4>3. CASE ~ (ms[i].offset + 1 > k)
        <5>1. y = ms[i].offset
          BY <4>1, <4>3
        <5>2. Moved(ms[i].offset + 1, k, D) = ms[i].offset + 1
          BY <4>3 DEF Moved
        <5> HIDE DEF y
        <5> QED BY <3>2, <5>1, <5>2
      <4> QED BY <4>2, <4>3
    <3> HIDE DEF y, mark
    <3>6. mark(i) \in MarkRec /\ mark(i).offset = y /\ mark(i).bnum = ms[i].bnum
      BY <3>1, <3>3, <3>4 DEF MarkRec
    <3>7. Leads(E, ms[i].offset, ms[i].bnum)
      BY <1>2
    <3>8. Leads(F, y, ms[i].bnum)
      BY <1>2, <1>6, <1>8, <3>2, <3>5, <3>7, LeadsMoves DEF F
    <3> QED BY <3>6, <3>8
  <2> HIDE DEF mark
  <2>3. newms = [i \in 1 .. Len(ms) |-> mark(i)]
    BY <2>1
  <2> HIDE DEF newms
  <2>4. newms \in Seq(MarkRec) /\ Len(newms) = Len(ms)
        /\ \A i \in 1 .. Len(ms) : newms[i] = mark(i)
    BY <2>1, <2>2, <2>3
  <2> QED BY <2>2, <2>4
<1> HIDE DEF newms
<1>16. Places(F, newns, newms, now)
  BY <1>9, <1>11, <1>13, <1>14, <1>15 DEF Places
<1> QED BY <1>1, <1>16

(* The output with its places kept. *)
Outputs(now) ==
  {o \in [cells : Seq(Cell), notes : [Slots -> NoteRec \cup {Null}], marks : Seq(MarkRec)] :
     Places(o.cells, o.notes, o.marks, now)}

LEMMA LengthenStays ==
  ASSUME NEW now \in Nat, NEW o \in Outputs(now), NEW s \in Slots, o.notes[s] # Null
  PROVE  /\ Lengthen(o, s, now) \in Outputs(now)
         /\ \A u \in Slots \ {s} : o.notes[u] # Null => Lengthen(o, s, now).notes[u] # Null
<1> DEFINE r == Lengthen(o, s, now)
           x == Len(Vln(now - o.notes[s].intvl)) - 1
           next == o.notes[s].next
           moved(u) == [o.notes[u] EXCEPT !.next = IF @ >= next THEN @ + x ELSE @]
<1>1. Places(o.cells, o.notes, o.marks, now)
  BY DEF Outputs
<1>2. Places(r.cells, r.notes, r.marks, now)
  BY <1>1, LengthenKeeps, SMTT(30)
<1>3. PICK C, W, M : r = [cells |-> C, notes |-> W, marks |-> M]
  BY DEF Lengthen
<1>4. r.notes = [u \in Slots |-> IF u = s \/ o.notes[u] = Null THEN Null ELSE moved(u)]
  <2>1. PICK D, K : r = [cells |-> D,
          notes |-> [u \in Slots |-> IF u = s \/ o.notes[u] = Null THEN Null ELSE moved(u)],
          marks |-> K]
    BY DEF Lengthen
  <2> DEFINE V == [u \in Slots |-> IF u = s \/ o.notes[u] = Null THEN Null ELSE moved(u)]
  <2> HIDE DEF V, r
  <2> QED BY <2>1 DEF V
<1> HIDE DEF r
<1>5. r \in Outputs(now)
  <2>1. r.cells = C /\ r.notes = W /\ r.marks = M
    BY <1>3
  <2>2. C \in Seq(Cell) /\ W \in [Slots -> NoteRec \cup {Null}] /\ M \in Seq(MarkRec)
    BY <1>2, <2>1 DEF Places
  <2>3. r \in [cells : Seq(Cell), notes : [Slots -> NoteRec \cup {Null}], marks : Seq(MarkRec)]
    BY <1>3, <2>2
  <2> QED BY <1>2, <2>3 DEF Outputs
<1>6. ASSUME NEW u \in Slots \ {s}, o.notes[u] # Null PROVE r.notes[u] # Null
  <2>1. o.notes \in [Slots -> NoteRec \cup {Null}]
    BY <1>1 DEF Places
  <2>2. o.notes[u] \in NoteRec /\ o.notes[s] \in NoteRec
    BY <1>6, <2>1
  <2>3. x \in Nat
    <3>1. o.notes[s].intvl \in Nat /\ o.notes[s].intvl <= now
      BY <1>1, <2>2 DEF Places, NoteRec
    <3> DEFINE d == now - o.notes[s].intvl
    <3>2. d \in Nat
      BY <3>1
    <3> HIDE DEF d
    <3>3. Len(Vln(d)) \in Nat \ {0}
      BY <3>2, VlnCells
    <3> QED BY <3>3 DEF d
  <2> HIDE DEF x
  <2> DEFINE v == o.notes[u]
             y == IF v.next >= next THEN v.next + x ELSE v.next
  <2>4. v \in NoteRec /\ v.next \in Nat /\ y \in Nat /\ moved(u) = [v EXCEPT !.next = y]
    BY <2>2, <2>3 DEF NoteRec
  <2> HIDE DEF v, y, moved
  <2>5. moved(u) \in NoteRec
    BY <2>4 DEF NoteRec
  <2>6. r.notes[u] = moved(u)
    BY <1>4, <1>6
  <2>7. Null \notin NoteRec
    BY ConverterAssumption DEF NoteRec
  <2> QED BY <2>5, <2>6, <2>7
<1> QED BY <1>5, <1>6 DEF r

(* A loop of N steps over a set X that every step stays in. *)
Loops(X, x, N, F, f) ==
  /\ f \in [0 .. N -> X]
  /\ f[0] = x
  /\ \A n \in 0 .. N - 1 : f[n + 1] = F[n][f[n]]
LEMMA LoopDefined ==
  ASSUME NEW X, NEW x \in X, NEW N \in Nat, NEW F \in [0 .. N - 1 -> [X -> X]]
  PROVE  \E f : Loops(X, x, N, F, f)
<1> DEFINE Upto(f, n) ==
             f \in [0 .. n -> X] /\ f[0] = x /\ \A k \in 0 .. n - 1 : f[k + 1] = F[k][f[k]]
           G == {n \in 0 .. N : \E f : Upto(f, n)}
<1>1. 0 \in G
  <2> DEFINE h == [n \in 0 .. 0 |-> x]
  <2>1. h \in [0 .. 0 -> X] /\ h[0] = x
    OBVIOUS
  <2> HIDE DEF h
  <2>2. 0 .. 0 - 1 = {}
    OBVIOUS
  <2>3. Upto(h, 0)
    BY <2>1, <2>2
  <2> QED BY <2>3
<1>2. ASSUME NEW n \in 0 .. N - 1, n \in G PROVE n + 1 \in G
  <2>1. PICK f : Upto(f, n)
    BY <1>2
  <2> DEFINE y == F[n][f[n]]
             g == [k \in 0 .. n + 1 |-> IF k = n + 1 THEN y ELSE f[k]]
  <2>2. n \in Nat /\ n + 1 \in 0 .. N /\ f[n] \in X /\ y \in X
    BY <2>1
  <2>3. g \in [0 .. n + 1 -> X]
    BY <2>1, <2>2
  <2>4. g[0] = x /\ g[n + 1] = y /\ \A k \in 0 .. n : g[k] = f[k]
    BY <2>1, <2>2
  <2> HIDE DEF g
  <2>5. ASSUME NEW k \in 0 .. n PROVE g[k + 1] = F[k][g[k]]
    <3>1. CASE k = n
      BY <2>4, <3>1
    <3>2. CASE k # n
      <4>1. k \in 0 .. n - 1 /\ k + 1 \in 0 .. n
        BY <2>2, <3>2
      <4> QED BY <2>1, <2>4, <4>1
    <3> QED BY <3>1, <3>2
  <2>6. Upto(g, n + 1)
    BY <2>2, <2>3, <2>4, <2>5
  <2> QED BY <2>2, <2>6
<1>3. 0 .. N \subseteq G
  <2> HIDE DEF G
  <2> QED BY <1>1, <1>2, Upwards
<1>4. N \in G
  <2> HIDE DEF G
  <2> QED BY <1>3
<1>5. PICK f : Upto(f, N)
  BY <1>4
<1> QED BY <1>5 DEF Loops

(* What note_off makes of the output. *)
Ended(c, n, now) ==
  LET ends(s) == notes[s] # Null /\ notes[s].chan = c /\ notes[s].num = n
      upto[s \in 0 .. MAX_NOTES] ==
        IF s = 0 THEN Output
        ELSE IF ends(s) THEN Lengthen(upto[s - 1], s, now) ELSE upto[s - 1]
  IN upto[MAX_NOTES]

LEMMA EndedKeeps ==
  ASSUME NEW now \in Nat, NEW c, NEW n, Output \in Outputs(now)
  PROVE  Ended(c, n, now) \in Outputs(now)
<1> DEFINE X == Outputs(now)
           N == MAX_NOTES
           E == {s \in Slots : notes[s] # Null /\ notes[s].chan = c /\ notes[s].num = n}
           Safe(o, s) == IF s \in E /\ o.notes[s] # Null THEN Lengthen(o, s, now) ELSE o
           F == [k \in 0 .. N - 1 |-> [o \in X |-> Safe(o, k + 1)]]
           g == CHOOSE h : h = [s \in 0 .. N |->
                  IF s = 0 THEN Output
                  ELSE IF notes[s] # Null /\ notes[s].chan = c /\ notes[s].num = n
                       THEN Lengthen(h[s - 1], s, now) ELSE h[s - 1]]
<1>1. Ended(c, n, now) = g[N]
  BY DEF Ended
<1>2. N \in Nat \ {0} /\ Slots = 1 .. N
  BY ConverterAssumption DEF Slots
<1>3. Output \in X
  OBVIOUS
<1>4. \A o \in X, s \in Slots : Safe(o, s) \in X
  BY LengthenStays
<1>5. \E f : Loops(X, Output, N, F, f)
  <2>1. F \in [0 .. N - 1 -> [X -> X]]
    <3>1. \A k \in 0 .. N - 1 : k + 1 \in Slots
      BY <1>2
    <3> HIDE DEF X, Safe
    <3> QED BY <1>4, <3>1
  <2> HIDE DEF X, F, N
  <2> QED BY <1>2, <1>3, <2>1, LoopDefined
<1>6. PICK f \in [0 .. N -> X] : f[0] = Output /\ \A k \in 0 .. N - 1 : f[k + 1] = F[k][f[k]]
  BY <1>5 DEF Loops
<1>7. \A k \in 0 .. N - 1 : f[k] \in X /\ f[k + 1] = Safe(f[k], k + 1)
  <2> HIDE DEF X, Safe
  <2>1. SUFFICES ASSUME NEW k \in 0 .. N - 1 PROVE f[k] \in X /\ f[k + 1] = Safe(f[k], k + 1)
    OBVIOUS
  <2>2. k \in 0 .. N /\ f[k] \in X
    BY <1>2, <1>6
  <2>3. F[k] = [o \in X |-> Safe(o, k + 1)]
    OBVIOUS
  <2> QED BY <1>6, <2>2, <2>3
<1> HIDE DEF F
<1> DEFINE On(k) == \A u \in k + 1 .. N : u \in E => f[k].notes[u] # Null
           G == {k \in 0 .. N : On(k)}
<1>8. 0 .. N \subseteq G
  <2>1. 0 \in G
    <3>1. On(0)
      BY <1>6 DEF Output
    <3> QED BY <1>2, <3>1
  <2>2. ASSUME NEW k \in 0 .. N - 1, k \in G PROVE k + 1 \in G
    <3>1. f[k] \in X /\ f[k + 1] = Safe(f[k], k + 1) /\ k + 1 \in Slots /\ k \in Nat /\ k + 1 \in 0 .. N
      BY <1>2, <1>7
    <3>2. ASSUME NEW u \in k + 1 + 1 .. N, u \in E PROVE f[k + 1].notes[u] # Null
      <4>1. u \in k + 1 .. N /\ u \in Slots \ {k + 1}
        BY <1>2, <3>1
      <4>2. f[k].notes[u] # Null
        BY <2>2, <3>2, <4>1
      <4> HIDE DEF E
      <4> QED BY <3>1, <4>1, <4>2, LengthenStays
    <3> QED BY <3>1, <3>2
  <2> HIDE DEF G
  <2> QED BY <1>2, <2>1, <2>2, Upwards
<1>9. \A s \in 1 .. N : f[s] = IF s \in E THEN Lengthen(f[s - 1], s, now) ELSE f[s - 1]
  <2> SUFFICES ASSUME NEW s \in 1 .. N
               PROVE  f[s] = IF s \in E THEN Lengthen(f[s - 1], s, now) ELSE f[s - 1]
    OBVIOUS
  <2>1. s - 1 \in 0 .. N - 1 /\ (s - 1) + 1 = s /\ s - 1 \in 0 .. N
    BY <1>2
  <2>2. f[s] = Safe(f[s - 1], s)
    <3> HIDE DEF Safe
    <3> QED BY <1>7, <2>1
  <2>3. s \in E => f[s - 1].notes[s] # Null
    <3>1. On(s - 1)
      BY <1>8, <2>1
    <3>2. s \in (s - 1) + 1 .. N
      BY <1>2
    <3> QED BY <3>1, <3>2
  <2> HIDE DEF E
  <2> QED BY <2>2, <2>3
<1>10. f = [s \in 0 .. N |->
             IF s = 0 THEN Output
             ELSE IF notes[s] # Null /\ notes[s].chan = c /\ notes[s].num = n
                  THEN Lengthen(f[s - 1], s, now) ELSE f[s - 1]]
  <2>1. \A s \in 0 .. N : s # 0 => s \in 1 .. N /\ s \in Slots
    BY <1>2
  <2>2. \A s \in 0 .. N : f[s] =
          IF s = 0 THEN Output
          ELSE IF notes[s] # Null /\ notes[s].chan = c /\ notes[s].num = n
               THEN Lengthen(f[s - 1], s, now) ELSE f[s - 1]
    BY <1>6, <1>9, <2>1
  <2> QED BY <1>6, <2>2
<1>11. g = [s \in 0 .. N |->
             IF s = 0 THEN Output
             ELSE IF notes[s] # Null /\ notes[s].chan = c /\ notes[s].num = n
                  THEN Lengthen(g[s - 1], s, now) ELSE g[s - 1]]
  BY <1>10
<1> HIDE DEF g
<1> DEFINE H == {k \in 0 .. N : g[k] = f[k]}
<1>12. 0 .. N \subseteq H
  <2>1. 0 \in H
    BY <1>2, <1>6, <1>11
  <2>2. ASSUME NEW k \in 0 .. N - 1, k \in H PROVE k + 1 \in H
    <3>1. k + 1 \in 0 .. N /\ k + 1 # 0 /\ (k + 1) - 1 = k /\ g[k] = f[k]
      BY <1>2, <2>2
    <3> DEFINE j == k + 1
    <3>2. j \in 0 .. N /\ j # 0 /\ j - 1 = k
      BY <3>1
    <3> HIDE DEF j
    <3>3. g[j] = IF notes[j] # Null /\ notes[j].chan = c /\ notes[j].num = n
                 THEN Lengthen(g[k], j, now) ELSE g[k]
      BY <1>11, <3>2
    <3>4. f[j] = IF notes[j] # Null /\ notes[j].chan = c /\ notes[j].num = n
                 THEN Lengthen(f[k], j, now) ELSE f[k]
      BY <1>10, <3>2
    <3> QED BY <3>1, <3>2, <3>3, <3>4 DEF j
  <2> HIDE DEF H
  <2> QED BY <1>2, <2>1, <2>2, Upwards
<1>13. g[N] = f[N] /\ f[N] \in X
  BY <1>2, <1>6, <1>12
<1> QED BY <1>1, <1>13

----------------------------------------------------------------------------
(* The actions of the converter, by what they write. *)

(* Nothing, or an event that leaves no place behind. *)
Waits(k) ==
  /\ Turn(k) /\ delta' = delta + Passed(k)
  /\ UNCHANGED <<EVNT, notes, RBRN>>
Copies(k) ==
  /\ Turn(k) /\ delta' = 0
  /\ \E bytes \in {OtherBytes, ProgramBytes} :
       EVNT' = EVNT \o IntervalBytes(delta + Passed(k)) \o bytes
  /\ UNCHANGED <<notes, RBRN>>

(* A note, its end, and a branch point. *)
Begins(k, c, n) ==
  /\ Turn(k) /\ delta' = 0
  /\ EVNT' = EVNT \o IntervalBytes(delta + Passed(k)) \o (NoteBytes(c, n) \o Vln(0))
  /\ \/ notes' = notes
     \/ \E s \in Slots :
          notes' = [notes EXCEPT ![s] =
            [chan |-> c, num |-> n, intvl |-> interval + Passed(k), next |-> Len(EVNT') + 1]]
  /\ RBRN' = RBRN
Ceases(k, c, n) ==
  /\ Turn(k) /\ delta' = delta + Passed(k)
  /\ EVNT' = Ended(c, n, interval + Passed(k)).cells
  /\ notes' = Ended(c, n, interval + Passed(k)).notes
  /\ RBRN' = Ended(c, n, interval + Passed(k)).marks
Marked(k, m) ==
  /\ Turn(k) /\ delta' = 0
  /\ EVNT' = EVNT \o IntervalBytes(delta + Passed(k)) \o MarkBytes(m)
  /\ RBRN' = Append(RBRN, [bnum |-> m, offset |-> Len(EVNT)])
  /\ notes' = notes

LEMMA Times == Now = interval + Passed(tick_time) /\ Delta = delta + Passed(tick_time)
  BY DEF Now, Delta

LEMMA ReadingTurns ==
  ASSUME Reading, accum_interval(tick_time), UNCHANGED tick_time
  PROVE  Turn(tick_time)
  BY DEF Reading, Turn

LEMMA ChunkSteps ==
  ASSUME FormStep
  PROVE  \/ \E k \in Ticks \cup {tick_time} : Waits(k) \/ Copies(k)
         \/ \E c \in Chans, n \in NoteNums : Begins(tick_time, c, n) \/ Ceases(tick_time, c, n)
         \/ \E m \in Marks : Marked(tick_time, m)
         \/ finish
<1>1. CASE note_on
  <2>1. PICK c \in Chans, n \in NoteNums :
          \/ Pass /\ UNCHANGED <<notes, EVNT, RBRN>>
          \/ /\ Put(NoteBytes(c, n) \o Vln(0)) /\ RBRN' = RBRN
             /\ \/ notes' = notes
                \/ \E s \in FreeSlots : notes' = [notes EXCEPT ![s] =
                     [chan |-> c, num |-> n, intvl |-> Now, next |-> Len(EVNT') + 1]]
    BY <1>1 DEF note_on
  <2>2. CASE Pass /\ UNCHANGED <<notes, EVNT, RBRN>>
    <3>1. Waits(tick_time)
      BY <1>1, <2>2, ReadingTurns, Times DEF note_on, Pass, Waits
    <3> QED BY <3>1
  <2>3. CASE /\ Put(NoteBytes(c, n) \o Vln(0)) /\ RBRN' = RBRN
             /\ \/ notes' = notes
                \/ \E s \in FreeSlots : notes' = [notes EXCEPT ![s] =
                     [chan |-> c, num |-> n, intvl |-> Now, next |-> Len(EVNT') + 1]]
    <3>1. Begins(tick_time, c, n)
      BY <1>1, <2>3, ReadingTurns, Times DEF note_on, Put, Written, Begins, FreeSlots
    <3> QED BY <3>1
  <2> QED BY <2>1, <2>2, <2>3
<1>2. CASE note_off
  <2>1. PICK c \in Chans, n \in NoteNums :
          /\ EVNT' = Ended(c, n, Now).cells /\ notes' = Ended(c, n, Now).notes
          /\ RBRN' = Ended(c, n, Now).marks
    BY <1>2 DEF note_off, Ended
  <2>2. Ceases(tick_time, c, n)
    BY <1>2, <2>1, ReadingTurns, Times DEF note_off, Pass, Ceases
  <2> QED BY <2>2
<1>3. CASE branch_point
  <2>1. PICK m \in Marks :
          \/ Pass /\ UNCHANGED <<EVNT, RBRN>>
          \/ Put(MarkBytes(m)) /\ RBRN' = Append(RBRN, [bnum |-> m, offset |-> Len(EVNT)])
    BY <1>3 DEF branch_point
  <2>2. CASE Pass /\ UNCHANGED <<EVNT, RBRN>>
    <3>1. Waits(tick_time)
      BY <1>3, <2>2, ReadingTurns, Times DEF branch_point, Pass, Waits
    <3> QED BY <3>1
  <2>3. CASE Put(MarkBytes(m)) /\ RBRN' = Append(RBRN, [bnum |-> m, offset |-> Len(EVNT)])
    <3>1. Marked(tick_time, m)
      BY <1>3, <2>3, ReadingTurns, Times DEF branch_point, Put, Written, Marked
    <3> QED BY <3>1
  <2> QED BY <2>1, <2>2, <2>3
<1>4. CASE bank_select \/ program \/ copy
  <2>1. CASE Pass /\ EVNT' = EVNT
    <3>1. Waits(tick_time)
      BY <1>4, <2>1, ReadingTurns, Times DEF bank_select, program, copy, Pass, Waits
    <3> QED BY <3>1
  <2>2. CASE Put(OtherBytes) \/ Put(ProgramBytes)
    <3>1. Copies(tick_time)
      BY <1>4, <2>2, ReadingTurns, Times DEF bank_select, program, copy, Put, Written, Copies
    <3> QED BY <3>1
  <2>3. (Pass /\ EVNT' = EVNT) \/ Put(OtherBytes) \/ Put(ProgramBytes)
    BY <1>4 DEF bank_select, program, copy
  <2> QED BY <2>1, <2>2, <2>3
<1>5. CASE name
  <2>1. Waits(tick_time)
    BY <1>5, ReadingTurns, Times DEF name, Pass, Waits
  <2> QED BY <2>1
<1>6. CASE tempo
  <2>1. PICK k \in Ticks : /\ tick_time' = k /\ accum_interval(k)
                           /\ EVNT' = EVNT \o IntervalBytes(delta + Passed(k)) \o OtherBytes
    BY <1>6 DEF tempo
  <2>2. Copies(k)
    BY <1>6, <2>1 DEF tempo, Copies, Turn, Reading
  <2> QED BY <2>2
<1>7. CASE end_of_track
  <2>1. Turn(tick_time)
    BY <1>7 DEF end_of_track, Pass, Turn
  <2>2. Waits(tick_time)
    BY <1>7, <2>1, Times DEF end_of_track, Pass, Waits
  <2> QED BY <2>2
<1> QED BY <1>1, <1>2, <1>3, <1>4, <1>5, <1>6, <1>7 DEF FormStep

(* What they write are cells. *)
LEMMA EventCells ==
  /\ OtherBytes \in Seq(Cell) /\ ProgramBytes \in Seq(Cell) /\ EndBytes \in Seq(Cell)
  /\ \A m \in Marks : /\ MarkBytes(m) \in Seq(Cell) /\ Len(MarkBytes(m)) = 3
                      /\ MarkBytes(m)[1] = [kind |-> "mark", val |-> m]
  /\ \A c \in Chans, n \in NoteNums :
       LET bytes == NoteBytes(c, n) \o Vln(0)
       IN /\ bytes \in Seq(Cell) /\ Len(bytes) = 4
          /\ bytes[1] = [kind |-> "note", chan |-> c, num |-> n]
          /\ bytes[2] = DataCell /\ bytes[3] = DataCell /\ bytes[4] = Vln(0)[1]
<1>1. DataCell \in Cell /\ [kind |-> "other"] \in Cell /\ [kind |-> "end"] \in Cell
  BY DEF DataCell, Cell
<1>2. OtherBytes \in Seq(Cell) /\ ProgramBytes \in Seq(Cell) /\ EndBytes \in Seq(Cell)
  BY <1>1 DEF OtherBytes, ProgramBytes, EndBytes
<1>3. ASSUME NEW m \in Marks
      PROVE  /\ MarkBytes(m) \in Seq(Cell) /\ Len(MarkBytes(m)) = 3
             /\ MarkBytes(m)[1] = [kind |-> "mark", val |-> m]
  <2>1. [kind |-> "mark", val |-> m] \in Cell
    BY DEF Cell
  <2> DEFINE x == [kind |-> "mark", val |-> m]
  <2> HIDE DEF x
  <2>2. MarkBytes(m) = <<x, DataCell, DataCell>>
    BY DEF MarkBytes, x
  <2>3. MarkBytes(m) \in Seq(Cell) /\ Len(MarkBytes(m)) = 3 /\ MarkBytes(m)[1] = x
    BY <1>1, <2>1, <2>2 DEF x
  <2> QED BY <2>3 DEF x
<1>4. ASSUME NEW c \in Chans, NEW n \in NoteNums
      PROVE  /\ NoteBytes(c, n) \o Vln(0) \in Seq(Cell) /\ Len(NoteBytes(c, n) \o Vln(0)) = 4
             /\ (NoteBytes(c, n) \o Vln(0))[1] = [kind |-> "note", chan |-> c, num |-> n]
             /\ (NoteBytes(c, n) \o Vln(0))[2] = DataCell
             /\ (NoteBytes(c, n) \o Vln(0))[3] = DataCell
             /\ (NoteBytes(c, n) \o Vln(0))[4] = Vln(0)[1]
  <2> DEFINE x == [kind |-> "note", chan |-> c, num |-> n]
             A == NoteBytes(c, n)
             B == Vln(0)
  <2>1. x \in Cell
    BY DEF Cell
  <2>2. A = <<x, DataCell, DataCell>>
    BY DEF NoteBytes
  <2> HIDE DEF x, A
  <2>3. A \in Seq(Cell) /\ Len(A) = 3 /\ A[1] = x /\ A[2] = DataCell /\ A[3] = DataCell
    BY <1>1, <2>1, <2>2
  <2>4. B \in Seq(Cell) /\ Len(B) = 1
    BY VlnCells, VlnZero
  <2> HIDE DEF B
  <2>5. /\ A \o B \in Seq(Cell) /\ Len(A \o B) = 4
        /\ \A i \in 1 .. 4 : (A \o B)[i] = IF i <= 3 THEN A[i] ELSE B[i - 3]
    <3>1. /\ A \o B \in Seq(Cell) /\ Len(A \o B) = Len(A) + Len(B)
          /\ \A i \in 1 .. Len(A) + Len(B) :
               (A \o B)[i] = IF i <= Len(A) THEN A[i] ELSE B[i - Len(A)]
      BY <2>3, <2>4, ConcatProperties
    <3> QED BY <2>3, <2>4, <3>1
  <2>6. (A \o B)[1] = x /\ (A \o B)[2] = DataCell /\ (A \o B)[3] = DataCell
    BY <2>3, <2>5
  <2>7. (A \o B)[4] = B[1]
    <3>1. 4 - 3 = 1
      OBVIOUS
    <3> QED BY <2>5, <3>1
  <2> QED BY <2>5, <2>6, <2>7 DEF A, B, x
<1> QED BY <1>2, <1>3, <1>4

----------------------------------------------------------------------------
(* Every note that is on and every branch point keeps its place. *)

ChunkInv == ClockTyped /\ delta \in Nat /\ Places(EVNT, notes, RBRN, interval)

LEMMA PlacesLater ==
  ASSUME NEW E, NEW ns, NEW ms, NEW t \in Nat, NEW u \in Nat, t <= u, Places(E, ns, ms, t)
  PROVE  Places(E, ns, ms, u)
<1>1. ASSUME NEW s \in Slots, ns[s] # Null PROVE ns[s].intvl <= u
  <2>1. ns[s].intvl <= t /\ ns[s] \in NoteRec
    BY <1>1 DEF Places
  <2> QED BY <2>1 DEF NoteRec
<1> QED BY <1>1 DEF Places

(* Two pieces written at the end. *)
LEMMA PlacesPut ==
  ASSUME NEW E, NEW ns, NEW ms, NEW t \in Nat, NEW u \in Nat, t <= u, Places(E, ns, ms, t),
         NEW d \in Nat, NEW bytes \in Seq(Cell)
  PROVE  Places(E \o IntervalBytes(d) \o bytes, ns, ms, u)
<1>1. IntervalBytes(d) \in Seq(Cell)
  BY IntervalCells
<1>2. Places(E \o IntervalBytes(d), ns, ms, u)
  BY <1>1, PlacesExtend
<1> QED BY <1>2, PlacesExtend

(* The last of two pieces, cell by cell. *)
LEMMA PutCells ==
  ASSUME NEW E \in Seq(Cell), NEW I \in Seq(Cell), NEW bytes \in Seq(Cell)
  PROVE  /\ E \o I \o bytes \in Seq(Cell)
         /\ Len(E \o I \o bytes) = Len(E) + Len(I) + Len(bytes)
         /\ \A i \in 1 .. Len(I) : (E \o I \o bytes)[Len(E) + i] = I[i]
         /\ \A i \in 1 .. Len(bytes) : (E \o I \o bytes)[Len(E) + Len(I) + i] = bytes[i]
<1> DEFINE A == E \o I
           l == Len(E)
           m == Len(I)
           n == Len(bytes)
<1>1. l \in Nat /\ m \in Nat /\ n \in Nat
  OBVIOUS
<1>2. /\ A \in Seq(Cell) /\ Len(A) = l + m
      /\ \A i \in 1 .. l + m : A[i] = IF i <= l THEN E[i] ELSE I[i - l]
  BY ConcatProperties
<1> HIDE DEF A
<1>3. /\ A \o bytes \in Seq(Cell) /\ Len(A \o bytes) = Len(A) + n
      /\ \A i \in 1 .. Len(A) + n : (A \o bytes)[i] = IF i <= Len(A) THEN A[i] ELSE bytes[i - Len(A)]
  <2>1. A \in Seq(Cell)
    BY <1>2
  <2> QED BY <2>1, ConcatProperties
<1> DEFINE B == A \o bytes
<1> HIDE DEF B, l, m, n
<1>4. /\ B \in Seq(Cell) /\ Len(B) = l + m + n
      /\ \A i \in 1 .. l + m + n : B[i] = IF i <= l + m THEN A[i] ELSE bytes[i - (l + m)]
  BY <1>2, <1>3 DEF B
<1>5. ASSUME NEW i \in 1 .. m PROVE B[l + i] = I[i]
  <2>1. l + i \in 1 .. l + m /\ l + i \in 1 .. l + m + n /\ ~ (l + i <= l) /\ (l + i) - l = i
    BY <1>1
  <2> QED BY <1>2, <1>4, <2>1
<1>6. ASSUME NEW i \in 1 .. n PROVE B[l + m + i] = bytes[i]
  <2>1. l + m + i \in 1 .. l + m + n /\ ~ (l + m + i <= l + m) /\ (l + m + i) - (l + m) = i
    BY <1>1
  <2> QED BY <1>4, <2>1
<1> QED BY <1>4, <1>5, <1>6 DEF B, A, l, m, n

(* A note begins, in the last four cells. *)
LEMMA PlacesBegin ==
  ASSUME NEW E, NEW ns, NEW ms, NEW t \in Nat, NEW u \in Nat, t <= u, Places(E, ns, ms, t),
         NEW d \in Nat, NEW c \in Chans, NEW n \in NoteNums, NEW s \in Slots
  PROVE  LET F == E \o IntervalBytes(d) \o (NoteBytes(c, n) \o Vln(0))
         IN Places(F, [ns EXCEPT ![s] = [chan |-> c, num |-> n, intvl |-> u, next |-> Len(F) + 1]],
                   ms, u)
<1> DEFINE I == IntervalBytes(d)
           bytes == NoteBytes(c, n) \o Vln(0)
           F == E \o I \o bytes
           r == [chan |-> c, num |-> n, intvl |-> u, next |-> Len(F) + 1]
           newns == [ns EXCEPT ![s] = r]
<1>1. E \in Seq(Cell) /\ I \in Seq(Cell)
  BY IntervalCells DEF Places
<1>2. /\ bytes \in Seq(Cell) /\ Len(bytes) = 4
      /\ bytes[1] = [kind |-> "note", chan |-> c, num |-> n]
      /\ bytes[2] = DataCell /\ bytes[3] = DataCell /\ bytes[4] = Vln(0)[1]
  BY EventCells
<1> HIDE DEF I, bytes
<1>3. /\ F \in Seq(Cell) /\ Len(F) = Len(E) + Len(I) + 4
      /\ \A i \in 1 .. 4 : F[Len(E) + Len(I) + i] = bytes[i]
  <2>1. E \in Seq(Cell) /\ I \in Seq(Cell) /\ bytes \in Seq(Cell)
    BY <1>1, <1>2
  <2>2. /\ F \in Seq(Cell) /\ Len(F) = Len(E) + Len(I) + Len(bytes)
        /\ \A i \in 1 .. Len(bytes) : F[Len(E) + Len(I) + i] = bytes[i]
    BY <2>1, PutCells
  <2> HIDE DEF F
  <2> QED BY <1>2, <2>2
<1>4. Places(F, ns, ms, u)
  BY <1>2, PlacesPut DEF I
<1> HIDE DEF F
<1> DEFINE p == Len(E) + Len(I) + 1
<1>5. p \in Nat \ {0} /\ Len(F) + 1 = p + 4 /\ p = (Len(F) + 1) - 4 /\ p \in 1 .. Len(F) - 3
      /\ Len(F) + 1 \in Nat
  BY <1>1, <1>3
<1>6. F[p] = bytes[1] /\ F[p + 1] = bytes[2] /\ F[p + 2] = bytes[3] /\ F[p + 3] = bytes[4]
  <2>1. /\ p + 1 = Len(E) + Len(I) + 2 /\ p + 2 = Len(E) + Len(I) + 3
        /\ p + 3 = Len(E) + Len(I) + 4
    BY <1>1
  <2> QED BY <1>3, <2>1
<1>7. Sounding(F, p, c, n)
  <2>1. F[p].kind = "note" /\ F[p].chan = c /\ F[p].num = n
    BY <1>2, <1>6
  <2>2. F[p + 1].kind = "data" /\ F[p + 2].kind = "data"
    BY <1>2, <1>6 DEF DataCell
  <2> QED BY <1>2, <1>5, <1>6, <2>1, <2>2 DEF Sounding
<1>8. r.chan = c /\ r.num = n /\ r.intvl = u /\ r.next = Len(F) + 1 /\ r \in NoteRec
  BY <1>5 DEF NoteRec
<1> HIDE DEF r, p
<1>9. /\ ns \in [Slots -> NoteRec \cup {Null}]
      /\ \A v \in Slots : ns[v] # Null =>
           ns[v].intvl <= u /\ Sounding(F, ns[v].next - 4, ns[v].chan, ns[v].num)
      /\ \A v, w \in Slots : ns[v] # Null /\ ns[w] # Null /\ ns[v].next = ns[w].next => v = w
      /\ ms \in Seq(MarkRec) /\ \A i \in 1 .. Len(ms) : Leads(F, ms[i].offset, ms[i].bnum)
  BY <1>4 DEF Places
<1>10. newns \in [Slots -> NoteRec \cup {Null}] /\ newns[s] = r
       /\ \A v \in Slots \ {s} : newns[v] = ns[v]
  BY <1>8, <1>9
<1> HIDE DEF newns
<1>11. ASSUME NEW v \in Slots, newns[v] # Null
       PROVE  newns[v].intvl <= u /\ Sounding(F, newns[v].next - 4, newns[v].chan, newns[v].num)
  <2>1. CASE v = s
    <3>1. newns[v].next - 4 = p
      BY <1>5, <1>8, <1>10, <2>1
    <3> QED BY <1>7, <1>8, <1>10, <2>1, <3>1
  <2>2. CASE v # s
    BY <1>9, <1>10, <1>11, <2>2
  <2> QED BY <2>1, <2>2
<1>12. ASSUME NEW v \in Slots, v # s, newns[v] # Null PROVE newns[v].next # newns[s].next
  <2>1. newns[v] = ns[v] /\ ns[v] # Null /\ ns[v] \in NoteRec
    BY <1>9, <1>10, <1>12
  <2>2. Sounding(E, ns[v].next - 4, ns[v].chan, ns[v].num)
    BY <2>1 DEF Places
  <2>3. ns[v].next \in Nat /\ ns[v].next - 4 \in 1 .. Len(E) - 3
    BY <2>1, <2>2 DEF Sounding, NoteRec
  <2>4. Len(E) \in Nat /\ Len(I) \in Nat
    BY <1>1
  <2>5. ns[v].next # Len(F) + 1
    BY <1>3, <2>3, <2>4
  <2> QED BY <1>8, <1>10, <2>1, <2>5
<1>13. ASSUME NEW v \in Slots, NEW w \in Slots, newns[v] # Null, newns[w] # Null,
              newns[v].next = newns[w].next
       PROVE  v = w
  <2>1. CASE v = s \/ w = s
    BY <1>12, <1>13, <2>1
  <2>2. CASE v # s /\ w # s
    BY <1>9, <1>10, <1>13, <2>2
  <2> QED BY <2>1, <2>2
<1>14. Places(F, newns, ms, u)
  BY <1>3, <1>9, <1>10, <1>11, <1>13 DEF Places
<1> QED BY <1>14 DEF newns, r, F, I, bytes

(* A branch point is logged, and its marker follows the intervals. *)
LEMMA PlacesMark ==
  ASSUME NEW E, NEW ns, NEW ms, NEW t \in Nat, NEW u \in Nat, t <= u, Places(E, ns, ms, t),
         NEW d \in Nat, NEW m \in Marks
  PROVE  Places(E \o IntervalBytes(d) \o MarkBytes(m), ns,
                Append(ms, [bnum |-> m, offset |-> Len(E)]), u)
<1> DEFINE I == IntervalBytes(d)
           bytes == MarkBytes(m)
           F == E \o I \o bytes
           r == [bnum |-> m, offset |-> Len(E)]
           newms == Append(ms, r)
<1>1. /\ E \in Seq(Cell) /\ I \in Seq(Cell)
      /\ \A i \in 1 .. Len(I) : I[i].kind = "interval"
  BY IntervalCells DEF Places
<1>2. bytes \in Seq(Cell) /\ Len(bytes) = 3 /\ bytes[1] = [kind |-> "mark", val |-> m]
  BY EventCells
<1> HIDE DEF I, bytes
<1>3. /\ F \in Seq(Cell) /\ Len(F) = Len(E) + Len(I) + 3
      /\ \A i \in 1 .. Len(I) : F[Len(E) + i] = I[i]
      /\ F[Len(E) + Len(I) + 1] = bytes[1]
  <2>1. E \in Seq(Cell) /\ I \in Seq(Cell) /\ bytes \in Seq(Cell)
    BY <1>1, <1>2
  <2>2. /\ F \in Seq(Cell) /\ Len(F) = Len(E) + Len(I) + Len(bytes)
        /\ \A i \in 1 .. Len(I) : F[Len(E) + i] = I[i]
        /\ \A i \in 1 .. Len(bytes) : F[Len(E) + Len(I) + i] = bytes[i]
    BY <2>1, PutCells
  <2> HIDE DEF F
  <2>3. 1 \in 1 .. Len(bytes)
    BY <1>2
  <2> QED BY <1>2, <2>2, <2>3
<1>4. Places(F, ns, ms, u)
  BY <1>2, PlacesPut DEF I
<1> HIDE DEF F
<1>5. Len(E) \in Nat /\ Len(I) \in Nat
  BY <1>1
<1>6. Leads(F, Len(E), m)
  <2> DEFINE p == Len(E) + Len(I) + 1
  <2>1. p \in Len(E) + 1 .. Len(F)
    BY <1>3, <1>5
  <2>2. F[p].kind = "mark" /\ F[p].val = m
    BY <1>2, <1>3
  <2>3. ASSUME NEW q \in Len(E) + 1 .. p - 1 PROVE F[q].kind = "interval"
    <3>1. q - Len(E) \in 1 .. Len(I) /\ Len(E) + (q - Len(E)) = q
      BY <1>5
    <3>2. F[q] = I[q - Len(E)]
      BY <1>3, <3>1
    <3> QED BY <1>1, <3>1, <3>2
  <2> HIDE DEF p
  <2> QED BY <2>1, <2>2, <2>3 DEF Leads
<1>7. r \in MarkRec /\ r.bnum = m /\ r.offset = Len(E)
  BY <1>5 DEF MarkRec
<1> HIDE DEF r
<1>8. ms \in Seq(MarkRec) /\ \A i \in 1 .. Len(ms) : Leads(F, ms[i].offset, ms[i].bnum)
  BY <1>4 DEF Places
<1>9. newms \in Seq(MarkRec) /\ Len(newms) = Len(ms) + 1 /\ newms[Len(ms) + 1] = r
      /\ \A i \in 1 .. Len(ms) : newms[i] = ms[i]
  BY <1>7, <1>8
<1> HIDE DEF newms
<1>10. ASSUME NEW i \in 1 .. Len(newms) PROVE Leads(F, newms[i].offset, newms[i].bnum)
  <2>1. Len(ms) \in Nat
    BY <1>8
  <2>2. CASE i = Len(ms) + 1
    BY <1>6, <1>7, <1>9, <2>2
  <2>3. CASE i # Len(ms) + 1
    <3>1. i \in 1 .. Len(ms)
      BY <1>9, <2>1, <2>3
    <3> QED BY <1>8, <1>9, <3>1
  <2> QED BY <2>2, <2>3
<1>11. Places(F, ns, newms, u)
  BY <1>4, <1>9, <1>10 DEF Places
<1> QED BY <1>11 DEF newms, r, F, I, bytes

LEMMA PlacesEnd ==
  ASSUME NEW t \in Nat, NEW u \in Nat, t <= u, Places(EVNT, notes, RBRN, t), NEW c, NEW n
  PROVE  Places(Ended(c, n, u).cells, Ended(c, n, u).notes, Ended(c, n, u).marks, u)
<1>1. Places(EVNT, notes, RBRN, u)
  BY PlacesLater
<1>2. /\ EVNT \in Seq(Cell) /\ notes \in [Slots -> NoteRec \cup {Null}]
      /\ RBRN \in Seq(MarkRec)
  BY <1>1 DEF Places
<1> DEFINE o == Output
<1>3. o = [cells |-> EVNT, notes |-> notes, marks |-> RBRN]
  BY DEF Output
<1> HIDE DEF o
<1>4. /\ o \in [cells : Seq(Cell), notes : [Slots -> NoteRec \cup {Null}], marks : Seq(MarkRec)]
      /\ o.cells = EVNT /\ o.notes = notes /\ o.marks = RBRN
  BY <1>2, <1>3
<1>5. o \in Outputs(u)
  BY <1>1, <1>4 DEF Outputs
<1>6. Ended(c, n, u) \in Outputs(u)
  BY <1>5, EndedKeeps DEF o
<1> QED BY <1>6 DEF Outputs

LEMMA FormInitChunk ==
  ASSUME FormInit
  PROVE  ChunkInv
<1>1. ClockTyped /\ interval = 0 /\ delta = 0
  BY FormInitClock DEF ClockInv, FormInit
<1>2. EVNT = <<>> /\ RBRN = <<>> /\ notes = [s \in Slots |-> Null]
  BY DEF FormInit
<1>3. /\ EVNT \in Seq(Cell) /\ RBRN \in Seq(MarkRec) /\ Len(RBRN) = 0
      /\ notes \in [Slots -> NoteRec \cup {Null}] /\ \A s \in Slots : notes[s] = Null
  BY <1>2
<1>4. 1 .. Len(RBRN) = {}
  BY <1>3
<1>5. Places(EVNT, notes, RBRN, interval)
  BY <1>3, <1>4 DEF Places
<1> QED BY <1>1, <1>5 DEF ChunkInv

LEMMA StepChunk ==
  ASSUME ChunkInv, FormStep
  PROVE  ChunkInv'
<1>1. ClockTyped /\ delta \in Nat /\ Places(EVNT, notes, RBRN, interval)
      /\ interval \in Nat /\ tick_time \in Ticks \cup {Tick}
  BY DEF ChunkInv, ClockTyped
<1>2. ASSUME NEW k \in Ticks \cup {tick_time}, Turn(k)
      PROVE  /\ ClockTyped' /\ Passed(k) \in Nat /\ delta + Passed(k) \in Nat
             /\ interval + Passed(k) \in Nat /\ interval <= interval + Passed(k)
             /\ interval' = interval + Passed(k)
  <2>1. ClockTyped' /\ Passed(k) \in Nat /\ interval' = interval + Passed(k)
    BY <1>1, <1>2, TurnKeepsTypes
  <2> QED BY <1>1, <2>1
<1>3. ASSUME NEW k \in Ticks \cup {tick_time}, Waits(k) PROVE ChunkInv'
  <2> DEFINE u == interval + Passed(k)
  <2>1. /\ ClockTyped' /\ u \in Nat /\ interval <= u /\ interval' = u /\ delta' \in Nat
        /\ EVNT' = EVNT /\ notes' = notes /\ RBRN' = RBRN
    BY <1>2, <1>3 DEF Waits
  <2> HIDE DEF u
  <2>2. Places(EVNT, notes, RBRN, u)
    BY <1>1, <2>1, PlacesLater
  <2> QED BY <2>1, <2>2 DEF ChunkInv
<1>4. ASSUME NEW k \in Ticks \cup {tick_time}, Copies(k) PROVE ChunkInv'
  <2> DEFINE u == interval + Passed(k)
             d == delta + Passed(k)
  <2>1. /\ ClockTyped' /\ u \in Nat /\ interval <= u /\ interval' = u /\ delta' \in Nat /\ d \in Nat
        /\ notes' = notes /\ RBRN' = RBRN
    BY <1>2, <1>4 DEF Copies
  <2>2. PICK bytes \in {OtherBytes, ProgramBytes} : EVNT' = EVNT \o IntervalBytes(d) \o bytes
    BY <1>4 DEF Copies
  <2> HIDE DEF u, d
  <2>3. bytes \in Seq(Cell)
    BY EventCells
  <2>4. Places(EVNT \o IntervalBytes(d) \o bytes, notes, RBRN, u)
    BY <1>1, <2>1, <2>3, PlacesPut
  <2> QED BY <2>1, <2>2, <2>4 DEF ChunkInv
<1>5. ASSUME NEW c \in Chans, NEW n \in NoteNums, Begins(tick_time, c, n) PROVE ChunkInv'
  <2> DEFINE u == interval + Passed(tick_time)
             d == delta + Passed(tick_time)
             F == EVNT \o IntervalBytes(d) \o (NoteBytes(c, n) \o Vln(0))
             begun(s) == [notes EXCEPT ![s] =
                            [chan |-> c, num |-> n, intvl |-> u, next |-> Len(F) + 1]]
  <2>1. /\ ClockTyped' /\ u \in Nat /\ interval <= u /\ interval' = u /\ delta' \in Nat /\ d \in Nat
        /\ EVNT' = F /\ RBRN' = RBRN
    BY <1>2, <1>5 DEF Begins
  <2>2. notes' = notes \/ \E s \in Slots : notes' = begun(s)
    <3>1. notes' = notes \/ \E s \in Slots : notes' = [notes EXCEPT ![s] =
                            [chan |-> c, num |-> n, intvl |-> u, next |-> Len(EVNT') + 1]]
      BY <1>5 DEF Begins
    <3> HIDE DEF F, u
    <3> QED BY <2>1, <3>1
  <2> HIDE DEF u, d
  <2>3. CASE notes' = notes
    <3>1. NoteBytes(c, n) \o Vln(0) \in Seq(Cell)
      BY EventCells
    <3>2. Places(F, notes, RBRN, u)
      BY <1>1, <2>1, <3>1, PlacesPut
    <3> HIDE DEF F
    <3> QED BY <2>1, <2>3, <3>2 DEF ChunkInv
  <2>4. CASE \E s \in Slots : notes' = begun(s)
    <3>1. PICK s \in Slots : notes' = begun(s)
      BY <2>4
    <3>2. Places(F, begun(s), RBRN, u)
      BY <1>1, <2>1, PlacesBegin
    <3> HIDE DEF F, begun
    <3> QED BY <2>1, <3>1, <3>2 DEF ChunkInv
  <2> QED BY <2>2, <2>3, <2>4
<1>6. ASSUME NEW c \in Chans, NEW n \in NoteNums, Ceases(tick_time, c, n) PROVE ChunkInv'
  <2> DEFINE u == interval + Passed(tick_time)
  <2>1. /\ ClockTyped' /\ u \in Nat /\ interval <= u /\ interval' = u /\ delta' \in Nat
        /\ EVNT' = Ended(c, n, u).cells /\ notes' = Ended(c, n, u).notes
        /\ RBRN' = Ended(c, n, u).marks
    BY <1>2, <1>6 DEF Ceases
  <2> HIDE DEF u
  <2>2. Places(Ended(c, n, u).cells, Ended(c, n, u).notes, Ended(c, n, u).marks, u)
    BY <1>1, <2>1, PlacesEnd
  <2> QED BY <2>1, <2>2 DEF ChunkInv
<1>7. ASSUME NEW m \in Marks, Marked(tick_time, m) PROVE ChunkInv'
  <2> DEFINE u == interval + Passed(tick_time)
             d == delta + Passed(tick_time)
  <2>1. /\ ClockTyped' /\ u \in Nat /\ interval <= u /\ interval' = u /\ delta' \in Nat /\ d \in Nat
        /\ EVNT' = EVNT \o IntervalBytes(d) \o MarkBytes(m) /\ notes' = notes
        /\ RBRN' = Append(RBRN, [bnum |-> m, offset |-> Len(EVNT)])
    BY <1>2, <1>7 DEF Marked
  <2> HIDE DEF u, d
  <2>2. Places(EVNT \o IntervalBytes(d) \o MarkBytes(m), notes,
               Append(RBRN, [bnum |-> m, offset |-> Len(EVNT)]), u)
    BY <1>1, <2>1, PlacesMark
  <2> QED BY <2>1, <2>2 DEF ChunkInv
<1>8. CASE finish
  <2>1. /\ EVNT' = EVNT \o IntervalBytes(delta) \o EndBytes /\ delta' = 0
        /\ interval' = interval /\ notes' = notes /\ RBRN' = RBRN
    BY <1>8 DEF finish
  <2>2. Places(EVNT \o IntervalBytes(delta) \o EndBytes, notes, RBRN, interval)
    BY <1>1, EventCells, PlacesPut
  <2>3. ClockTyped'
    BY <1>1, <1>8 DEF finish, reader, times, ClockTyped
  <2> QED BY <2>1, <2>2, <2>3 DEF ChunkInv
<1> QED BY <1>3, <1>4, <1>5, <1>6, <1>7, <1>8, ChunkSteps

LEMMA NextChunk ==
  ASSUME ChunkInv, [Next]_toolvars
  PROVE  ChunkInv'
<1>1. CASE UNCHANGED formvars
  BY <1>1 DEF formvars, reader, clock, times, ChunkInv, ClockTyped
<1>2. CASE FormStep
  BY <1>2, StepChunk
<1> QED BY <1>1, <1>2, ToolSteps

(* At every event of every song, each note still on points behind its own  *)
(* empty duration and each branch point leads to its marker past intervals *)
(* only, however often note_off has lengthened what lies before them.      *)
THEOREM PlacesKeptAlways == Spec => [](NotesKeepPlace /\ BranchesLead)
<1>1. Init => ChunkInv
  BY FormInitChunk DEF Init
<1>2. ChunkInv /\ [Next]_toolvars => ChunkInv'
  BY NextChunk
<1>3. ChunkInv => NotesKeepPlace /\ BranchesLead
  <2> SUFFICES ASSUME ChunkInv PROVE NotesKeepPlace /\ BranchesLead
    OBVIOUS
  <2>1. Places(EVNT, notes, RBRN, interval)
    BY DEF ChunkInv
  <2>2. EVNT \in Seq(Cell) /\ RBRN \in Seq(MarkRec)
    BY <2>1 DEF Places
  <2>3. NotesKeepPlace
    <3> SUFFICES ASSUME NEW s \in Slots, notes[s] # Null
                 PROVE  LET p == notes[s].next - 4 IN
                        /\ p \in DOMAIN EVNT /\ EVNT[p].kind = "note"
                        /\ EVNT[p].chan = notes[s].chan /\ EVNT[p].num = notes[s].num
                        /\ EVNT[p + 3] = Vln(0)[1]
      BY DEF NotesKeepPlace
    <3>1. Sounding(EVNT, notes[s].next - 4, notes[s].chan, notes[s].num)
      BY <2>1 DEF Places
    <3> DEFINE p == notes[s].next - 4
    <3> HIDE DEF p
    <3>2. p \in 1 .. Len(EVNT) - 3 => p \in DOMAIN EVNT
      BY <2>2
    <3> QED BY <3>1, <3>2 DEF Sounding, p
  <2>4. BranchesLead
    <3>1. DOMAIN RBRN = 1 .. Len(RBRN)
      BY <2>2
    <3> QED BY <2>1, <3>1 DEF Places, Leads, BranchesLead
  <2> QED BY <2>3, <2>4
<1> QED BY <1>1, <1>2, <1>3, PTL DEF Spec

----------------------------------------------------------------------------
(* MIDIREC: the numbers it writes, as MIDILOG reads them.                  *)

LEMMA Quotient ==
  ASSUME NEW M \in Nat \ {0}, NEW q \in Nat, NEW r \in 0 .. M - 1, NEW x, x = M * q + r
  PROVE  x \in Nat /\ x \div M = q /\ x % M = r
<1>1. M * q \in Nat
  OBVIOUS
<1>2. x \in Nat
  BY <1>1
<1> PICK p : p = x \div M
  OBVIOUS
<1> PICK s : s = x % M
  OBVIOUS
<1>3. p \in Nat /\ s \in 0 .. M - 1 /\ x = M * p + s
  BY <1>2, DivMod
<1>4. ASSUME NEW y \in Nat, NEW z \in Nat, y < z PROVE M * y + M <= M * z
  <2>1. (y + 1) * M <= z * M
    BY <1>4, ProductsGrow
  <2>2. (y + 1) * M = M * y + M /\ z * M = M * z
    OBVIOUS
  <2> QED BY <2>1, <2>2
<1>5. p = q
  <2> DEFINE mp == M * p
             mq == M * q
  <2>1. mp \in Nat /\ mq \in Nat
    BY <1>3
  <2>2. (p < q => mp + M <= mq) /\ (q < p => mq + M <= mp)
    BY <1>3, <1>4
  <2>3. x = mp + s /\ x = mq + r
    BY <1>3
  <2> HIDE DEF mp, mq
  <2> QED BY <1>3, <2>1, <2>2, <2>3
<1>6. s = r
  <2> DEFINE mq == M * q
  <2>1. mq \in Nat /\ x = mq + s /\ x = mq + r
    BY <1>1, <1>3, <1>5
  <2> HIDE DEF mq
  <2> QED BY <1>3, <2>1
<1> QED BY <1>2, <1>5, <1>6

LEMMA Distributes ==
  ASSUME NEW x \in Nat, NEW y \in Nat, NEW z \in Nat
  PROVE  z * (x + y) = z * x + z * y
  BY Z3

LEMMA Associates ==
  ASSUME NEW x \in Nat, NEW z \in Nat
  PROVE  z * (z * x) = (z * z) * x
  BY Z3

LEMMA SmallMod ==
  ASSUME NEW M \in Nat \ {0}, NEW x \in 0 .. M - 1
  PROVE  x % M = x
  BY Z3

LEMMA NotBelow ==
  ASSUME NEW x \in Nat, NEW y \in Nat, NEW u \in Nat, NEW v \in Nat, x = u + v, y <= u
  PROVE  ~ (x < y)
  OBVIOUS

(* A number of three digits. *)
LEMMA ThreeDigits ==
  ASSUME NEW d \in Nat, d < Radix * Radix * Radix
  PROVE  /\ Digit(d, 1) \in 0 .. Radix - 1 /\ Digit(d, Radix) \in 0 .. Radix - 1
         /\ Digit(d, Radix * Radix) \in 0 .. Radix - 1
         /\ d = (Digit(d, Radix * Radix) * Radix + Digit(d, Radix)) * Radix + Digit(d, 1)
<1> PICK R : R = Radix
  OBVIOUS
<1>1. R \in Nat \ {0}
  BY MidiLogAssumption
<1> PICK q : q = d \div R
  OBVIOUS
<1> PICK a : a = q \div R
  OBVIOUS
<1> PICK b : b = q % R
  OBVIOUS
<1> PICK c : c = d % R
  OBVIOUS
<1>2. q \in Nat /\ c \in 0 .. R - 1 /\ d = R * q + c
  BY <1>1, DivMod
<1>3. a \in Nat /\ b \in 0 .. R - 1 /\ q = R * a + b
  BY <1>1, <1>2, DivMod
<1> PICK S : S = R * R
  OBVIOUS
<1> PICK r : r = R * b + c
  OBVIOUS
<1>4. S \in Nat \ {0} /\ r \in 0 .. S - 1 /\ d = S * a + r
  <2>1. R * b \in Nat /\ R * b + R <= S
    <3>1. (b + 1) * R <= R * R /\ b * R \in Nat
      BY <1>1, <1>3, ProductsGrow
    <3>2. (b + 1) * R = b * R + R /\ b * R = R * b
      BY <1>1, <1>3
    <3> QED BY <3>1, <3>2
  <2>2. R * (R * a + b) = (R * R) * a + R * b
    <3>1. R * a \in Nat /\ R \in Nat /\ b \in Nat
      BY <1>1, <1>3
    <3>2. R * (R * a + b) = R * (R * a) + R * b
      BY <3>1, Distributes
    <3>3. R * (R * a) = (R * R) * a
      BY <1>3, <3>1, Associates
    <3> QED BY <3>2, <3>3
  <2> DEFINE rb == R * b
             sa == (R * R) * a
  <2>3. sa \in Nat
    BY <1>1, <1>3
  <2>4. d = sa + rb + c /\ rb + R <= S /\ rb \in Nat /\ r = rb + c
    BY <1>2, <1>3, <2>1, <2>2
  <2>5. S \in Nat
    BY <1>1
  <2>6. S * a = sa
    OBVIOUS
  <2> HIDE DEF rb, sa
  <2> QED BY <1>1, <1>2, <2>3, <2>4, <2>5, <2>6
<1>5. d \div S = a
  BY <1>3, <1>4, Quotient
<1>6. a < R
  <2>1. SUFFICES ASSUME R <= a PROVE FALSE
    BY <1>1, <1>3
  <2>2. R * S <= a * S
    BY <1>1, <1>3, <1>4, <2>1, ProductsGrow
  <2> DEFINE rs == R * S
             as == a * S
  <2>3. R * R * R = rs /\ S * a = as
    BY <1>1, <1>3
  <2>4. rs \in Nat /\ as \in Nat
    BY <1>1, <1>3, <1>4
  <2>5. d < rs /\ d = as + r
    BY <1>4, <2>3
  <2>6. rs <= as /\ r \in Nat
    BY <1>4, <2>2
  <2> HIDE DEF rs, as
  <2> QED BY <2>4, <2>5, <2>6, NotBelow
<1>7. a % R = a /\ c % R = c
  <2>1. a \in 0 .. R - 1
    BY <1>1, <1>3, <1>6
  <2> QED BY <1>1, <1>2, <2>1, SmallMod
<1>8. d \div 1 = d
  OBVIOUS
<1>9. Digit(d, 1) = c /\ Digit(d, R) = b /\ Digit(d, R * R) = a
  BY <1>5, <1>7, <1>8 DEF Digit
<1>10. d = (a * R + b) * R + c
  <2>1. a * R = R * a /\ R * a \in Nat /\ q = a * R + b
    BY <1>1, <1>3
  <2>2. q * R = R * q
    BY <1>1, <1>2
  <2> QED BY <1>2, <2>1, <2>2
<1>11. a \in 0 .. R - 1
  BY <1>1, <1>3, <1>6
<1> QED BY <1>2, <1>3, <1>9, <1>10, <1>11

(* The bytes of s are in b, from p on. *)
Stands(b, p, s) ==
  /\ p + Length(s) - 1 <= Length(b)
  /\ \A j \in 1 .. Length(s) : b[p + j - 1] = s[j]

(* Three digits are enough for d. *)
Short(d) == d \in Nat /\ d < Radix * Radix * Radix

(* The number whose digits V is. *)
Spells(V) ==
  IF Length(V) = 1 THEN V[1]
  ELSE IF Length(V) = 2 THEN (V[1] - 128) * Radix + V[2]
  ELSE ((V[1] - 128) * Radix + (V[2] - 128)) * Radix + V[3]

LEMMA VlnForm ==
  ASSUME NEW d, Short(d), NEW V, V = write_VLN(d)
  PROVE  /\ V \in Seq(Byte) /\ Length(V) \in 1 .. 3
         /\ \A j \in 1 .. Length(V) - 1 : V[j] \in 128 .. 255
         /\ V[Length(V)] \in 0 .. 127
         /\ d = Spells(V)
<1> PICK a : a = Digit(d, Radix * Radix)
  OBVIOUS
<1> PICK b : b = Digit(d, Radix)
  OBVIOUS
<1> PICK c : c = Digit(d, 1)
  OBVIOUS
<1>1. d = (a * Radix + b) * Radix + c
  BY ThreeDigits DEF Short
<1>2. Radix \in 1 .. 128
  BY MidiLogAssumption
<1>3. a \in 0 .. 127 /\ b \in 0 .. 127 /\ c \in 0 .. 127
  <2>1. a \in 0 .. Radix - 1 /\ b \in 0 .. Radix - 1 /\ c \in 0 .. Radix - 1
    BY ThreeDigits DEF Short
  <2> QED BY <1>2, <2>1
<1> DEFINE x == a + 128
           y == b + 128
<1>4. x \in 128 .. 255 /\ y \in 128 .. 255 /\ x - 128 = a /\ y - 128 = b
      /\ (a = 0 <=> ~ (x > 128)) /\ (b = 0 <=> ~ (y > 128))
  BY <1>3
<1> HIDE DEF x, y
<1>5. V = IF x > 128 THEN <<x, y, c>> ELSE IF y > 128 THEN <<y, c>> ELSE <<c>>
  <2>1. write_VLN(d) = LET high == <<x, y, c>>
                       IN IF high[1] > 128 THEN high
                          ELSE IF high[2] > 128 THEN Tail(high) ELSE <<high[3]>>
    BY DEF write_VLN, x, y
  <2>2. Tail(<<x, y, c>>) = <<y, c>>
    OBVIOUS
  <2>3. <<x, y, c>>[1] = x /\ <<x, y, c>>[2] = y /\ <<x, y, c>>[3] = c
    OBVIOUS
  <2> QED BY <2>1, <2>2, <2>3
<1>6. x \in Byte /\ y \in Byte /\ c \in Byte
  BY <1>3, <1>4 DEF Byte
<1>7. Radix \in Nat /\ 0 * Radix = 0
  BY <1>2
<1>8. CASE x > 128
  <2>1. V = <<x, y, c>>
    BY <1>5, <1>8
  <2>2. V \in Seq(Byte) /\ Len(V) = 3 /\ V[1] = x /\ V[2] = y /\ V[3] = c
    BY <1>6, <2>1
  <2>3. Length(V) = 3
    BY <2>2 DEF Length
  <2> HIDE DEF Length
  <2>4. \A j \in 1 .. Length(V) - 1 : V[j] \in 128 .. 255
    <3>1. \A j \in 1 .. Length(V) - 1 : j = 1 \/ j = 2
      BY <2>3
    <3> QED BY <1>4, <2>2, <3>1
  <2>5. d = ((V[1] - 128) * Radix + (V[2] - 128)) * Radix + V[3]
    BY <1>1, <1>4, <2>2
  <2> QED BY <1>3, <2>2, <2>3, <2>4, <2>5 DEF Spells
<1>9. CASE ~ (x > 128) /\ y > 128
  <2>1. V = <<y, c>>
    BY <1>5, <1>9
  <2>2. V \in Seq(Byte) /\ Len(V) = 2 /\ V[1] = y /\ V[2] = c
    BY <1>6, <2>1
  <2>3. Length(V) = 2
    BY <2>2 DEF Length
  <2>4. a = 0
    BY <1>4, <1>9
  <2>5. d = b * Radix + c
    <3>1. a * Radix + b = b
      BY <1>3, <1>7, <2>4
    <3> QED BY <1>1, <3>1
  <2>6. \A j \in 1 .. Length(V) - 1 : V[j] \in 128 .. 255
    <3>1. \A j \in 1 .. Length(V) - 1 : j = 1
      BY <2>3
    <3> QED BY <1>4, <2>2, <3>1
  <2>7. d = (V[1] - 128) * Radix + V[2]
    BY <1>4, <2>2, <2>5
  <2> QED BY <1>3, <2>2, <2>3, <2>6, <2>7 DEF Spells
<1>10. CASE ~ (x > 128) /\ ~ (y > 128)
  <2>1. V = <<c>>
    BY <1>5, <1>10
  <2>2. V \in Seq(Byte) /\ Len(V) = 1 /\ V[1] = c
    BY <1>6, <2>1
  <2>3. Length(V) = 1
    BY <2>2 DEF Length
  <2>4. a = 0 /\ b = 0
    BY <1>4, <1>10
  <2>5. d = c
    <3>1. (a * Radix + b) * Radix = 0
      BY <1>7, <2>4
    <3> QED BY <1>1, <1>3, <3>1
  <2>6. 1 .. 0 = {}
    OBVIOUS
  <2> QED BY <1>3, <2>2, <2>3, <2>5, <2>6 DEF Spells
<1> QED BY <1>8, <1>9, <1>10

LEMMA VlnDigits ==
  ASSUME NEW d, Short(d)
  PROVE  /\ Length(write_VLN(d)) \in 1 .. 3
         /\ \A j \in 1 .. Length(write_VLN(d)) - 1 : write_VLN(d)[j] \in 128 .. 255
         /\ write_VLN(d)[Length(write_VLN(d))] \in 0 .. 127
<1> PICK V : V = write_VLN(d)
  OBVIOUS
<1> DEFINE Form == /\ V \in Seq(Byte) /\ Length(V) \in 1 .. 3
                   /\ \A j \in 1 .. Length(V) - 1 : V[j] \in 128 .. 255
                   /\ V[Length(V)] \in 0 .. 127
                   /\ d = Spells(V)
<1>1. Form
  BY VlnForm, ZenonT(60)
<1> QED BY <1>1, ZenonT(60)

(* The value of at most three digits. *)
LEMMA VlnValue ==
  ASSUME NEW b, NEW p \in Nat, NEW e \in p .. p + 2, VlnEnd(b, p) = e,
         \A q \in p .. e : b[q] \in 0 .. 255
  PROVE  get_vln(b, p) =
           IF e = p THEN b[p] % 128
           ELSE IF e = p + 1 THEN (b[p] % 128) * Radix + (b[p + 1] % 128)
           ELSE ((b[p] % 128) * Radix + (b[p + 1] % 128)) * Radix + (b[p + 2] % 128)
<1> DEFINE x(q) == b[q] % 128
           f(q) == IF q < p THEN 0 ELSE IF q = p THEN x(p)
                   ELSE IF q = p + 1 THEN x(p) * Radix + x(p + 1)
                   ELSE (x(p) * Radix + x(p + 1)) * Radix + x(p + 2)
           Rec(h) == h = [q \in p - 1 .. e |-> IF q < p THEN 0 ELSE h[q - 1] * Radix + (b[q] % 128)]
           g == CHOOSE h : Rec(h)
<1>1. get_vln(b, p) = g[e]
  BY DEF get_vln
<1>2. Radix \in Nat
  BY MidiLogAssumption
<1>3. \A q \in p .. e : x(q) \in Nat
  BY SMTT(30)
<1>4. Rec([q \in p - 1 .. e |-> f(q)])
  <2> DEFINE h == [q \in p - 1 .. e |-> f(q)]
  <2> SUFFICES ASSUME NEW q \in p - 1 .. e
               PROVE  f(q) = IF q < p THEN 0 ELSE h[q - 1] * Radix + x(q)
    OBVIOUS
  <2>1. CASE q < p
    BY <2>1
  <2>2. CASE q = p
    <3>1. p - 1 \in p - 1 .. e /\ f(p - 1) = 0
      OBVIOUS
    <3>2. h[p - 1] = 0
      BY <3>1
    <3>3. x(p) \in Nat
      BY <1>3
    <3> HIDE DEF h, x
    <3>4. h[q - 1] * Radix + x(q) = x(p)
      BY <1>2, <2>2, <3>2, <3>3
    <3> QED BY <2>2, <3>4
  <2>3. CASE q = p + 1
    <3>1. p \in p - 1 .. e /\ q - 1 = p
      BY <2>3
    <3>2. f(p) = x(p) /\ f(p + 1) = x(p) * Radix + x(p + 1)
      OBVIOUS
    <3>3. h[q - 1] = x(p)
      BY <3>1, <3>2
    <3> HIDE DEF h, x
    <3> QED BY <2>3, <3>2, <3>3
  <2>4. CASE q = p + 2
    <3>1. p + 1 \in p - 1 .. e /\ q - 1 = p + 1
      BY <2>4
    <3>2. f(p + 1) = x(p) * Radix + x(p + 1)
          /\ f(p + 2) = (x(p) * Radix + x(p + 1)) * Radix + x(p + 2)
      OBVIOUS
    <3>3. h[q - 1] = x(p) * Radix + x(p + 1)
      BY <3>1, <3>2
    <3> HIDE DEF h, x
    <3> QED BY <2>4, <3>2, <3>3
  <2>5. q < p \/ q = p \/ q = p + 1 \/ q = p + 2
    OBVIOUS
  <2> HIDE DEF f, h, x
  <2> QED BY <2>1, <2>2, <2>3, <2>4, <2>5
<1>5. Rec(g)
  <2> HIDE DEF Rec, f
  <2> QED BY <1>4
<1>6. \A q \in p - 1 .. e : g[q] = IF q < p THEN 0 ELSE g[q - 1] * Radix + x(q)
  <2> HIDE DEF g
  <2> QED BY <1>5
<1> HIDE DEF g, Rec
<1>7. g[p - 1] = 0
  BY <1>6
<1>8. g[p] = x(p)
  <2>1. p \in p - 1 .. e /\ p \in p .. e
    OBVIOUS
  <2>2. g[p] = g[p - 1] * Radix + x(p)
    BY <1>6, <2>1
  <2>3. x(p) \in Nat
    BY <1>3, <2>1
  <2> HIDE DEF x
  <2> QED BY <1>2, <1>7, <2>2, <2>3
<1>9. p + 1 <= e => g[p + 1] = x(p) * Radix + x(p + 1)
  <2>1. p + 1 <= e => p + 1 \in p - 1 .. e /\ (p + 1) - 1 = p
    OBVIOUS
  <2>2. p + 1 <= e => g[p + 1] = g[p] * Radix + x(p + 1)
    BY <1>6, <2>1
  <2> HIDE DEF x
  <2> QED BY <1>8, <2>2
<1>10. p + 2 <= e => g[p + 2] = (x(p) * Radix + x(p + 1)) * Radix + x(p + 2)
  <2>1. p + 2 <= e => p + 2 \in p - 1 .. e /\ (p + 2) - 1 = p + 1 /\ p + 1 <= e
    OBVIOUS
  <2>2. p + 2 <= e => g[p + 2] = g[p + 1] * Radix + x(p + 2)
    BY <1>6, <2>1
  <2> HIDE DEF x
  <2> QED BY <1>9, <2>1, <2>2
<1>11. e = p \/ e = p + 1 \/ e = p + 2
  OBVIOUS
<1> HIDE DEF x
<1>12. g[e] = IF e = p THEN x(p) ELSE IF e = p + 1 THEN x(p) * Radix + x(p + 1)
              ELSE (x(p) * Radix + x(p + 1)) * Radix + x(p + 2)
  BY <1>8, <1>9, <1>10, <1>11
<1> QED BY <1>1, <1>12 DEF x

(* A number that stands at p is read. *)
LEMMA VlnRead ==
  ASSUME NEW d, Short(d), NEW b, NEW p \in Nat, Stands(b, p, write_VLN(d))
  PROVE  VlnEnd(b, p) = p + Length(write_VLN(d)) - 1 /\ get_vln(b, p) = d
<1> PICK V : V = write_VLN(d)
  OBVIOUS
<1> PICK n : n = Length(V)
  OBVIOUS
<1>1. /\ n \in 1 .. 3
      /\ \A j \in 1 .. n - 1 : V[j] \in 128 .. 255
      /\ V[n] \in 0 .. 127
  <2>1. Length(V) \in 1 .. 3 /\ V[Length(V)] \in 0 .. 127
    BY VlnDigits
  <2>2. \A j \in 1 .. Length(V) - 1 : V[j] \in 128 .. 255
    BY <2>1, VlnDigits
  <2> QED BY <2>1, <2>2
<1>13. d = IF n = 1 THEN V[1]
           ELSE IF n = 2 THEN (V[1] - 128) * Radix + V[2]
           ELSE ((V[1] - 128) * Radix + (V[2] - 128)) * Radix + V[3]
  BY VlnForm DEF Spells
<1>2. \A j \in 1 .. n : b[p + j - 1] = V[j]
  BY DEF Stands
<1> PICK e : e = p + n - 1
  OBVIOUS
<1>3. e \in p .. p + 2
  BY <1>1
<1>4. b[e] \in 0 .. 127
  <2>1. n \in 1 .. n
    BY <1>1
  <2> QED BY <1>1, <1>2, <2>1
<1>5. ASSUME NEW r \in p .. e - 1 PROVE b[r] \in 128 .. 255
  <2>1. r - p + 1 \in 1 .. n - 1 /\ r - p + 1 \in 1 .. n /\ p + (r - p + 1) - 1 = r
    BY <1>1
  <2>2. b[p + (r - p + 1) - 1] = V[r - p + 1]
    BY <1>2, <2>1
  <2>3. V[r - p + 1] \in 128 .. 255
    BY <1>1, <2>1
  <2> QED BY <2>1, <2>2, <2>3
<1>6. VlnEnd(b, p) = e
  <2> DEFINE Is(q) == /\ b[q] < 128 \/ q = p + 3
                      /\ \A r \in p .. q - 1 : b[r] >= 128
  <2>1. e \in p .. p + 3 /\ Is(e)
    BY <1>3, <1>4, <1>5
  <2>2. ASSUME NEW q \in p .. p + 3, Is(q) PROVE q = e
    <3>1. ~ (q < e)
      <4> SUFFICES ASSUME q < e PROVE FALSE
        OBVIOUS
      <4>1. q \in p .. e - 1 /\ q # p + 3
        BY <1>3
      <4>2. b[q] \in 128 .. 255
        BY <1>5, <4>1
      <4> QED BY <2>2, <4>1, <4>2
    <3>2. ~ (e < q)
      <4> SUFFICES ASSUME e < q PROVE FALSE
        OBVIOUS
      <4>1. e \in p .. q - 1
        BY <1>3
      <4>2. b[e] >= 128
        BY <2>2, <4>1
      <4> QED BY <1>4, <4>2
    <3> QED BY <1>3, <3>1, <3>2
  <2>3. VlnEnd(b, p) = CHOOSE q \in p .. p + 3 : Is(q)
    BY DEF VlnEnd
  <2> HIDE DEF Is
  <2> QED BY <2>1, <2>2, <2>3
<1>7. \A q \in p .. e : b[q] \in 0 .. 255
  <2> SUFFICES ASSUME NEW q \in p .. e PROVE b[q] \in 0 .. 255
    OBVIOUS
  <2>1. CASE q = e
    BY <1>4, <2>1
  <2>2. CASE q # e
    <3>1. q \in p .. e - 1
      BY <1>3, <2>2
    <3> QED BY <1>5, <3>1
  <2> QED BY <2>1, <2>2
<1>8. \A y \in 128 .. 255 : y % 128 = y - 128
  BY Z3
<1>9. \A y \in 0 .. 127 : y % 128 = y
  BY Z3
<1>10. CASE n = 1
  <2>1. e = p /\ b[p] = V[1] /\ V[1] \in 0 .. 127
    BY <1>1, <1>2, <1>10
  <2>2. get_vln(b, p) = b[p] % 128
    BY <1>3, <1>6, <1>7, <2>1, VlnValue
  <2> QED BY <1>6, <1>9, <1>10, <1>13, <2>1, <2>2
<1>11. CASE n = 2
  <2>1. e = p + 1 /\ b[p] = V[1] /\ b[p + 1] = V[2] /\ V[1] \in 128 .. 255 /\ V[2] \in 0 .. 127
    <3>1. 1 \in 1 .. n /\ 2 \in 1 .. n /\ 1 \in 1 .. n - 1 /\ p + 1 - 1 = p /\ p + 2 - 1 = p + 1
      BY <1>11
    <3> QED BY <1>1, <1>2, <1>11, <3>1
  <2>2. get_vln(b, p) = (b[p] % 128) * Radix + (b[p + 1] % 128)
    <3>1. e # p
      BY <2>1
    <3> QED BY <1>3, <1>6, <1>7, <2>1, <3>1, VlnValue
  <2>3. b[p] % 128 = V[1] - 128 /\ b[p + 1] % 128 = V[2]
    BY <1>8, <1>9, <2>1
  <2> QED BY <1>6, <1>11, <1>13, <2>2, <2>3
<1>12. CASE n = 3
  <2>1. e = p + 2 /\ b[p] = V[1] /\ b[p + 1] = V[2] /\ b[p + 2] = V[3]
        /\ V[1] \in 128 .. 255 /\ V[2] \in 128 .. 255 /\ V[3] \in 0 .. 127
    <3>1. 1 \in 1 .. n /\ 2 \in 1 .. n /\ 3 \in 1 .. n /\ 1 \in 1 .. n - 1 /\ 2 \in 1 .. n - 1
          /\ p + 1 - 1 = p /\ p + 2 - 1 = p + 1 /\ p + 3 - 1 = p + 2
      BY <1>12
    <3> QED BY <1>1, <1>2, <1>12, <3>1
  <2>2. get_vln(b, p) = ((b[p] % 128) * Radix + (b[p + 1] % 128)) * Radix + (b[p + 2] % 128)
    <3>1. e # p /\ e # p + 1
      BY <2>1
    <3> QED BY <1>3, <1>6, <1>7, <2>1, <3>1, VlnValue
  <2>3. b[p] % 128 = V[1] - 128 /\ b[p + 1] % 128 = V[2] - 128 /\ b[p + 2] % 128 = V[3]
    BY <1>8, <1>9, <2>1
  <2> QED BY <1>6, <1>12, <1>13, <2>2, <2>3
<1>14. n = 1 \/ n = 2 \/ n = 3
  BY <1>1
<1> QED BY <1>10, <1>11, <1>12, <1>14

(* A number of one digit. *)
LEMMA OneDigit ==
  ASSUME NEW b, NEW p \in Nat, b[p] \in 0 .. 127
  PROVE  VlnEnd(b, p) = p /\ get_vln(b, p) = b[p]
<1> DEFINE Is(q) == /\ b[q] < 128 \/ q = p + 3
                    /\ \A r \in p .. q - 1 : b[r] >= 128
<1>1. p \in p .. p + 3 /\ Is(p)
  OBVIOUS
<1>2. ASSUME NEW q \in p .. p + 3, Is(q) PROVE q = p
  <2> SUFFICES ASSUME p < q PROVE FALSE
    OBVIOUS
  <2>1. p \in p .. q - 1
    OBVIOUS
  <2>2. b[p] >= 128
    BY <1>2, <2>1
  <2> QED BY <2>2
<1>3. VlnEnd(b, p) = p
  <2>1. VlnEnd(b, p) = CHOOSE q \in p .. p + 3 : Is(q)
    BY DEF VlnEnd
  <2> HIDE DEF Is
  <2> QED BY <1>1, <1>2, <2>1
<1>4. get_vln(b, p) = b[p] % 128
  <2>1. p \in p .. p + 2 /\ \A q \in p .. p : b[q] \in 0 .. 255
    OBVIOUS
  <2> QED BY <1>3, <2>1, VlnValue
<1>5. \A y \in 0 .. 127 : y % 128 = y
  BY Z3
<1> QED BY <1>3, <1>4, <1>5

----------------------------------------------------------------------------
(* MIDIREC: the events it writes, as MIDILOG reads them.                   *)

LEMMA FrameIs ==
  ASSUME NEW b, NEW p, NEW D, D = VlnEnd(b, p) + 1, NEW run,
         b[D] \in 128 .. 255 \/ (b[D] \in 0 .. 127 /\ run \in 128 .. 239)
  PROVE  get_event(b, p, run) =
           IF b[D] \in 128 .. 255 THEN Event_at(b, p, D, b[D], D + 1)
           ELSE Event_at(b, p, D, run, D)
<1>1. StatusAt(b, D, run) = D
  <2>1. ~ (b[D] < 128 /\ ~ isvalrst(run))
    <3>1. b[D] \in 128 .. 255 => ~ (b[D] < 128)
      OBVIOUS
    <3>2. run \in 128 .. 239 => isvalrst(run)
      BY DEF isvalrst
    <3> QED BY <3>1, <3>2
  <2> QED BY <2>1, Zenon DEF StatusAt
<1>2. get_event(b, p, run) = Spelled(b, p, D, D, run)
  BY <1>1 DEF get_event, Framed
<1>3. b[D] \in 128 .. 255 <=> b[D] >= 128
  OBVIOUS
<1> QED BY <1>2, <1>3 DEF Spelled

LEMMA EventIs ==
  ASSUME NEW b, NEW p, NEW D, NEW s, NEW body, NEW e, e = Event_at(b, p, D, s, body)
  PROVE  /\ e.org = p /\ e.data = D /\ e.ptr = Behind(b, s, body) /\ e.running_status = s
         /\ e.track_continued <=> ~ (s = 255 /\ b[body] = 47)
  BY DEF Event_at

LEMMA BehindIs ==
  ASSUME NEW b, NEW body
  PROVE  /\ \A s \in 128 .. 239 :
              Behind(b, s, body) = body + (IF s \in 192 .. 223 THEN 1 ELSE 2)
         /\ Behind(b, 240, body) = PastCounted(b, body)
         /\ Behind(b, 255, body) = PastCounted(b, body + 1)
<1>1. ASSUME NEW s \in 128 .. 239
      PROVE  Behind(b, s, body) = body + (IF s \in 192 .. 223 THEN 1 ELSE 2)
  <2>1. CASE s \in 192 .. 223
    <3>1. s \in 192 .. 223 \cup {241, 243}
      BY <2>1
    <3>2. ~ (s \in (0 .. 191) \cup (224 .. 239) \cup {242}) /\ ~ (s \in {240, 247}) /\ s # 255
      BY <2>1
    <3> QED BY <2>1, <3>1, <3>2 DEF Behind
  <2>2. CASE ~ (s \in 192 .. 223)
    <3>1. s \in (0 .. 191) \cup (224 .. 239) \cup {242}
      BY <2>2
    <3>2. ~ (s \in 192 .. 223 \cup {241, 243}) /\ ~ (s \in {240, 247}) /\ s # 255
      BY <2>2
    <3> QED BY <2>2, <3>1, <3>2 DEF Behind
  <2> QED BY <2>1, <2>2
<1>2. Behind(b, 240, body) = PastCounted(b, body)
  BY DEF Behind
<1>3. Behind(b, 255, body) = PastCounted(b, body + 1)
  BY DEF Behind
<1> QED BY <1>1, <1>2, <1>3

LEMMA MetaRead ==
  ASSUME NEW b, NEW p \in Nat, NEW run, b[p] = 0, b[p + 1] = 255, b[p + 3] \in 0 .. 127
  PROVE  /\ get_event(b, p, run).ptr = p + 4 + b[p + 3]
         /\ get_event(b, p, run).running_status = 255
         /\ get_event(b, p, run).track_continued <=> b[p + 2] # 47
<1>1. VlnEnd(b, p) = p
  BY OneDigit
<1> PICK D : D = p + 1
  OBVIOUS
<1>2. get_event(b, p, run) = Event_at(b, p, D, 255, D + 1)
  <2>1. b[D] = 255 /\ b[D] \in 128 .. 255 /\ D = VlnEnd(b, p) + 1
    BY <1>1
  <2>2. get_event(b, p, run) = Event_at(b, p, D, b[D], D + 1)
    BY <2>1, FrameIs
  <2> QED BY <2>1, <2>2
<1>3. D + 1 = p + 2 /\ D + 2 = p + 3
  OBVIOUS
<1>4. Behind(b, 255, D + 1) = p + 4 + b[p + 3]
  <2>1. Behind(b, 255, D + 1) = PastCounted(b, p + 3)
    <3>1. (D + 1) + 1 = p + 3
      OBVIOUS
    <3> QED BY <3>1, BehindIs
  <2>2. VlnEnd(b, p + 3) = p + 3 /\ get_vln(b, p + 3) = b[p + 3]
    <3>1. p + 3 \in Nat
      OBVIOUS
    <3> QED BY <3>1, OneDigit
  <2>3. PastCounted(b, p + 3) = (p + 3) + 1 + b[p + 3]
    BY <2>2 DEF PastCounted
  <2> QED BY <2>1, <2>3
<1> QED BY <1>2, <1>3, <1>4, EventIs

(* A message that MIDIREC takes as it is.                                  *)
Plain(m) ==
  /\ Complete(m) /\ Lead(m) <= 240 /\ Length(m) <= SBUF + 2
  /\ \A i \in 2 .. Length(m) : m[i] < 248

LEMMA PlainIs ==
  ASSUME NEW m, Plain(m)
  PROVE  /\ Length(m) \in Nat \ {0, 1} /\ Lead(m) \in 128 .. 240
         /\ Lead(m) < 240 => Length(m) = IF Lead(m) \in 192 .. 223 THEN 2 ELSE 3
         /\ m[1] = Lead(m) /\ (Lead(m) = 240 => m[Length(m)] = 247)
         /\ \A i \in 2 .. Length(m) : m[i] \in 0 .. 127 \/ (Lead(m) = 240 /\ m[i] = 247 /\ i = Length(m))
         /\ Short(Length(m) - 1)
<1>1. Complete(m) /\ Lead(m) <= 240 /\ Length(m) <= SBUF + 2 /\ \A i \in 2 .. Length(m) : m[i] < 248
  BY DEF Plain
<1>2. /\ Length(m) \in Nat \ {0} /\ Lead(m) \in 128 .. 255
      /\ \A i \in 1 .. Length(m) : m[i] \in 0 .. 255
      /\ Lead(m) < 240 => Length(m) = IF Lead(m) \in 192 .. 223 THEN 2 ELSE 3
      /\ Lead(m) = 240 => m[Length(m)] = 247 /\ Length(m) > 1
  BY <1>1, Legal
<1>3. \A i \in 2 .. Length(m) :
        m[i] < 128 \/ (Lead(m) = 240 /\ (m[i] >= 248 \/ (m[i] = 247 /\ i = Length(m))))
  BY <1>1, Legal
<1>4. Lead(m) \in 128 .. 240 /\ Length(m) # 1
  BY <1>1, <1>2
<1>5. ASSUME NEW i \in 2 .. Length(m)
      PROVE  m[i] \in 0 .. 127 \/ (Lead(m) = 240 /\ m[i] = 247 /\ i = Length(m))
  <2>1. m[i] \in 0 .. 255
    BY <1>2
  <2> QED BY <1>1, <1>3, <2>1
<1>6. Short(Length(m) - 1)
  <2> PICK c : c = Radix * Radix * Radix
    OBVIOUS
  <2>1. Radix \in Nat
    BY MidiLogAssumption
  <2>2. c \in Nat
    BY <2>1
  <2>3. SBUF \in Nat /\ SBUF + 1 < c
    BY RecorderAssumption
  <2> PICK l : l = Length(m)
    OBVIOUS
  <2>4. l \in Nat \ {0} /\ l <= SBUF + 2
    BY <1>1, <1>2
  <2>5. l - 1 \in Nat /\ l - 1 < c
    BY <2>2, <2>3, <2>4
  <2> QED BY <2>5 DEF Short
<1>7. m[1] = Lead(m)
  BY DEF Lead
<1> QED BY <1>2, <1>4, <1>5, <1>6, <1>7

(* The frame of a channel message of n bytes, of which the last L stand at *)
(* D, behind the delta.                                                    *)
DeltaTo(b, p, D) == D = VlnEnd(b, p) + 1
Spoken(b, D, s, run, L) ==
  \/ L = data_bytes(s) + 1 /\ b[D] = s
  \/ L = data_bytes(s) /\ run = s /\ b[D] \in 0 .. 127

LEMMA ChannelFrame ==
  ASSUME NEW b, NEW p, NEW D \in Nat, DeltaTo(b, p, D), NEW s \in 128 .. 239,
         NEW run, NEW L \in Nat, Spoken(b, D, s, run, L), NEW e, e = get_event(b, p, run)
  PROVE  /\ e.org = p /\ e.data = D /\ e.running_status = s /\ e.ptr = D + L
         /\ e.track_continued /\ (b[D] = s <=> L = data_bytes(s) + 1)
<1> PICK n : n = (IF s \in 192 .. 223 THEN 2 ELSE 3)
  OBVIOUS
<1>0. /\ n = data_bytes(s) + 1 /\ n - 1 = data_bytes(s)
      /\ \/ L = n /\ b[D] = s
         \/ L = n - 1 /\ run = s /\ b[D] \in 0 .. 127
  <2>1. n = data_bytes(s) + 1 /\ n - 1 = data_bytes(s)
    BY DEF data_bytes
  <2> QED BY <2>1 DEF Spoken
<1>1. n \in {2, 3} /\ s # 255
  OBVIOUS
<1>2. CASE L = n /\ b[D] = s
  <2>1. e = Event_at(b, p, D, s, D + 1)
    <3>1. b[D] \in 128 .. 255
      BY <1>2
    <3> QED BY <1>2, <3>1, FrameIs DEF DeltaTo
  <2>2. e.org = p /\ e.data = D /\ e.running_status = s /\ e.ptr = Behind(b, s, D + 1)
        /\ e.track_continued
    BY <1>1, <2>1, EventIs
  <2>3. Behind(b, s, D + 1) = (D + 1) + (IF s \in 192 .. 223 THEN 1 ELSE 2)
    BY BehindIs
  <2>4. (D + 1) + (IF s \in 192 .. 223 THEN 1 ELSE 2) = D + L
    BY <1>2
  <2> QED BY <1>0, <1>2, <2>2, <2>3, <2>4
<1>3. CASE L = n - 1 /\ run = s /\ b[D] \in 0 .. 127
  <2>1. e = Event_at(b, p, D, s, D)
    <3>1. ~ (b[D] \in 128 .. 255) /\ run \in 128 .. 239
      BY <1>3, SMTT(30)
    <3> QED BY <1>3, <3>1, FrameIs DEF DeltaTo
  <2>2. e.org = p /\ e.data = D /\ e.running_status = s /\ e.ptr = Behind(b, s, D)
        /\ e.track_continued
    BY <1>1, <2>1, EventIs
  <2>3. Behind(b, s, D) = D + (IF s \in 192 .. 223 THEN 1 ELSE 2)
    BY BehindIs
  <2>4. D + (IF s \in 192 .. 223 THEN 1 ELSE 2) = D + L
    BY <1>3
  <2>5. b[D] # s /\ L # n
    BY <1>1, <1>3
  <2> QED BY <1>0, <2>2, <2>3, <2>4, <2>5
<1> QED BY <1>0, <1>2, <1>3

(* Bytes of a buffer.                                                      *)
Buffer(b) == b \in Seq(Byte)
Room(b, D, L) == D \in Nat \ {0} /\ L \in Nat /\ D + L - 1 <= Length(b)
Excerpt(b, D, L, u) ==
  u \in Seq(Byte) /\ Len(u) = L /\ \A j \in 1 .. L : u[j] = b[D + j - 1]

LEMMA Portion ==
  ASSUME NEW b, Buffer(b), NEW D, NEW L, Room(b, D, L)
  PROVE  Excerpt(b, D, L, SubSeq(b, D, D + L - 1))
<1>0. D \in Nat \ {0} /\ L \in Nat /\ D + L - 1 <= Length(b) /\ b \in Seq(Byte)
  BY DEF Room, Buffer
<1> PICK z : z = D + L - 1
  OBVIOUS
<1>1. z \in Int /\ D \in Int /\ z - D + 1 = L /\ (IF D <= z THEN z - D + 1 ELSE 0) = L
  BY <1>0
<1>2. \A i \in D .. z : b[i] \in Byte
  <2> SUFFICES ASSUME NEW i \in D .. z PROVE b[i] \in Byte
    OBVIOUS
  <2>1. i \in 1 .. Len(b)
    BY <1>0, <1>1 DEF Length
  <2> QED BY <1>0, <2>1, ElementOfSeq
<1>3. /\ SubSeq(b, D, z) \in Seq(Byte)
      /\ Len(SubSeq(b, D, z)) = IF D <= z THEN z - D + 1 ELSE 0
      /\ \A i \in 1 .. z - D + 1 : SubSeq(b, D, z)[i] = b[D + i - 1]
  <2> HIDE DEF Byte
  <2> QED BY <1>0, <1>1, <1>2, SubSeqProperties
<1> QED BY <1>1, <1>3 DEF Excerpt

(* A message, its status in front of the rest.                             *)
LEMMA Respelled ==
  ASSUME NEW m \in Seq(Byte), m # <<>>, NEW u \in Seq(Byte), Len(u) = Len(m) - 1,
         \A j \in 1 .. Len(u) : u[j] = m[j + 1]
  PROVE  <<m[1]>> \o u = m
<1> DEFINE B == Byte
           c == <<m[1]>> \o u
<1>1. m \in Seq(B) /\ u \in Seq(B) /\ Len(m) \in Nat \ {0} /\ m[1] \in B
  OBVIOUS
<1> HIDE DEF B
<1>2. <<m[1]>> \in Seq(B) /\ Len(<<m[1]>>) = 1 /\ <<m[1]>>[1] = m[1]
  BY <1>1
<1>3. /\ c \in Seq(B) /\ Len(c) = 1 + Len(u)
      /\ \A i \in 1 .. 1 + Len(u) : c[i] = IF i <= 1 THEN <<m[1]>>[i] ELSE u[i - 1]
  BY <1>1, <1>2, ConcatProperties
<1> HIDE DEF c
<1>4. ASSUME NEW i \in 1 .. Len(m) PROVE c[i] = m[i]
  <2>1. i \in 1 .. 1 + Len(u)
    BY <1>1
  <2>2. CASE i = 1
    BY <1>2, <1>3, <2>1, <2>2
  <2>3. CASE i # 1
    <3>1. i - 1 \in 1 .. Len(u) /\ (i - 1) + 1 = i /\ ~ (i <= 1)
      BY <1>1, <2>1, <2>3
    <3>2. u[i - 1] = m[(i - 1) + 1]
      BY <3>1
    <3> QED BY <1>3, <2>1, <3>1, <3>2
  <2> QED BY <2>2, <2>3
<1>5. Len(c) = Len(m)
  BY <1>1, <1>3
<1>6. c = m
  BY <1>1, <1>3, <1>4, <1>5, SeqEqual
<1> QED BY <1>6 DEF c

(* The last L bytes of m stand at D; without its status only behind one    *)
(* like it.                                                                *)
Ends(b, D, m, L) ==
  D + L - 1 <= Length(b) /\ \A j \in 1 .. L : b[D + j - 1] = m[Length(m) - L + j]
Suffices(m, L, run) == L = Length(m) \/ (L = Length(m) - 1 /\ run = Lead(m))
(* The delta g at p, and D behind it.                                      *)
Spaced(b, p, g, D) == Stands(b, p, write_VLN(g)) /\ D = p + Length(write_VLN(g))

LEMMA ChannelIs ==
  ASSUME NEW m, Plain(m), Lead(m) < 240, NEW L, NEW run, Suffices(m, L, run),
         NEW n, n = Length(m), NEW s, s = Lead(m)
  PROVE  /\ n \in Nat \ {0, 1} /\ s \in 128 .. 239 /\ n = (IF s \in 192 .. 223 THEN 2 ELSE 3)
         /\ m[1] = s /\ \A i \in 2 .. n : m[i] \in 0 .. 127
         /\ L \in Nat \ {0} /\ (L = n \/ (L = n - 1 /\ run = s))
<1>1. s \in 128 .. 240 /\ s < 240 /\ n \in Nat \ {0, 1} /\ m[1] = s
      /\ (s < 240 => n = IF s \in 192 .. 223 THEN 2 ELSE 3)
  BY PlainIs
<1>2. s # 240
  BY <1>1
<1>3. \A i \in 2 .. n : m[i] \in 0 .. 127
  BY <1>2, PlainIs
<1>4. L = n \/ (L = n - 1 /\ run = s)
  BY DEF Suffices
<1>5. L \in Nat \ {0}
  <2>1. n \in Nat \ {0, 1}
    BY <1>1
  <2>2. L = n \/ L = n - 1
    BY <1>4, Zenon
  <2>3. CASE L = n
    BY <2>1, <2>3
  <2>4. CASE L = n - 1
    BY <2>1, <2>4
  <2> QED BY <2>2, <2>3, <2>4, Zenon
<1>6. s \in 128 .. 239 /\ n = (IF s \in 192 .. 223 THEN 2 ELSE 3)
  BY <1>1
<1> QED BY <1>1, <1>3, <1>4, <1>5, <1>6, Zenon

LEMMA ChannelHead ==
  ASSUME NEW m, Plain(m), Lead(m) < 240, NEW b, NEW p \in Nat, NEW D \in Nat \ {0},
         DeltaTo(b, p, D), NEW run, NEW L \in Nat, Suffices(m, L, run), Ends(b, D, m, L),
         NEW e, e = get_event(b, p, run)
  PROVE  /\ e.org = p /\ e.data = D /\ e.running_status = Lead(m) /\ e.ptr = D + L
         /\ e.track_continued /\ (b[D] = Lead(m) <=> L = Length(m))
<1> PICK s : s = Lead(m)
  OBVIOUS
<1> PICK n : n = Length(m)
  OBVIOUS
<1>1. /\ n \in Nat \ {0, 1} /\ s \in 128 .. 239 /\ n = (IF s \in 192 .. 223 THEN 2 ELSE 3)
      /\ m[1] = s /\ \A i \in 2 .. n : m[i] \in 0 .. 127
      /\ L \in Nat \ {0} /\ (L = n \/ (L = n - 1 /\ run = s))
  BY ChannelIs
<1>2. b[D] = m[n - L + 1]
  <2>1. 1 \in 1 .. L /\ D + 1 - 1 = D
    BY <1>1
  <2>2. b[D + 1 - 1] = m[Length(m) - L + 1]
    BY <2>1 DEF Ends
  <2> QED BY <2>1, <2>2
<1>3. \/ L = n /\ b[D] = s
      \/ L = n - 1 /\ run = s /\ b[D] \in 0 .. 127
  <2>1. CASE L = n
    <3>1. n - L + 1 = 1
      BY <1>1, <2>1
    <3>2. b[D] = s
      BY <1>1, <1>2, <3>1
    <3> QED BY <2>1, <3>2
  <2>2. CASE L = n - 1 /\ run = s
    <3>1. n - L + 1 = 2 /\ 2 \in 2 .. n
      BY <1>1, <2>2
    <3>2. b[D] \in 0 .. 127
      BY <1>1, <1>2, <3>1
    <3> QED BY <2>2, <3>2
  <2>3. L = n \/ (L = n - 1 /\ run = s)
    BY <1>1
  <2> QED BY <2>1, <2>2, <2>3, Zenon
<1>4. s \in 128 .. 239 /\ n = data_bytes(s) + 1
  BY <1>1 DEF data_bytes
<1>5. Spoken(b, D, s, run, L)
  <2>1. n - 1 = data_bytes(s)
    BY <1>1 DEF data_bytes
  <2>2. n = data_bytes(s) + 1
    BY <1>4
  <2> QED BY <1>3, <2>1, <2>2, Zenon DEF Spoken
<1>6. /\ e.org = p /\ e.data = D /\ e.running_status = s /\ e.ptr = D + L
      /\ e.track_continued /\ (b[D] = s <=> L = data_bytes(s) + 1)
  <2>1. D \in Nat /\ L \in Nat
    BY <1>1
  <2> QED BY <1>4, <1>5, <2>1, ChannelFrame
<1> QED BY <1>4, <1>6

LEMMA ChannelBytes ==
  ASSUME NEW m, Plain(m), Lead(m) < 240, NEW b, Buffer(b), NEW D \in Nat \ {0},
         NEW run, NEW L \in Nat, Suffices(m, L, run), Ends(b, D, m, L)
  PROVE  (IF L = Length(m) THEN <<>> ELSE <<Lead(m)>>) \o SubSeq(b, D, D + L - 1) = m
<1> PICK s : s = Lead(m)
  OBVIOUS
<1> PICK n : n = Length(m)
  OBVIOUS
<1> PICK u : u = SubSeq(b, D, D + L - 1)
  OBVIOUS
<1>1. n \in Nat \ {0, 1} /\ m[1] = s /\ L \in Nat \ {0} /\ (L = n \/ L = n - 1)
  BY ChannelIs
<1>2. u \in Seq(Byte) /\ Len(u) = L /\ \A j \in 1 .. L : u[j] = m[n - L + j]
  <2>1. D + L - 1 <= Length(b) /\ \A j \in 1 .. L : b[D + j - 1] = m[Length(m) - L + j]
    BY DEF Ends
  <2>2. /\ SubSeq(b, D, D + L - 1) \in Seq(Byte) /\ Len(SubSeq(b, D, D + L - 1)) = L
        /\ \A j \in 1 .. L : SubSeq(b, D, D + L - 1)[j] = b[D + j - 1]
    <3>1. Room(b, D, L)
      BY <1>1, <2>1 DEF Room
    <3>2. Excerpt(b, D, L, SubSeq(b, D, D + L - 1))
      BY <3>1, Portion
    <3> QED BY <3>2 DEF Excerpt
  <2> QED BY <2>1, <2>2
<1>3. m \in Seq(Byte) /\ m # <<>> /\ Len(m) = n
  BY DEF Plain, Complete, Length
<1>4. CASE L = n
  <2>1. \A j \in 1 .. n : n - L + j = j
    BY <1>1, <1>4
  <2>2. \A j \in 1 .. n : u[j] = m[j]
    BY <1>2, <1>4, <2>1
  <2>3. u = m
    BY <1>2, <1>3, <1>4, <2>2, SeqEqual
  <2>4. <<>> \o m = m
    BY <1>3
  <2> QED BY <1>4, <2>3, <2>4
<1>5. CASE L = n - 1
  <2>1. \A j \in 1 .. L : n - L + j = j + 1
    BY <1>1, <1>5
  <2>2. \A j \in 1 .. Len(u) : u[j] = m[j + 1]
    BY <1>2, <2>1
  <2>3. Len(u) = Len(m) - 1
    BY <1>2, <1>3, <1>5
  <2>4. <<m[1]>> \o u = m
    BY <1>2, <1>3, <2>2, <2>3, Respelled
  <2>5. L # n
    BY <1>1, <1>5
  <2> QED BY <1>1, <2>4, <2>5
<1> QED BY <1>1, <1>4, <1>5

(* A channel message of which the last L bytes stand behind the delta g.   *)
LEMMA ChannelRead ==
  ASSUME NEW m, Plain(m), Lead(m) < 240, NEW g, Short(g), NEW b, Buffer(b),
         NEW p \in Nat, NEW D \in Nat \ {0}, Spaced(b, p, g, D), NEW run, NEW L \in Nat, Suffices(m, L, run), Ends(b, D, m, L),
         NEW e, e = get_event(b, p, run)
  PROVE  /\ e.ptr = D + L /\ e.running_status = Lead(m) /\ e.track_continued
         /\ Self(b, e) = [delta |-> g, bytes |-> m]
<1>1. get_vln(b, p) = g /\ DeltaTo(b, p, D)
  <2>3. Stands(b, p, write_VLN(g)) /\ D = p + Length(write_VLN(g))
    BY DEF Spaced
  <2>1. Length(write_VLN(g)) \in 1 .. 3
    BY VlnDigits
  <2>2. VlnEnd(b, p) = p + Length(write_VLN(g)) - 1 /\ get_vln(b, p) = g
    BY <2>3, VlnRead
  <2> QED BY <2>1, <2>2, <2>3 DEF DeltaTo
<1>2. /\ e.org = p /\ e.data = D /\ e.running_status = Lead(m) /\ e.ptr = D + L
      /\ e.track_continued /\ (b[D] = Lead(m) <=> L = Length(m))
  BY <1>1, ChannelHead
<1>3. (IF L = Length(m) THEN <<>> ELSE <<Lead(m)>>) \o SubSeq(b, D, D + L - 1) = m
  BY <1>1, ChannelBytes
<1>4. e.ptr - 1 = D + L - 1
  BY <1>2
<1>5. (IF b[D] = Lead(m) THEN <<>> ELSE <<Lead(m)>>)
      = (IF L = Length(m) THEN <<>> ELSE <<Lead(m)>>)
  BY <1>2
<1>6. (IF b[e.data] = e.running_status THEN <<>> ELSE <<e.running_status>>)
      \o SubSeq(b, e.data, e.ptr - 1) = m
  BY <1>2, <1>3, <1>4, <1>5
<1>7. get_vln(b, e.org) = g
  BY <1>1, <1>2
<1> QED BY <1>2, <1>6, <1>7 DEF Self

(* The frame of an exclusive message with n bytes behind its length.       *)
LEMMA ExclusiveFrame ==
  ASSUME NEW b, NEW p, NEW D \in Nat, DeltaTo(b, p, D), b[D] = 240, NEW n, Short(n),
         NEW E \in Nat, Spaced(b, D + 1, n, E), NEW run, NEW e, e = get_event(b, p, run)
  PROVE  /\ e.org = p /\ e.data = D /\ e.running_status = 240 /\ e.ptr = E + n
         /\ e.track_continued
<1>1. e = Event_at(b, p, D, 240, D + 1)
  <2>1. b[D] \in 128 .. 255
    OBVIOUS
  <2> QED BY <2>1, FrameIs DEF DeltaTo
<1>2. /\ e.org = p /\ e.data = D /\ e.ptr = Behind(b, 240, D + 1) /\ e.running_status = 240
      /\ e.track_continued
  <2>1. 240 # 255
    OBVIOUS
  <2> QED BY <1>1, <2>1, EventIs
<1>3. Behind(b, 240, D + 1) = PastCounted(b, D + 1)
  BY BehindIs
<1>4. PastCounted(b, D + 1) = E + n
  <2>1. Stands(b, D + 1, write_VLN(n)) /\ E = (D + 1) + Length(write_VLN(n))
    BY DEF Spaced
  <2>2. D + 1 \in Nat /\ Length(write_VLN(n)) \in 1 .. 3
    BY VlnDigits
  <2>3. VlnEnd(b, D + 1) = (D + 1) + Length(write_VLN(n)) - 1 /\ get_vln(b, D + 1) = n
    BY <2>1, <2>2, VlnRead
  <2>4. VlnEnd(b, D + 1) + 1 = E
    BY <2>1, <2>2, <2>3
  <2>5. n \in Nat
    BY DEF Short
  <2> QED BY <2>3, <2>4, <2>5 DEF PastCounted
<1> QED BY <1>2, <1>3, <1>4

(* The bytes of an exclusive message, its length in front of the rest.     *)
Follows(b, E, m) ==
  E + Length(m) - 2 <= Length(b) /\ \A j \in 2 .. Length(m) : b[E + j - 2] = m[j]

(* The bytes c are those of s and then those of r.                         *)
Joins(s, r, c) ==
  /\ c \in Seq(Byte) /\ Length(s) \in Nat /\ Length(r) \in Nat
  /\ Length(c) = Length(s) + Length(r)
  /\ \A j \in 1 .. Length(s) : c[j] = s[j]
  /\ \A j \in 1 .. Length(r) : c[Length(s) + j] = r[j]

LEMMA TwoParts ==
  ASSUME NEW s, s \in Seq(Byte), NEW r, r \in Seq(Byte), NEW c, c = s \o r
  PROVE  Joins(s, r, c)
<1> DEFINE B == Byte
<1>1. s \in Seq(B) /\ r \in Seq(B)
  OBVIOUS
<1> HIDE DEF B
<1>2. /\ s \o r \in Seq(B) /\ Len(s \o r) = Len(s) + Len(r)
      /\ \A j \in 1 .. Len(s) + Len(r) :
           (s \o r)[j] = IF j <= Len(s) THEN s[j] ELSE r[j - Len(s)]
  BY <1>1, ConcatProperties
<1>3. Len(s) \in Nat /\ Len(r) \in Nat
  BY <1>1
<1> PICK k : k = Len(s)
  OBVIOUS
<1> PICK l : l = Len(r)
  OBVIOUS
<1>4. \A j \in 1 .. k : c[j] = s[j]
  BY <1>2, <1>3
<1>5. ASSUME NEW j \in 1 .. l PROVE c[k + j] = r[j]
  <2>1. k + j \in 1 .. k + l /\ ~ (k + j <= k) /\ (k + j) - k = j
    BY <1>3
  <2> QED BY <1>2, <2>1
<1> QED BY <1>2, <1>3, <1>4, <1>5 DEF Length, B, Joins

(* c is the byte x, then V, then r.                                        *)
Triple(x, V, r, c) ==
  /\ c \in Seq(Byte) /\ Length(c) = 1 + Length(V) + Length(r) /\ c[1] = x
  /\ \A j \in 1 .. Length(V) : c[1 + j] = V[j]
  /\ \A j \in 1 .. Length(r) : c[1 + Length(V) + j] = r[j]

LEMMA ThreeParts ==
  ASSUME NEW x \in Byte, NEW V, V \in Seq(Byte), NEW r, r \in Seq(Byte),
         NEW c, c = <<x>> \o V \o r
  PROVE  Triple(x, V, r, c)
<1>1. <<x>> \in Seq(Byte) /\ Length(<<x>>) = 1 /\ <<x>>[1] = x
  BY DEF Length
<1>2. PICK d : d = <<x>> \o V
  OBVIOUS
<1>3. /\ d \in Seq(Byte) /\ Length(d) = 1 + Length(V) /\ Length(V) \in Nat
      /\ \A j \in 1 .. 1 : d[j] = <<x>>[j]
      /\ \A j \in 1 .. Length(V) : d[1 + j] = V[j]
  <2> PICK y : y = <<x>>
    OBVIOUS
  <2>1. y \in Seq(Byte) /\ Length(y) = 1 /\ d = y \o V
    BY <1>1, <1>2
  <2>2. Joins(y, V, d)
    BY <2>1, TwoParts
  <2> QED BY <2>1, <2>2 DEF Joins
<1>4. c = d \o r
  BY <1>2
<1>5. /\ c \in Seq(Byte) /\ Length(c) = Length(d) + Length(r) /\ Length(r) \in Nat
      /\ \A j \in 1 .. Length(d) : c[j] = d[j]
      /\ \A j \in 1 .. Length(r) : c[Length(d) + j] = r[j]
  <2>1. Joins(d, r, c)
    BY <1>3, <1>4, TwoParts
  <2> QED BY <2>1 DEF Joins
<1>6. d[1] = x
  BY <1>1, <1>3
<1>7. c[1] = x /\ \A j \in 1 .. Length(V) : c[1 + j] = V[j]
  <2>1. 1 \in 1 .. Length(d) /\ \A j \in 1 .. Length(V) : 1 + j \in 1 .. Length(d)
    BY <1>3
  <2> QED BY <1>3, <1>5, <1>6, <2>1
<1>8. \A j \in 1 .. Length(r) : c[1 + Length(V) + j] = r[j]
  BY <1>3, <1>5
<1>9. Length(c) = 1 + Length(V) + Length(r)
  BY <1>3, <1>5
<1> QED BY <1>5, <1>7, <1>8, <1>9 DEF Triple

(* What an exclusive message is in the file. *)
LEMMA AsEventIs ==
  ASSUME NEW m, Plain(m), Lead(m) = 240, NEW V, V = write_VLN(Length(m) - 1)
  PROVE  /\ AsEvent(m) \in Seq(Byte) /\ Length(AsEvent(m)) = Length(V) + Length(m)
         /\ AsEvent(m)[1] = 240
         /\ \A j \in 1 .. Length(V) : AsEvent(m)[1 + j] = V[j]
         /\ \A j \in 2 .. Length(m) : AsEvent(m)[Length(V) + j] = m[j]
<1> PICK n : n = Length(m)
  OBVIOUS
<1> PICK l : l = Length(V)
  OBVIOUS
<1>1. n \in Nat \ {0, 1} /\ Short(n - 1) /\ m[1] = 240
  BY PlainIs
<1>2. V \in Seq(Byte) /\ l \in 1 .. 3
  <2>1. V \in Seq(Byte)
    BY <1>1, VlnForm
  <2>2. l \in 1 .. 3
    BY <1>1, VlnDigits
  <2> QED BY <2>1, <2>2
<1>3. m \in Seq(Byte) /\ m # <<>> /\ Len(m) = n
  BY DEF Plain, Complete, Length
<1>4. PICK r : r = Tail(m)
  OBVIOUS
<1>5. r \in Seq(Byte) /\ Length(r) = n - 1 /\ \A j \in 1 .. Length(r) : r[j] = m[j + 1]
  <2>1. r \in Seq(Byte)
    BY <1>3, <1>4
  <2>2. Length(r) = n - 1 /\ \A j \in 1 .. Length(r) : r[j] = m[j + 1]
    BY <1>3, <1>4, RestOf
  <2> QED BY <2>1, <2>2
<1>6. AsEvent(m) = <<240>> \o V \o r
  BY <1>1, <1>3, <1>4 DEF AsEvent
<1>7. 240 \in Byte
  BY DEF Byte
<1> PICK c : c = AsEvent(m)
  OBVIOUS
<1>8. /\ c \in Seq(Byte) /\ Length(c) = 1 + Length(V) + Length(r) /\ c[1] = 240
      /\ \A j \in 1 .. Length(V) : c[1 + j] = V[j]
      /\ \A j \in 1 .. Length(r) : c[1 + Length(V) + j] = r[j]
  <2>1. Triple(240, V, r, c)
    <3>1. c = <<240>> \o V \o r /\ V \in Seq(Byte) /\ r \in Seq(Byte)
      BY <1>2, <1>5, <1>6
    <3> QED BY <1>7, <3>1, ThreeParts, ZenonT(60)
  <2> QED BY <2>1 DEF Triple
<1>9. Length(c) = l + n
  BY <1>1, <1>2, <1>5, <1>8
<1>10. ASSUME NEW j \in 2 .. n PROVE c[l + j] = m[j]
  <2>1. j - 1 \in 1 .. n - 1 /\ 1 + l + (j - 1) = l + j /\ (j - 1) + 1 = j
    BY <1>1, <1>2
  <2>2. c[1 + l + (j - 1)] = r[j - 1] /\ r[j - 1] = m[(j - 1) + 1]
    BY <1>5, <1>8, <2>1
  <2> QED BY <2>1, <2>2
<1> QED BY <1>8, <1>9, <1>10

LEMMA ExclusiveAt ==
  ASSUME NEW m, Plain(m), Lead(m) = 240, NEW b, NEW D \in Nat \ {0}, b[D] = 240,
         NEW E \in Nat, Spaced(b, D + 1, Length(m) - 1, E), Follows(b, E, m),
         NEW L, L = Length(AsEvent(m))
  PROVE  /\ L \in Nat \ {0} /\ D + L - 1 = E + Length(m) - 2 /\ D + L - 1 <= Length(b)
         /\ \A i \in 1 .. L : b[D + i - 1] = AsEvent(m)[i]
<1> PICK n : n = Length(m)
  OBVIOUS
<1> PICK V : V = write_VLN(Length(m) - 1)
  OBVIOUS
<1> PICK l : l = Length(V)
  OBVIOUS
<1>1. n \in Nat \ {0, 1} /\ Short(n - 1)
  BY PlainIs
<1>2. l \in 1 .. 3
  BY <1>1, VlnDigits
<1> PICK c : c = AsEvent(m)
  OBVIOUS
<1>3. /\ L = l + n /\ c[1] = 240
      /\ \A j \in 1 .. l : c[1 + j] = V[j]
      /\ \A j \in 2 .. n : c[l + j] = m[j]
  <2>1. /\ Length(AsEvent(m)) = Length(V) + Length(m) /\ AsEvent(m)[1] = 240
        /\ \A j \in 1 .. Length(V) : AsEvent(m)[1 + j] = V[j]
        /\ \A j \in 2 .. Length(m) : AsEvent(m)[Length(V) + j] = m[j]
    BY AsEventIs
  <2> QED BY <2>1
<1>4. Stands(b, D + 1, V) /\ E = D + 1 + l
  BY DEF Spaced
<1>5. \A j \in 1 .. l : b[(D + 1) + j - 1] = V[j]
  BY <1>4 DEF Stands
<1>6. E + n - 2 <= Length(b) /\ \A j \in 2 .. n : b[E + j - 2] = m[j]
  BY DEF Follows
<1>7. E = D + 1 + l /\ L = l + n /\ E + n - 2 <= Length(b)
  BY <1>3, <1>4, <1>6
<1>8. L \in Nat \ {0} /\ D + L - 1 = E + n - 2
  BY <1>1, <1>2, <1>7
<1>9. ASSUME NEW i \in 1 .. L PROVE b[D + i - 1] = c[i]
  <2>1. CASE i = 1
    BY <1>3, <2>1
  <2>2. CASE i \in 2 .. 1 + l
    <3>1. i - 1 \in 1 .. l /\ (D + 1) + (i - 1) - 1 = D + i - 1 /\ 1 + (i - 1) = i
      BY <1>2, <2>2
    <3> QED BY <1>3, <1>5, <3>1
  <2>3. CASE i > 1 + l
    <3>1. i - l \in 2 .. n /\ E + (i - l) - 2 = D + i - 1 /\ l + (i - l) = i
      BY <1>1, <1>2, <1>7, <2>3
    <3> QED BY <1>3, <1>6, <3>1
  <2>4. i = 1 \/ i \in 2 .. 1 + l \/ i > 1 + l
    BY <1>2
  <2> QED BY <2>1, <2>2, <2>3, <2>4
<1> QED BY <1>7, <1>8, <1>9

LEMMA ExclusiveBytes ==
  ASSUME NEW m, Plain(m), Lead(m) = 240, NEW b, Buffer(b), NEW D \in Nat \ {0}, b[D] = 240,
         NEW E \in Nat, Spaced(b, D + 1, Length(m) - 1, E), Follows(b, E, m)
  PROVE  SubSeq(b, D, E + Length(m) - 2) = AsEvent(m) /\ AsEvent(m) \in Seq(Byte)
<1> PICK L : L = Length(AsEvent(m))
  OBVIOUS
<1>1. /\ L \in Nat \ {0} /\ D + L - 1 = E + Length(m) - 2 /\ D + L - 1 <= Length(b)
      /\ \A i \in 1 .. L : b[D + i - 1] = AsEvent(m)[i]
  BY ExclusiveAt
<1>3. /\ SubSeq(b, D, D + L - 1) \in Seq(Byte) /\ Len(SubSeq(b, D, D + L - 1)) = L
      /\ \A j \in 1 .. L : SubSeq(b, D, D + L - 1)[j] = b[D + j - 1]
  <2>1. Room(b, D, L)
    BY <1>1 DEF Room
  <2> QED BY <2>1, Portion DEF Excerpt
<1>4. AsEvent(m) \in Seq(Byte)
  BY AsEventIs
<1>5. Len(AsEvent(m)) = L
  BY DEF Length
<1>6. SubSeq(b, D, D + L - 1) = AsEvent(m)
  <2>1. \A j \in 1 .. L : SubSeq(b, D, D + L - 1)[j] = AsEvent(m)[j]
    BY <1>1, <1>3
  <2> QED BY <1>3, <1>4, <1>5, <2>1, SeqEqual
<1> QED BY <1>1, <1>4, <1>6

(* An exclusive message behind the delta g.                                *)
LEMMA ExclusiveRead ==
  ASSUME NEW m, Plain(m), Lead(m) = 240, NEW g, Short(g), NEW b, Buffer(b),
         NEW p \in Nat, NEW D \in Nat \ {0}, Spaced(b, p, g, D), b[D] = 240,
         NEW E \in Nat, Spaced(b, D + 1, Length(m) - 1, E), Follows(b, E, m),
         NEW run, NEW e, e = get_event(b, p, run)
  PROVE  /\ e.ptr = E + Length(m) - 1 /\ e.running_status = 240 /\ e.track_continued
         /\ Self(b, e) = [delta |-> g, bytes |-> AsEvent(m)]
<1> PICK n : n = Length(m)
  OBVIOUS
<1>1. get_vln(b, p) = g /\ DeltaTo(b, p, D)
  <2>1. Length(write_VLN(g)) \in 1 .. 3
    BY VlnDigits
  <2>2. Stands(b, p, write_VLN(g)) /\ D = p + Length(write_VLN(g))
    BY DEF Spaced
  <2>3. VlnEnd(b, p) = p + Length(write_VLN(g)) - 1 /\ get_vln(b, p) = g
    BY <2>2, VlnRead
  <2> QED BY <2>1, <2>2, <2>3 DEF DeltaTo
<1>2. n \in Nat \ {0, 1} /\ Short(n - 1)
  BY PlainIs
<1>3. /\ e.org = p /\ e.data = D /\ e.running_status = 240 /\ e.ptr = E + (n - 1)
      /\ e.track_continued
  <2>1. D \in Nat
    OBVIOUS
  <2> QED BY <1>1, <1>2, <2>1, ExclusiveFrame
<1>4. SubSeq(b, D, E + n - 2) = AsEvent(m)
  BY ExclusiveBytes
<1>5. E + (n - 1) = E + n - 1 /\ e.ptr - 1 = E + n - 2
  BY <1>2, <1>3
<1>6. (IF b[e.data] = e.running_status THEN <<>> ELSE <<e.running_status>>)
      \o SubSeq(b, e.data, e.ptr - 1) = AsEvent(m)
  <2>1. <<>> \o SubSeq(b, D, E + n - 2) = AsEvent(m)
    <3>1. AsEvent(m) \in Seq(Byte)
      BY ExclusiveBytes
    <3> QED BY <1>4, <3>1
  <2> QED BY <1>3, <1>5, <2>1
<1>7. get_vln(b, e.org) = g
  BY <1>1, <1>3
<1> QED BY <1>3, <1>5, <1>6, <1>7 DEF Self

----------------------------------------------------------------------------
(* MIDIREC: the file, event by event.                                      *)

(* When message i began, and the delta of its event.                       *)
When(pl, i) == pl[i].at
Gap(pl, i) == CutOff(When(pl, i) - (IF i = 1 THEN 0 ELSE When(pl, i - 1)))

(* The event of message i, of which the bytes up to t were read, from p to *)
(* before e: an exclusive message is written when it ends, but for its     *)
(* first byte.                                                             *)
Given(b, pl, i, D, t) ==
  \A j \in 1 .. t - Begun(pl, i) : b[D + j - 1] = ByteOf(pl, i, Begun(pl, i) + j)
Sounded(b, pl, i, D, t, e) == Given(b, pl, i, D, t) /\ e = D + (t - Begun(pl, i))
Enclosed(b, m, D, e) ==
  \E E \in Nat : Spaced(b, D + 1, Length(m) - 1, E) /\ Follows(b, E, m) /\ e = E + Length(m) - 1
Gathered(b, pl, i, D, t, e) ==
  /\ b[D] = 240
  /\ IF t = End(pl, i) THEN Enclosed(b, Msg(pl, i), D, e) ELSE e = D + 1
Piece(b, pl, i, p, t, e) ==
  \E D \in Nat \ {0} :
    /\ p \in Nat \ {0} /\ e \in Nat /\ e - 1 <= Length(b) /\ D < e
    /\ Spaced(b, p, Gap(pl, i), D)
    /\ IF Lead(Msg(pl, i)) = 240 THEN Gathered(b, pl, i, D, t, e) ELSE Sounded(b, pl, i, D, t, e)

(* Event e is message i, and the next is at z.                             *)
EventFits(b, e, pl, i, z) ==
  /\ e.ptr = z /\ e.running_status = Lead(Msg(pl, i)) /\ e.track_continued
  /\ Self(b, e) = [delta |-> Gap(pl, i), bytes |-> AsEvent(Msg(pl, i))]

(* The message i and its time fit in an event, and the status before it    *)
(* lets its own be left out.                                               *)
Fair(pl, i) == Plain(Msg(pl, i)) /\ Short(Gap(pl, i))
Ready(pl, i, run) ==
  Suffices(Msg(pl, i), End(pl, i) - Begun(pl, i), run)

LEMMA ChannelPieceRead ==
  ASSUME NEW pl, NEW n \in Nat, Timed(pl, n), NEW i \in 1 .. Num(pl), Fair(pl, i),
         Lead(Msg(pl, i)) # 240, NEW b, Buffer(b), NEW p \in Nat \ {0}, NEW D \in Nat \ {0},
         Spaced(b, p, Gap(pl, i), D), NEW z, z - 1 <= Length(b),
         Sounded(b, pl, i, D, End(pl, i), z), NEW run, Ready(pl, i, run),
         NEW e, e = get_event(b, p, run)
  PROVE  EventFits(b, e, pl, i, z)
<1> PICK m : m = Msg(pl, i)
  OBVIOUS
<1> PICK s : s = Begun(pl, i)
  OBVIOUS
<1> PICK f : f = End(pl, i)
  OBVIOUS
<1> PICK L : L = f - s
  OBVIOUS
<1>1. Plain(m) /\ Short(Gap(pl, i)) /\ Lead(m) < 240 /\ m[1] # 240
  <2>1. Plain(m) /\ Short(Gap(pl, i))
    BY DEF Fair
  <2>2. Lead(m) \in 128 .. 240 /\ m[1] = Lead(m)
    BY <2>1, PlainIs
  <2> QED BY <2>1, <2>2
<1>2. s \in Nat /\ f \in Nat /\ s < f
  BY Apart
<1>3. L \in Nat \ {0}
  BY <1>2
<1>4. Suffices(m, L, run)
  BY DEF Ready
<1>5. z = D + L /\ \A j \in 1 .. L : b[D + j - 1] = m[Length(m) - L + j]
  <2>1. z = D + L /\ \A j \in 1 .. L : b[D + j - 1] = ByteOf(pl, i, s + j)
    BY DEF Sounded, Given
  <2>2. ASSUME NEW j \in 1 .. L PROVE ByteOf(pl, i, s + j) = m[Length(m) - L + j]
    <3>1. Length(m) \in Nat
      BY <1>1, PlainIs
    <3>2. Length(m) - (f - (s + j)) = Length(m) - L + j
      BY <1>2, <3>1
    <3> QED BY <3>2 DEF ByteOf, Place
  <2> QED BY <2>1, <2>2
<1>6. Ends(b, D, m, L)
  <2>1. D + L - 1 <= Length(b)
    BY <1>5
  <2> QED BY <1>5, <2>1 DEF Ends
<1>7. /\ e.ptr = D + L /\ e.running_status = Lead(m) /\ e.track_continued
      /\ Self(b, e) = [delta |-> Gap(pl, i), bytes |-> m]
  <2>1. p \in Nat /\ L \in Nat
    BY <1>3
  <2> QED BY <1>1, <1>4, <1>6, <2>1, ChannelRead
<1>8. AsEvent(m) = m
  BY <1>1 DEF AsEvent
<1> QED BY <1>5, <1>7, <1>8 DEF EventFits

LEMMA PieceRead ==
  ASSUME NEW pl, NEW n \in Nat, Timed(pl, n), NEW i \in 1 .. Num(pl), Fair(pl, i),
         NEW b, Buffer(b), NEW p, NEW z, Piece(b, pl, i, p, End(pl, i), z),
         NEW run, Ready(pl, i, run), NEW e, e = get_event(b, p, run)
  PROVE  EventFits(b, e, pl, i, z)
<1> PICK m : m = Msg(pl, i)
  OBVIOUS
<1>1. PICK D \in Nat \ {0} :
        /\ p \in Nat \ {0} /\ z - 1 <= Length(b)
        /\ Spaced(b, p, Gap(pl, i), D)
        /\ IF Lead(m) = 240 THEN Gathered(b, pl, i, D, End(pl, i), z)
           ELSE Sounded(b, pl, i, D, End(pl, i), z)
  BY DEF Piece
<1>2. Plain(m) /\ Short(Gap(pl, i))
  BY DEF Fair
<1>3. CASE Lead(m) = 240
  <2>1. b[D] = 240 /\ Enclosed(b, m, D, z)
    BY <1>1, <1>3 DEF Gathered
  <2>2. PICK E \in Nat : Spaced(b, D + 1, Length(m) - 1, E) /\ Follows(b, E, m)
                         /\ z = E + Length(m) - 1
    BY <2>1 DEF Enclosed
  <2>3. /\ e.ptr = E + Length(m) - 1 /\ e.running_status = 240 /\ e.track_continued
        /\ Self(b, e) = [delta |-> Gap(pl, i), bytes |-> AsEvent(m)]
    <3>1. p \in Nat
      BY <1>1
    <3> QED BY <1>1, <1>2, <1>3, <2>1, <2>2, <3>1, ExclusiveRead
  <2> QED BY <1>3, <2>2, <2>3 DEF EventFits
<1>4. CASE Lead(m) # 240
  <2>1. Sounded(b, pl, i, D, End(pl, i), z) /\ p \in Nat \ {0} /\ z - 1 <= Length(b)
        /\ Spaced(b, p, Gap(pl, i), D)
    BY <1>1, <1>4
  <2> QED BY <1>4, <2>1, ChannelPieceRead
<1> QED BY <1>3, <1>4

(* The buffer c goes on where b ends.                                      *)
Prolongs(c, b) ==
  /\ Length(b) \in Nat /\ Length(c) \in Nat /\ Length(b) <= Length(c)
  /\ \A j \in 1 .. Length(b) : c[j] = b[j]

LEMMA SpacedStays ==
  ASSUME NEW b, NEW c, Prolongs(c, b), NEW g, Short(g), NEW p \in Nat \ {0}, NEW D \in Nat,
         Spaced(b, p, g, D)
  PROVE  Spaced(c, p, g, D) /\ p < D
<1> PICK V : V = write_VLN(g)
  OBVIOUS
<1>1. Length(V) \in 1 .. 3
  BY VlnDigits
<1>2. Stands(b, p, V) /\ D = p + Length(V)
  BY DEF Spaced
<1>3. /\ Length(b) \in Nat /\ Length(c) \in Nat /\ Length(b) <= Length(c)
      /\ \A j \in 1 .. Length(b) : c[j] = b[j]
  BY DEF Prolongs
<1>4. p + Length(V) - 1 <= Length(b) /\ \A j \in 1 .. Length(V) : b[p + j - 1] = V[j]
  BY <1>2 DEF Stands
<1>5. ASSUME NEW j \in 1 .. Length(V) PROVE c[p + j - 1] = V[j]
  <2>1. p + j - 1 \in 1 .. Length(b)
    BY <1>1, <1>3, <1>4
  <2> QED BY <1>3, <1>4, <2>1
<1>6. p + Length(V) - 1 <= Length(c) /\ p < D
  BY <1>1, <1>2, <1>3, <1>4
<1>7. Stands(c, p, V)
  BY <1>5, <1>6 DEF Stands
<1> QED BY <1>2, <1>6, <1>7 DEF Spaced

LEMMA EnclosedStays ==
  ASSUME NEW b, NEW c, Prolongs(c, b), NEW m, Plain(m), NEW D \in Nat \ {0}, NEW e,
         Enclosed(b, m, D, e)
  PROVE  Enclosed(c, m, D, e)
<1>1. PICK E \in Nat : Spaced(b, D + 1, Length(m) - 1, E) /\ Follows(b, E, m)
                       /\ e = E + Length(m) - 1
  BY DEF Enclosed
<1>2. Length(m) \in Nat \ {0, 1} /\ Short(Length(m) - 1)
  BY PlainIs
<1>3. Spaced(c, D + 1, Length(m) - 1, E) /\ D + 1 < E
  <2>1. D + 1 \in Nat \ {0}
    OBVIOUS
  <2> QED BY <1>1, <1>2, <2>1, SpacedStays
<1>4. Follows(c, E, m)
  <2> PICK n : n = Length(m)
    OBVIOUS
  <2>1. E + n - 2 <= Length(b) /\ \A j \in 2 .. n : b[E + j - 2] = m[j]
    BY <1>1 DEF Follows
  <2>2. /\ Length(b) \in Nat /\ Length(c) \in Nat /\ Length(b) <= Length(c)
        /\ \A j \in 1 .. Length(b) : c[j] = b[j]
    BY DEF Prolongs
  <2>3. ASSUME NEW j \in 2 .. n PROVE c[E + j - 2] = m[j]
    <3>1. E + j - 2 \in 1 .. Length(b)
      BY <1>2, <1>3, <2>1, <2>2
    <3> QED BY <2>1, <2>2, <3>1
  <2>4. E + n - 2 <= Length(c)
    BY <1>2, <2>1, <2>2
  <2> QED BY <2>3, <2>4 DEF Follows
<1> QED BY <1>1, <1>3, <1>4 DEF Enclosed

(* An event that was written stays. *)
LEMMA PieceStays ==
  ASSUME NEW b, NEW c, Prolongs(c, b), NEW pl, NEW i, Fair(pl, i),
         Begun(pl, i) \in Nat, NEW t \in Nat, NEW p, NEW e, Piece(b, pl, i, p, t, e)
  PROVE  Piece(c, pl, i, p, t, e) /\ p \in Nat \ {0} /\ e \in Nat /\ p < e
<1> PICK m : m = Msg(pl, i)
  OBVIOUS
<1> PICK s : s = Begun(pl, i)
  OBVIOUS
<1>1. PICK D \in Nat \ {0} :
        /\ p \in Nat \ {0} /\ e \in Nat /\ e - 1 <= Length(b) /\ D < e
        /\ Spaced(b, p, Gap(pl, i), D)
        /\ IF Lead(m) = 240 THEN Gathered(b, pl, i, D, t, e) ELSE Sounded(b, pl, i, D, t, e)
  BY DEF Piece
<1>2. Plain(m) /\ Short(Gap(pl, i))
  BY DEF Fair
<1>3. /\ Length(b) \in Nat /\ Length(c) \in Nat /\ Length(b) <= Length(c)
      /\ \A j \in 1 .. Length(b) : c[j] = b[j]
  BY DEF Prolongs
<1>4. Spaced(c, p, Gap(pl, i), D) /\ p < D
  BY <1>1, <1>2, SpacedStays
<1>5. ASSUME Lead(m) = 240 PROVE Gathered(c, pl, i, D, t, e)
  <2>1. b[D] = 240 /\ IF t = End(pl, i) THEN Enclosed(b, m, D, e) ELSE e = D + 1
    BY <1>1, <1>5 DEF Gathered
  <2>2. c[D] = 240
    <3>1. D \in 1 .. Length(b)
      BY <1>1, <1>3
    <3> QED BY <1>3, <2>1, <3>1
  <2>3. t = End(pl, i) => Enclosed(c, m, D, e)
    BY <1>2, <2>1, EnclosedStays
  <2> QED BY <2>1, <2>2, <2>3 DEF Gathered
<1>6. ASSUME Lead(m) # 240 PROVE Sounded(c, pl, i, D, t, e)
  <2>1. e = D + (t - s) /\ \A j \in 1 .. t - s : b[D + j - 1] = ByteOf(pl, i, s + j)
    BY <1>1, <1>6 DEF Sounded, Given
  <2>2. ASSUME NEW j \in 1 .. t - s PROVE c[D + j - 1] = ByteOf(pl, i, s + j)
    <3>1. D + j - 1 \in 1 .. Length(b)
      BY <1>1, <1>3, <2>1
    <3> QED BY <1>3, <2>1, <3>1
  <2> QED BY <2>1, <2>2 DEF Sounded, Given
<1>7. e - 1 <= Length(c) /\ p < e
  BY <1>1, <1>3, <1>4
<1>8. IF Lead(m) = 240 THEN Gathered(c, pl, i, D, t, e) ELSE Sounded(c, pl, i, D, t, e)
  BY <1>5, <1>6
<1> QED BY <1>1, <1>4, <1>7, <1>8 DEF Piece

(* The end of the track behind it. *)
Closes(b, text) ==
  /\ Buffer(b) /\ Prolongs(b, text) /\ Length(text) \in Nat /\ Length(b) = Length(text) + 4
  /\ b[Length(text) + 1] = 0 /\ b[Length(text) + 2] = 255
  /\ b[Length(text) + 3] = 47 /\ b[Length(text) + 4] = 0

LEMMA TrackClosed ==
  ASSUME NEW text, NEW b, Joins(text, EndOfTrack, b)
  PROVE  Closes(b, text)
<1>0. PICK E : E = EndOfTrack
  OBVIOUS
<1>1. Length(E) = 4 /\ E[1] = 0 /\ E[2] = 255 /\ E[3] = 47 /\ E[4] = 0
  BY <1>0 DEF EndOfTrack, Length
<1>2. /\ b \in Seq(Byte) /\ Length(text) \in Nat /\ Length(b) = Length(text) + Length(E)
      /\ \A j \in 1 .. Length(text) : b[j] = text[j]
      /\ \A j \in 1 .. Length(E) : b[Length(text) + j] = E[j]
  BY <1>0 DEF Joins
<1>3. 1 \in 1 .. Length(E) /\ 2 \in 1 .. Length(E) /\ 3 \in 1 .. Length(E) /\ 4 \in 1 .. Length(E)
  BY <1>1
<1>4. /\ b[Length(text) + 1] = E[1] /\ b[Length(text) + 2] = E[2]
      /\ b[Length(text) + 3] = E[3] /\ b[Length(text) + 4] = E[4]
  BY <1>2, <1>3
<1>5. Length(b) = Length(text) + 4 /\ Length(b) \in Nat /\ Length(text) <= Length(b)
  BY <1>1, <1>2
<1>6. Prolongs(b, text)
  BY <1>2, <1>5 DEF Prolongs
<1>7. Buffer(b)
  BY <1>2 DEF Buffer
<1> QED BY <1>1, <1>2, <1>4, <1>5, <1>6, <1>7 DEF Closes

LEMMA TrackEnded ==
  ASSUME NEW text, Buffer(text), NEW b, b = text \o EndOfTrack
  PROVE  Closes(b, text)
<1>1. EndOfTrack \in Seq(Byte)
  BY DEF EndOfTrack, Byte
<1>2. Joins(text, EndOfTrack, b)
  BY <1>1, TwoParts DEF Buffer
<1> QED BY <1>2, TrackClosed

(* The events of the first k messages, event i from P[i].                  *)
Headed(b) == 15 <= Length(b) /\ \A j \in 1 .. 15 : b[j] = MIDI_header[j]
Song(text, pl, k, P) ==
  /\ Buffer(text) /\ Headed(text) /\ P[1] = 16 /\ Length(text) = P[k + 1] - 1
  /\ \A i \in 1 .. k : Piece(text, pl, i, P[i], End(pl, i), P[i + 1])

(* The status before event i, which lets its own be left out.              *)
Turned(pl, i) == IF i = 1 THEN 255 ELSE Lead(Msg(pl, i - 1))

LEMMA StatusReady ==
  ASSUME NEW pl, NEW n, Timed(pl, n), \A i \in 1 .. Num(pl) : Plain(Msg(pl, i)),
         NEW i \in 1 .. Num(pl)
  PROVE  Ready(pl, i, Turned(pl, i))
<1> PICK m : m = Msg(pl, i)
  OBVIOUS
<1>1. \/ End(pl, i) - Begun(pl, i) = Length(m)
      \/ End(pl, i) - Begun(pl, i) = Length(m) - 1 /\ Runs(pl, i, Lead(m))
  BY DEF Timed
<1>2. CASE End(pl, i) - Begun(pl, i) = Length(m)
  BY <1>2 DEF Ready, Suffices
<1>3. CASE End(pl, i) - Begun(pl, i) = Length(m) - 1 /\ Runs(pl, i, Lead(m))
  <2>1. PICK j \in 1 .. i - 1 : /\ Lead(Msg(pl, j)) = Lead(m)
                                /\ \A k \in j + 1 .. i - 1 : Lead(Msg(pl, k)) >= 248
    BY <1>3 DEF Runs
  <2>2. j = i - 1
    <3> SUFFICES ASSUME j # i - 1 PROVE FALSE
      OBVIOUS
    <3>1. i - 1 \in j + 1 .. i - 1 /\ i - 1 \in 1 .. Num(pl)
      BY <2>1 DEF Timed
    <3>2. Lead(Msg(pl, i - 1)) >= 248
      BY <2>1, <3>1
    <3>3. Lead(Msg(pl, i - 1)) \in 128 .. 240
      BY <3>1, PlainIs
    <3> QED BY <3>2, <3>3
  <2>3. Turned(pl, i) = Lead(m)
    BY <2>1, <2>2 DEF Turned
  <2> QED BY <1>3, <2>3 DEF Ready, Suffices
<1> QED BY <1>1, <1>2, <1>3

(* The first two events are the time signature and the tempo.              *)
LEMMA HeadRead ==
  ASSUME NEW b, Headed(b)
  PROVE  /\ get_event(b, 1, 0).ptr = 9 /\ get_event(b, 1, 0).running_status = 255
         /\ get_event(b, 1, 0).track_continued
         /\ get_event(b, 9, 255).ptr = 16 /\ get_event(b, 9, 255).running_status = 255
         /\ get_event(b, 9, 255).track_continued
<1>1. /\ MIDI_header[1] = 0 /\ MIDI_header[2] = 255 /\ MIDI_header[3] = 88
      /\ MIDI_header[4] = 4 /\ MIDI_header[9] = 0 /\ MIDI_header[10] = 255
      /\ MIDI_header[11] = 81 /\ MIDI_header[12] = 3
  BY DEF MIDI_header
<1>2. \A j \in 1 .. 15 : b[j] = MIDI_header[j]
  BY DEF Headed
<1>3. /\ b[1] = 0 /\ b[2] = 255 /\ b[3] = 88 /\ b[4] = 4
      /\ b[9] = 0 /\ b[10] = 255 /\ b[11] = 81 /\ b[12] = 3
  BY <1>1, <1>2
<1>4. ASSUME NEW p \in Nat, NEW run, b[p] = 0, b[p + 1] = 255, b[p + 3] \in 0 .. 127, b[p + 2] # 47
      PROVE  /\ get_event(b, p, run).ptr = p + 4 + b[p + 3]
             /\ get_event(b, p, run).running_status = 255
             /\ get_event(b, p, run).track_continued
  BY <1>4, MetaRead
<1>5. /\ get_event(b, 1, 0).ptr = 1 + 4 + b[1 + 3] /\ get_event(b, 1, 0).running_status = 255
      /\ get_event(b, 1, 0).track_continued
  <2>1. 1 + 1 = 2 /\ 1 + 2 = 3 /\ 1 + 3 = 4
    OBVIOUS
  <2>2. b[1 + 1] = 255 /\ b[1 + 2] # 47 /\ b[1 + 3] \in 0 .. 127
    BY <1>3, <2>1
  <2> QED BY <1>3, <1>4, <2>2
<1>6. /\ get_event(b, 9, 255).ptr = 9 + 4 + b[9 + 3]
      /\ get_event(b, 9, 255).running_status = 255 /\ get_event(b, 9, 255).track_continued
  <2>1. 9 + 1 = 10 /\ 9 + 2 = 11 /\ 9 + 3 = 12
    OBVIOUS
  <2>2. b[9 + 1] = 255 /\ b[9 + 2] # 47 /\ b[9 + 3] \in 0 .. 127
    BY <1>3, <2>1
  <2> QED BY <1>3, <1>4, <2>2
<1>7. 1 + 4 + b[1 + 3] = 9 /\ 9 + 4 + b[9 + 3] = 16
  <2>1. 1 + 3 = 4 /\ 9 + 3 = 12
    OBVIOUS
  <2>2. b[1 + 3] = 4 /\ b[9 + 3] = 3
    BY <1>3, <2>1
  <2> QED BY <2>2
<1> QED BY <1>5, <1>6, <1>7

(* The end of the track ends it.                                           *)
LEMMA EndRead ==
  ASSUME NEW text, NEW b, Closes(b, text), NEW p, p = Length(text) + 1, NEW run
  PROVE  ~ get_event(b, p, run).track_continued
<1>1. /\ Length(text) \in Nat
      /\ b[Length(text) + 1] = 0 /\ b[Length(text) + 2] = 255
      /\ b[Length(text) + 3] = 47 /\ b[Length(text) + 4] = 0
  BY DEF Closes
<1>2. p \in Nat /\ p + 1 = Length(text) + 2 /\ p + 2 = Length(text) + 3 /\ p + 3 = Length(text) + 4
  BY <1>1
<1>3. b[p] = 0 /\ b[p + 1] = 255 /\ b[p + 2] = 47 /\ b[p + 3] \in 0 .. 127
  BY <1>1, <1>2
<1> QED BY <1>2, <1>3, MetaRead

(* The events of the file one after the other: the signature, the tempo,   *)
(* the k messages and the end.                                             *)
Cue(b, pl, k, P, j) ==
  IF j <= 1 THEN get_event(b, 1, 0)
  ELSE IF j = 2 THEN get_event(b, 9, 255)
  ELSE IF j <= k + 2 THEN get_event(b, P[j - 2], Turned(pl, j - 2))
  ELSE get_event(b, P[k + 1], Turned(pl, k + 1))

Fairly(pl) == \A i \in 1 .. Num(pl) : Fair(pl, i)

LEMMA SongPieces ==
  ASSUME NEW pl, NEW n \in Nat, Timed(pl, n), Fairly(pl), NEW k \in 0 .. Num(pl),
         NEW text, NEW P, Song(text, pl, k, P), NEW b, Closes(b, text)
  PROVE  /\ \A i \in 1 .. k : P[i] \in Nat \ {0} /\ P[i + 1] \in Nat /\ P[i] < P[i + 1]
         /\ \A i \in 1 .. k : EventFits(b, get_event(b, P[i], Turned(pl, i)), pl, i, P[i + 1])
         /\ ~ get_event(b, P[k + 1], Turned(pl, k + 1)).track_continued
         /\ P[1] = 16 /\ P[k + 1] = Length(text) + 1
<1>1. /\ P[1] = 16 /\ Length(text) = P[k + 1] - 1
      /\ \A i \in 1 .. k : Piece(text, pl, i, P[i], End(pl, i), P[i + 1])
  BY DEF Song
<1>2. Buffer(b) /\ Prolongs(b, text) /\ Length(text) \in Nat
  BY DEF Closes
<1>3. ASSUME NEW i \in 1 .. k
      PROVE  /\ P[i] \in Nat \ {0} /\ P[i + 1] \in Nat /\ P[i] < P[i + 1]
             /\ EventFits(b, get_event(b, P[i], Turned(pl, i)), pl, i, P[i + 1])
  <2>1. i \in 1 .. Num(pl)
    BY DEF Timed
  <2>2. Fair(pl, i)
    BY <2>1 DEF Fairly
  <2>3. Begun(pl, i) \in Nat /\ End(pl, i) \in Nat
    BY <2>1, Apart
  <2>4. Piece(b, pl, i, P[i], End(pl, i), P[i + 1])
        /\ P[i] \in Nat \ {0} /\ P[i + 1] \in Nat /\ P[i] < P[i + 1]
    BY <1>1, <1>2, <2>2, <2>3, PieceStays
  <2>5. \A j \in 1 .. Num(pl) : Plain(Msg(pl, j))
    BY DEF Fairly, Fair
  <2>6. Ready(pl, i, Turned(pl, i))
    BY <2>1, <2>5, StatusReady
  <2>7. EventFits(b, get_event(b, P[i], Turned(pl, i)), pl, i, P[i + 1])
    BY <1>2, <2>1, <2>2, <2>4, <2>6, PieceRead
  <2> QED BY <2>4, <2>7
<1>4. P[k + 1] = Length(text) + 1
  <2>1. CASE k = 0
    BY <1>1, <2>1
  <2>2. CASE k # 0
    <3>1. k \in 1 .. k
      BY <2>2 DEF Timed
    <3>2. P[k + 1] \in Nat
      BY <1>3, <3>1
    <3> QED BY <1>1, <1>2, <3>2
  <2> QED BY <2>1, <2>2
<1>5. ~ get_event(b, P[k + 1], Turned(pl, k + 1)).track_continued
  BY <1>4, EndRead
<1> QED BY <1>1, <1>3, <1>4, <1>5

(* There is room for the events. *)
LEMMA RoomFor ==
  ASSUME NEW k \in Nat, NEW P, P[1] = 16,
         \A i \in 1 .. k : P[i] \in Nat \ {0} /\ P[i + 1] \in Nat /\ P[i] < P[i + 1]
  PROVE  P[k + 1] \in Nat /\ 16 + k <= P[k + 1]
<1> DEFINE S == {j \in 0 .. k : P[j + 1] \in Nat /\ 16 + j <= P[j + 1]}
<1>1. 0 \in S
  OBVIOUS
<1>2. ASSUME NEW j \in Nat, j \in S, j < k PROVE j + 1 \in S
  <2>1. j + 1 \in 1 .. k
    BY <1>2
  <2>2. P[j + 1] \in Nat /\ P[(j + 1) + 1] \in Nat /\ P[j + 1] < P[(j + 1) + 1]
    BY <2>1
  <2>3. 16 + j <= P[j + 1]
    BY <1>2
  <2> QED BY <2>1, <2>2, <2>3
<1>3. k \in S
  <2> HIDE DEF S
  <2> QED BY <1>1, <1>2, Upwards
<1> QED BY <1>3

(* Each event leads to the next.                                           *)
LEMMA CueNext ==
  ASSUME NEW pl, NEW k \in Nat, NEW b, NEW P, Headed(b), P[1] = 16,
         \A i \in 1 .. k : EventFits(b, get_event(b, P[i], Turned(pl, i)), pl, i, P[i + 1]),
         NEW j \in 1 .. k + 2, NEW e, e = Cue(b, pl, k, P, j)
  PROVE  e.track_continued /\ Cue(b, pl, k, P, j + 1) = get_event(b, e.ptr, e.running_status)
<1>1. CASE j = 1
  <2>1. e = get_event(b, 1, 0) /\ Cue(b, pl, k, P, j + 1) = get_event(b, 9, 255)
    BY <1>1 DEF Cue
  <2> QED BY <2>1, HeadRead
<1>2. CASE j = 2
  <2>1. e = get_event(b, 9, 255)
    BY <1>2 DEF Cue
  <2>2. Cue(b, pl, k, P, j + 1) = get_event(b, P[1], Turned(pl, 1))
    <3>1. j + 1 = 3 /\ ~ (j + 1 <= 1) /\ j + 1 # 2
      BY <1>2
    <3>2. CASE k = 0
      BY <3>1, <3>2 DEF Cue
    <3>3. CASE k # 0
      <4>1. j + 1 <= k + 2 /\ (j + 1) - 2 = 1
        BY <1>2, <3>3
      <4> QED BY <3>1, <4>1 DEF Cue
    <3> QED BY <3>2, <3>3
  <2>3. Turned(pl, 1) = 255
    BY DEF Turned
  <2> QED BY <2>1, <2>2, <2>3, HeadRead
<1>3. CASE j \in 3 .. k + 2
  <2> PICK i : i = j - 2
    OBVIOUS
  <2>1. i \in 1 .. k /\ i + 1 # 1 /\ (i + 1) - 1 = i
    BY <1>3
  <2>2. e = get_event(b, P[i], Turned(pl, i))
    <3>1. ~ (j <= 1) /\ j # 2 /\ j <= k + 2
      BY <1>3
    <3> QED BY <3>1 DEF Cue
  <2>3. e.ptr = P[i + 1] /\ e.running_status = Lead(Msg(pl, i)) /\ e.track_continued
    BY <2>1, <2>2 DEF EventFits
  <2>4. Turned(pl, i + 1) = Lead(Msg(pl, i))
    BY <2>1 DEF Turned
  <2>5. Cue(b, pl, k, P, j + 1) = get_event(b, P[i + 1], Turned(pl, i + 1))
    <3>1. ~ (j + 1 <= 1) /\ j + 1 # 2 /\ (j + 1) - 2 = i + 1
      BY <1>3
    <3>2. CASE j + 1 <= k + 2
      BY <3>1, <3>2 DEF Cue
    <3>3. CASE ~ (j + 1 <= k + 2)
      <4>1. i = k
        BY <1>3, <3>3
      <4> QED BY <3>1, <3>3, <4>1 DEF Cue
    <3> QED BY <3>2, <3>3
  <2> QED BY <2>3, <2>4, <2>5
<1>4. j = 1 \/ j = 2 \/ j \in 3 .. k + 2
  OBVIOUS
<1> QED BY <1>1, <1>2, <1>3, <1>4

(* MIDILOG reads those events.                                             *)
LEMMA EventsAre ==
  ASSUME NEW pl, NEW k \in Nat, NEW b, NEW P, Headed(b), P[1] = 16,
         \A i \in 1 .. k : EventFits(b, get_event(b, P[i], Turned(pl, i)), pl, i, P[i + 1]),
         ~ get_event(b, P[k + 1], Turned(pl, k + 1)).track_continued,
         k + 3 \in 1 .. Len(b)
  PROVE  EventsOf(b, 1, 0) = [j \in 1 .. k + 3 |-> Self(b, Cue(b, pl, k, P, j))]
<1> DEFINE F(j) == Cue(b, pl, k, P, j)
           N == k + 3
           Rec(h) == h = [n \in Nat |-> IF n <= 1 THEN get_event(b, 1, 0)
                                        ELSE Following(b, h[n - 1])]
           c == [n \in Nat |-> F(n)]
           g == CHOOSE h : Rec(h)
           Ending(n) == ~ g[n].track_continued /\ \A i \in 1 .. n - 1 : g[i].track_continued
           last == CHOOSE n \in 1 .. Len(b) : Ending(n)
<1>1. ASSUME NEW j \in 1 .. k + 2
      PROVE  F(j).track_continued /\ F(j + 1) = get_event(b, F(j).ptr, F(j).running_status)
  BY CueNext
<1>2. /\ \A j \in Nat : j >= N => F(j) = F(N)
      /\ ~ F(N).track_continued
      /\ \A j \in Nat : j <= 1 => F(j) = get_event(b, 1, 0)
  <2>1. \A j \in Nat : j >= N => ~ (j <= 1) /\ j # 2 /\ ~ (j <= k + 2)
    OBVIOUS
  <2>2. \A j \in Nat : j >= N => F(j) = get_event(b, P[k + 1], Turned(pl, k + 1))
    BY <2>1 DEF Cue
  <2>3. N \in Nat /\ N >= N
    OBVIOUS
  <2>4. F(N) = get_event(b, P[k + 1], Turned(pl, k + 1))
    BY <2>2, <2>3
  <2>5. \A j \in Nat : j <= 1 => F(j) = get_event(b, 1, 0)
    BY DEF Cue
  <2> HIDE DEF F
  <2> QED BY <2>2, <2>4, <2>5
<1> HIDE DEF F
<1>3. Rec(c)
  <2>1. ASSUME NEW n \in Nat
        PROVE  F(n) = IF n <= 1 THEN get_event(b, 1, 0) ELSE Following(b, c[n - 1])
    <3>1. CASE n <= 1
      BY <1>2, <3>1
    <3>2. CASE n - 1 \in 1 .. k + 2
      <4>1. ~ (n <= 1) /\ n - 1 \in Nat /\ (n - 1) + 1 = n
        BY <3>2
      <4>2. c[n - 1] = F(n - 1)
        BY <4>1
      <4>3. Following(b, F(n - 1)) = F(n)
        BY <1>1, <3>2, <4>1 DEF Following
      <4> QED BY <4>1, <4>2, <4>3
    <3>3. CASE n - 1 >= N
      <4>1. ~ (n <= 1) /\ n - 1 \in Nat /\ n >= N
        BY <3>3
      <4>2. c[n - 1] = F(N) /\ F(n) = F(N)
        BY <1>2, <3>3, <4>1
      <4>3. Following(b, F(N)) = F(N)
        BY <1>2 DEF Following
      <4> QED BY <4>1, <4>2, <4>3
    <3> QED BY <3>1, <3>2, <3>3
  <2> QED BY <2>1
<1>4. Rec(g)
  <2> HIDE DEF Rec, c
  <2> QED BY <1>3
<1> HIDE DEF g, c
<1>5. ASSUME NEW n \in 1 .. N PROVE g[n] = F(n)
  <2> DEFINE S == {j \in Nat : j >= 1 => g[j] = F(j)}
  <2>0. \A j \in Nat : g[j] = IF j <= 1 THEN get_event(b, 1, 0) ELSE Following(b, g[j - 1])
    BY <1>4
  <2> HIDE DEF Rec
  <2>1. 0 \in S
    OBVIOUS
  <2>2. ASSUME NEW j \in 0 .. N - 1, j \in S PROVE j + 1 \in S
    <3>1. CASE j = 0
      BY <1>2, <2>0, <3>1
    <3>2. CASE j # 0
      <4>1. j \in 1 .. k + 2 /\ ~ (j + 1 <= 1) /\ (j + 1) - 1 = j /\ j + 1 \in Nat
        BY <3>2
      <4>2. g[j] = F(j)
        BY <2>2, <4>1
      <4>3. g[j + 1] = Following(b, F(j))
        BY <2>0, <4>1, <4>2
      <4>4. Following(b, F(j)) = F(j + 1)
        BY <1>1, <4>1 DEF Following
      <4> QED BY <4>1, <4>3, <4>4
    <3> QED BY <3>1, <3>2
  <2>3. n \in S
    <3> HIDE DEF S
    <3>1. N \in Nat /\ n \in 0 .. N
      OBVIOUS
    <3> HIDE DEF N
    <3>2. 0 .. N \subseteq S
      BY <2>1, <2>2, <3>1, Upwards
    <3> QED BY <3>1, <3>2
  <2> QED BY <2>3
<1> HIDE DEF Rec
<1>6. Ending(N)
  <2>1. N \in 1 .. N /\ \A i \in 1 .. N - 1 : i \in 1 .. N /\ i \in 1 .. k + 2
    OBVIOUS
  <2> HIDE DEF N
  <2>2. ~ g[N].track_continued
    BY <1>2, <1>5, <2>1
  <2>3. \A i \in 1 .. N - 1 : g[i].track_continued
    BY <1>1, <1>5, <2>1
  <2> QED BY <2>2, <2>3
<1>7. ASSUME NEW n \in 1 .. Len(b), Ending(n) PROVE n = N
  <2>1. CASE n < N
    <3>1. n \in 1 .. N - 1
      BY <2>1
    <3> QED BY <1>6, <1>7, <3>1
  <2>2. CASE n > N
    <3>1. N \in 1 .. n - 1
      BY <2>2
    <3> QED BY <1>6, <1>7, <3>1
  <2> QED BY <2>1, <2>2
<1>8. last = N
  <2>1. N \in 1 .. Len(b)
    OBVIOUS
  <2> HIDE DEF Ending, N
  <2> QED BY <1>6, <1>7, <2>1
<1>9. EventsOf(b, 1, 0) = [n \in 1 .. last |-> Self(b, g[n])]
  BY DEF EventsOf, g, Rec
<1> HIDE DEF last
<1>10. [n \in 1 .. N |-> Self(b, g[n])] = [j \in 1 .. N |-> Self(b, F(j))]
  BY <1>5
<1> QED BY <1>8, <1>9, <1>10 DEF F

(* The events of k messages. *)
Told(pl, k) == [i \in 1 .. k |-> [delta |-> Gap(pl, i), bytes |-> AsEvent(Msg(pl, i))]]

Row(a, n) == a = [j \in 1 .. n |-> a[j]]

(* Behind the first two and before the last. *)
LEMMA Middle ==
  ASSUME NEW k \in Nat, NEW a, Row(a, k + 3), NEW c, Row(c, k), \A i \in 1 .. k : a[i + 2] = c[i]
  PROVE  SubSeq(a, 3, Len(a) - 1) = c
<1> DEFINE S == {a[j] : j \in 1 .. k + 3}
<1>1. a \in Seq(S) /\ Len(a) = k + 3
  <2>1. a \in [1 .. k + 3 -> S] /\ k + 3 \in Nat
    BY DEF Row
  <2> HIDE DEF S
  <2> QED BY <2>1
<1>2. c \in Seq(S) /\ Len(c) = k
  <2>1. \A i \in 1 .. k : c[i] \in S
    <3> SUFFICES ASSUME NEW i \in 1 .. k PROVE c[i] \in S
      OBVIOUS
    <3>1. i + 2 \in 1 .. k + 3
      OBVIOUS
    <3> QED BY <3>1
  <2> HIDE DEF S
  <2>2. c \in [1 .. k -> S]
    BY <2>1 DEF Row
  <2> QED BY <2>2
<1> DEFINE u == SubSeq(a, 3, k + 2)
<1>3. \A i \in 3 .. k + 2 : a[i] \in S
  OBVIOUS
<1> HIDE DEF S
<1>4. /\ u \in Seq(S) /\ Len(u) = (IF 3 <= k + 2 THEN (k + 2) - 3 + 1 ELSE 0)
      /\ \A i \in 1 .. (k + 2) - 3 + 1 : u[i] = a[3 + i - 1]
  BY <1>1, <1>3, SubSeqProperties
<1> HIDE DEF u
<1>5. Len(u) = k /\ (k + 2) - 3 + 1 = k
  BY <1>4
<1>6. ASSUME NEW i \in 1 .. k PROVE u[i] = c[i]
  <2>1. 3 + i - 1 = i + 2
    OBVIOUS
  <2> QED BY <1>4, <1>5, <2>1
<1>7. u = c
  BY <1>2, <1>4, <1>5, <1>6, SeqEqual
<1>8. Len(a) - 1 = k + 2
  BY <1>1
<1> QED BY <1>7, <1>8 DEF u

(* The track read back. *)
LEMMA TrackRead ==
  ASSUME NEW pl, NEW n \in Nat, Timed(pl, n), Fairly(pl), NEW k \in 0 .. Num(pl),
         NEW text, NEW P, Song(text, pl, k, P), NEW b, Closes(b, text)
  PROVE  SubSeq(EventsOf(b, 1, 0), 3, Len(EventsOf(b, 1, 0)) - 1) = Told(pl, k)
<1>1. /\ \A i \in 1 .. k : P[i] \in Nat \ {0} /\ P[i + 1] \in Nat /\ P[i] < P[i + 1]
      /\ \A i \in 1 .. k : EventFits(b, get_event(b, P[i], Turned(pl, i)), pl, i, P[i + 1])
      /\ ~ get_event(b, P[k + 1], Turned(pl, k + 1)).track_continued
      /\ P[1] = 16 /\ P[k + 1] = Length(text) + 1
  BY SongPieces
<1>2. k \in Nat
  BY DEF Timed
<1>3. k + 3 \in 1 .. Len(b)
  <2>1. P[k + 1] \in Nat /\ 16 + k <= P[k + 1]
    BY <1>1, <1>2, RoomFor
  <2>2. Len(b) = Length(text) + 4 /\ Length(text) \in Nat
    BY DEF Closes, Length
  <2> QED BY <1>1, <1>2, <2>1, <2>2
<1>4. Headed(b)
  <2>1. 15 <= Length(text) /\ \A j \in 1 .. 15 : text[j] = MIDI_header[j]
    BY DEF Song, Headed
  <2>2. Length(text) \in Nat /\ Length(b) \in Nat /\ Length(text) <= Length(b)
        /\ \A j \in 1 .. Length(text) : b[j] = text[j]
    BY DEF Closes, Prolongs
  <2>3. \A j \in 1 .. 15 : j \in 1 .. Length(text)
    BY <2>1, <2>2
  <2> QED BY <2>1, <2>2, <2>3 DEF Headed
<1> DEFINE F(j) == Self(b, Cue(b, pl, k, P, j))
           a == [j \in 1 .. k + 3 |-> F(j)]
<1>5. EventsOf(b, 1, 0) = a
  BY <1>1, <1>2, <1>3, <1>4, EventsAre
<1>6. ASSUME NEW i \in 1 .. k PROVE a[i + 2] = Told(pl, k)[i]
  <2>1. i + 2 \in 1 .. k + 3 /\ ~ (i + 2 <= 1) /\ i + 2 # 2 /\ i + 2 <= k + 2 /\ (i + 2) - 2 = i
    BY <1>2
  <2>2. Cue(b, pl, k, P, i + 2) = get_event(b, P[i], Turned(pl, i))
    BY <2>1 DEF Cue
  <2>3. Self(b, get_event(b, P[i], Turned(pl, i)))
        = [delta |-> Gap(pl, i), bytes |-> AsEvent(Msg(pl, i))]
    BY <1>1 DEF EventFits
  <2>4. a[i + 2] = Self(b, Cue(b, pl, k, P, i + 2))
    BY <2>1
  <2> QED BY <2>2, <2>3, <2>4 DEF Told
<1>7. Row(a, k + 3) /\ Row(Told(pl, k), k)
  BY DEF Told, Row
<1> HIDE DEF a
<1> QED BY <1>2, <1>5, <1>6, <1>7, Middle

----------------------------------------------------------------------------
(* MIDIREC: what one byte adds to the file.                                *)

(* The file after t bytes, the last of them one of message k: its events   *)
(* are at P.                                                               *)
Recorded(text, pl, k, t, P) ==
  /\ Buffer(text) /\ Headed(text) /\ P[1] = 16 /\ P[k + 1] = Length(text) + 1
  /\ \A i \in 1 .. k : Piece(text, pl, i, P[i], IF i < k THEN End(pl, i) ELSE t, P[i + 1])

(* The bytes c are those of s, V and r.                                    *)
Spread(s, V, r, c) ==
  /\ Buffer(c) /\ Prolongs(c, s) /\ Length(s) \in Nat /\ Length(V) \in Nat /\ Length(r) \in Nat
  /\ Length(c) = Length(s) + Length(V) + Length(r)
  /\ Stands(c, Length(s) + 1, V) /\ Stands(c, Length(s) + Length(V) + 1, r)

LEMMA JoinedProlongs ==
  ASSUME NEW s, NEW r, NEW c, Joins(s, r, c)
  PROVE  /\ Buffer(c) /\ Prolongs(c, s) /\ Length(c) = Length(s) + Length(r)
         /\ Length(s) \in Nat /\ Length(r) \in Nat
         /\ Stands(c, Length(s) + 1, r)
<1>1. /\ c \in Seq(Byte) /\ Length(s) \in Nat /\ Length(r) \in Nat
      /\ Length(c) = Length(s) + Length(r)
      /\ \A j \in 1 .. Length(s) : c[j] = s[j]
      /\ \A j \in 1 .. Length(r) : c[Length(s) + j] = r[j]
  BY DEF Joins
<1>2. Prolongs(c, s)
  BY <1>1 DEF Prolongs
<1>3. Stands(c, Length(s) + 1, r)
  <2>1. \A j \in 1 .. Length(r) : Length(s) + 1 + j - 1 = Length(s) + j
    BY <1>1
  <2>2. \A j \in 1 .. Length(r) : c[Length(s) + 1 + j - 1] = r[j]
    BY <1>1, <2>1
  <2>3. Length(s) + 1 + Length(r) - 1 <= Length(c)
    BY <1>1
  <2> QED BY <2>2, <2>3 DEF Stands
<1> QED BY <1>1, <1>2, <1>3 DEF Buffer

LEMMA StandsOn ==
  ASSUME NEW b, NEW c, Prolongs(c, b), NEW p \in Nat \ {0}, NEW s, Length(s) \in Nat, Stands(b, p, s)
  PROVE  Stands(c, p, s)
<1>1. /\ Length(b) \in Nat /\ Length(c) \in Nat /\ Length(b) <= Length(c)
      /\ \A j \in 1 .. Length(b) : c[j] = b[j]
  BY DEF Prolongs
<1>2. p + Length(s) - 1 <= Length(b) /\ \A j \in 1 .. Length(s) : b[p + j - 1] = s[j]
  BY DEF Stands
<1>3. ASSUME NEW j \in 1 .. Length(s) PROVE c[p + j - 1] = s[j]
  <2>1. p + j - 1 \in 1 .. Length(b)
    BY <1>1, <1>2
  <2> QED BY <1>1, <1>2, <2>1
<1>4. p + Length(s) - 1 <= Length(c)
  BY <1>1, <1>2
<1> QED BY <1>3, <1>4 DEF Stands

LEMMA ProlongsOn ==
  ASSUME NEW a, NEW b, NEW c, Prolongs(b, a), Prolongs(c, b)
  PROVE  Prolongs(c, a)
<1>1. /\ Length(a) \in Nat /\ Length(b) \in Nat /\ Length(c) \in Nat
      /\ Length(a) <= Length(b) /\ Length(b) <= Length(c)
      /\ \A j \in 1 .. Length(a) : b[j] = a[j]
      /\ \A j \in 1 .. Length(b) : c[j] = b[j]
  BY DEF Prolongs
<1>2. \A j \in 1 .. Length(a) : j \in 1 .. Length(b)
  BY <1>1
<1>3. Length(a) <= Length(c)
  BY <1>1
<1> QED BY <1>1, <1>2, <1>3 DEF Prolongs

LEMMA SpreadOut ==
  ASSUME NEW s, Buffer(s), NEW V, Buffer(V), NEW r, Buffer(r), NEW c, c = s \o V \o r
  PROVE  Spread(s, V, r, c)
<1>0. PICK d : d = s \o V
  OBVIOUS
<1>1. Joins(s, V, d)
  BY <1>0, TwoParts DEF Buffer
<1>2. d \in Seq(Byte) /\ c = d \o r
  BY <1>0, <1>1 DEF Joins
<1>3. Joins(d, r, c)
  BY <1>2, TwoParts DEF Buffer
<1>4. /\ Prolongs(d, s) /\ Length(d) = Length(s) + Length(V)
      /\ Length(s) \in Nat /\ Length(V) \in Nat /\ Stands(d, Length(s) + 1, V)
  BY <1>1, JoinedProlongs
<1>5. /\ Buffer(c) /\ Prolongs(c, d) /\ Length(c) = Length(d) + Length(r)
      /\ Length(r) \in Nat /\ Stands(c, Length(d) + 1, r)
  BY <1>3, JoinedProlongs
<1>6. Prolongs(c, s)
  BY <1>4, <1>5, ProlongsOn
<1>7. Stands(c, Length(s) + 1, V)
  <2>1. Length(s) + 1 \in Nat \ {0}
    BY <1>4
  <2> QED BY <1>4, <1>5, <2>1, StandsOn
<1> QED BY <1>4, <1>5, <1>6, <1>7 DEF Spread

(* What was recorded stays. *)
LEMMA HeadStays ==
  ASSUME NEW b, NEW c, Prolongs(c, b), Headed(b)
  PROVE  Headed(c)
<1>1. /\ Length(b) \in Nat /\ Length(c) \in Nat /\ Length(b) <= Length(c)
      /\ \A j \in 1 .. Length(b) : c[j] = b[j]
  BY DEF Prolongs
<1>2. 15 <= Length(b) /\ \A j \in 1 .. 15 : b[j] = MIDI_header[j]
  BY DEF Headed
<1>3. \A j \in 1 .. 15 : j \in 1 .. Length(b)
  BY <1>1, <1>2
<1>4. 15 <= Length(c)
  BY <1>1, <1>2
<1> QED BY <1>1, <1>2, <1>3, <1>4 DEF Headed

(* The context of the messages: they are Fair. *)
Heeds(pl, k) ==
  /\ k \in Nat
  /\ \A i \in 1 .. k : Fair(pl, i) /\ Begun(pl, i) \in Nat /\ End(pl, i) \in Nat

LEMMA RecordStays ==
  ASSUME NEW pl, NEW k, Heeds(pl, k), NEW t \in Nat, NEW text, NEW P,
         Recorded(text, pl, k, t, P), NEW c, Prolongs(c, text)
  PROVE  \A i \in 1 .. k : Piece(c, pl, i, P[i], IF i < k THEN End(pl, i) ELSE t, P[i + 1])
<1> SUFFICES ASSUME NEW i \in 1 .. k
             PROVE  Piece(c, pl, i, P[i], IF i < k THEN End(pl, i) ELSE t, P[i + 1])
  OBVIOUS
<1> PICK s : s = IF i < k THEN End(pl, i) ELSE t
  OBVIOUS
<1>1. Fair(pl, i) /\ Begun(pl, i) \in Nat /\ s \in Nat
  BY DEF Heeds
<1>2. Piece(text, pl, i, P[i], s, P[i + 1])
  BY DEF Recorded
<1>3. Piece(c, pl, i, P[i], s, P[i + 1])
  BY <1>1, <1>2, PieceStays
<1> QED BY <1>3

(* The first byte of message k + 1. *)
LEMMA WriteBegins ==
  ASSUME NEW pl, NEW k \in Nat, Heeds(pl, k + 1), NEW t, t = Begun(pl, k + 1),
         k = 0 \/ t = End(pl, k), NEW text, NEW P, Recorded(text, pl, k, t, P),
         NEW x \in Byte, x = ByteOf(pl, k + 1, t + 1),
         Lead(Msg(pl, k + 1)) = 240 => x = 240 /\ t + 1 # End(pl, k + 1),
         NEW V, V = write_VLN(Gap(pl, k + 1)), NEW r, Length(r) = 1, r[1] = x,
         NEW c, Spread(text, V, r, c)
  PROVE  \E Q : Recorded(c, pl, k + 1, t + 1, Q)
<1> PICK i : i = k + 1
  OBVIOUS
<1>0. V = write_VLN(Gap(pl, i))
  OBVIOUS
<1>2. Fair(pl, i) /\ t \in Nat /\ i \in 1 .. i /\ i = k + 1
  <2>1. k + 1 \in 1 .. k + 1
    OBVIOUS
  <2> QED BY <2>1 DEF Heeds
<1>3. V \in Seq(Byte) /\ Length(V) \in 1 .. 3
  <2>1. Short(Gap(pl, i))
    BY <1>2 DEF Fair
  <2> QED BY <1>0, <2>1, VlnForm
<1>4. /\ Buffer(text) /\ Headed(text) /\ P[1] = 16 /\ P[k + 1] = Length(text) + 1
  BY DEF Recorded
<1>6. PICK p \in Nat \ {0} : p = Length(text) + 1
  BY DEF Spread
<1>7. PICK D \in Nat \ {0} : D = p + Length(V)
  BY <1>3
<1>8. /\ Buffer(c) /\ Prolongs(c, text) /\ Length(c) = D
      /\ Stands(c, p, V) /\ c[D] = x
  <2>4. /\ Buffer(c) /\ Prolongs(c, text) /\ Length(text) \in Nat
        /\ Length(c) = Length(text) + Length(V) + Length(r)
        /\ Stands(c, Length(text) + 1, V) /\ Stands(c, Length(text) + Length(V) + 1, r)
    BY DEF Spread
  <2>5. Length(text) + Length(V) + 1 = D /\ Length(c) = D
    BY <1>3, <1>6, <1>7, <2>4
  <2>6. c[D] = x
    <3>1. Stands(c, D, r)
      BY <2>4, <2>5
    <3>2. c[D + 1 - 1] = r[1]
      <4>1. 1 \in 1 .. Length(r)
        OBVIOUS
      <4> QED BY <3>1, <4>1 DEF Stands
    <3>3. D + 1 - 1 = D
      OBVIOUS
    <3> QED BY <3>2, <3>3
  <2> QED BY <1>6, <2>4, <2>5, <2>6
<1>9. Piece(c, pl, i, p, t + 1, D + 1)
  <2>1. Spaced(c, p, Gap(pl, i), D)
    BY <1>0, <1>7, <1>8 DEF Spaced
  <2>2. ASSUME Lead(Msg(pl, i)) = 240 PROVE Gathered(c, pl, i, D, t + 1, D + 1)
    BY <1>2, <1>8, <2>2 DEF Gathered
  <2>3. Sounded(c, pl, i, D, t + 1, D + 1)
    <3>1. Begun(pl, i) = t /\ (t + 1) - t = 1
      BY <1>2
    <3>2. c[D] = ByteOf(pl, i, t + 1)
      BY <1>2, <1>8
    <3>3. ASSUME NEW j \in 1 .. 1 PROVE c[D + j - 1] = ByteOf(pl, i, t + j)
      <4>1. j = 1 /\ D + j - 1 = D
        OBVIOUS
      <4> QED BY <3>2, <4>1
    <3>4. Given(c, pl, i, D, t + 1)
      <4>1. (t + 1) - Begun(pl, i) = 1
        BY <3>1
      <4>2. \A j \in 1 .. (t + 1) - Begun(pl, i) : c[D + j - 1] = ByteOf(pl, i, Begun(pl, i) + j)
        BY <3>1, <3>3, <4>1
      <4> QED BY <4>2 DEF Given
    <3>5. D + 1 = D + ((t + 1) - Begun(pl, i))
      BY <3>1
    <3> QED BY <3>4, <3>5 DEF Sounded
  <2>4. D + 1 \in Nat /\ (D + 1) - 1 <= Length(c) /\ D < D + 1
    BY <1>8
  <2> QED BY <2>1, <2>2, <2>3, <2>4 DEF Piece
<1> DEFINE Q == [j \in 1 .. k + 2 |-> IF j = k + 2 THEN D + 1 ELSE P[j]]
<1>10. ASSUME NEW j \in 1 .. i
       PROVE  Piece(c, pl, j, Q[j], IF j < i THEN End(pl, j) ELSE t + 1, Q[j + 1])
  <2>1. CASE j = i
    <3>1. Q[j] = p /\ Q[j + 1] = D + 1 /\ ~ (j < i)
      <4>1. j \in 1 .. k + 2 /\ j # k + 2 /\ j + 1 = k + 2 /\ k + 2 \in 1 .. k + 2 /\ ~ (j < i)
        BY <1>2, <2>1
      <4> QED BY <1>2, <1>4, <1>6, <2>1, <4>1
    <3> QED BY <1>9, <2>1, <3>1
  <2>2. CASE j # i
    <3>1. j \in 1 .. k /\ j < i /\ k # 0 /\ j \in 1 .. k + 2 /\ j # k + 2 /\ j + 1 # k + 2
          /\ j + 1 \in 1 .. k + 2
      BY <1>2, <2>2
    <3>2. Q[j] = P[j] /\ Q[j + 1] = P[j + 1]
      BY <3>1
    <3>3. Heeds(pl, k)
      BY DEF Heeds
    <3>4. Piece(c, pl, j, P[j], IF j < k THEN End(pl, j) ELSE t, P[j + 1])
      BY <1>2, <1>8, <3>1, <3>3, RecordStays
    <3>5. (IF j < k THEN End(pl, j) ELSE t) = End(pl, j)
      BY <3>1
    <3> QED BY <3>1, <3>2, <3>4, <3>5
  <2> QED BY <2>1, <2>2
<1>11. Q[1] = 16 /\ Q[i + 1] = Length(c) + 1
  <2>1. 1 \in 1 .. k + 2 /\ 1 # k + 2 /\ i + 1 = k + 2 /\ k + 2 \in 1 .. k + 2
    BY <1>2
  <2> QED BY <1>4, <1>8, <2>1
<1>12. Headed(c)
  BY <1>4, <1>8, HeadStays
<1> HIDE DEF Q
<1>13. Recorded(c, pl, i, t + 1, Q)
  BY <1>8, <1>10, <1>11, <1>12 DEF Recorded
<1> QED BY <1>13

(* The last event grows. *)
LEMMA LastGrows ==
  ASSUME NEW pl, NEW k \in Nat \ {0}, Heeds(pl, k), NEW t \in Nat, NEW text, NEW P,
         Recorded(text, pl, k, t, P), NEW c, Prolongs(c, text), Buffer(c),
         NEW s, NEW e, e = Length(c) + 1, Piece(c, pl, k, P[k], s, e)
  PROVE  \E Q : Recorded(c, pl, k, s, Q)
<1> DEFINE Q == [j \in 1 .. k + 1 |-> IF j = k + 1 THEN e ELSE P[j]]
<1>1. /\ Headed(text) /\ P[1] = 16
  BY DEF Recorded
<1>2. ASSUME NEW j \in 1 .. k
      PROVE  Piece(c, pl, j, Q[j], IF j < k THEN End(pl, j) ELSE s, Q[j + 1])
  <2>1. CASE j = k
    <3>1. Q[j] = P[k] /\ Q[j + 1] = e /\ ~ (j < k)
      BY <2>1
    <3> QED BY <2>1, <3>1
  <2>2. CASE j # k
    <3>1. Q[j] = P[j] /\ Q[j + 1] = P[j + 1] /\ j < k
      BY <2>2
    <3>2. Piece(c, pl, j, P[j], IF j < k THEN End(pl, j) ELSE t, P[j + 1])
      BY RecordStays
    <3> QED BY <3>1, <3>2
  <2> QED BY <2>1, <2>2
<1>3. Q[1] = 16 /\ Q[k + 1] = Length(c) + 1
  <2>1. 1 \in 1 .. k + 1 /\ k + 1 \in 1 .. k + 1 /\ 1 # k + 1
    OBVIOUS
  <2> QED BY <1>1, <2>1
<1>4. Headed(c)
  BY <1>1, HeadStays
<1> HIDE DEF Q
<1>5. Recorded(c, pl, k, s, Q)
  BY <1>2, <1>3, <1>4 DEF Recorded
<1> QED BY <1>5

(* A byte more of a channel message. *)
LEMMA WriteGoes ==
  ASSUME NEW pl, NEW k \in Nat \ {0}, Heeds(pl, k), NEW t \in Nat, Begun(pl, k) < t,
         Lead(Msg(pl, k)) # 240, NEW text, NEW P, Recorded(text, pl, k, t, P),
         NEW r, Length(r) = 1, r[1] = ByteOf(pl, k, t + 1), NEW c, Joins(text, r, c)
  PROVE  \E Q : Recorded(c, pl, k, t + 1, Q)
<1> PICK s : s = Begun(pl, k)
  OBVIOUS
<1>1. k \in 1 .. k /\ s \in Nat /\ s < t /\ Fair(pl, k)
  BY DEF Heeds
<1>2. Piece(text, pl, k, P[k], t, P[k + 1]) /\ P[k + 1] = Length(text) + 1
  <2>1. ~ (k < k)
    OBVIOUS
  <2> QED BY <1>1, <2>1 DEF Recorded
<1>3. /\ Buffer(c) /\ Prolongs(c, text) /\ Length(c) = Length(text) + 1
      /\ Length(text) \in Nat /\ c[Length(text) + 1] = r[1]
  <2>1. /\ Buffer(c) /\ Prolongs(c, text) /\ Length(c) = Length(text) + Length(r)
        /\ Length(text) \in Nat
    BY JoinedProlongs
  <2>2. c[Length(text) + 1] = r[1]
    <3>1. 1 \in 1 .. Length(r)
      OBVIOUS
    <3> QED BY <3>1 DEF Joins
  <2> QED BY <2>1, <2>2
<1>4. Piece(c, pl, k, P[k], t, P[k + 1])
  BY <1>1, <1>2, <1>3, PieceStays
<1> PICK p : p = P[k]
  OBVIOUS
<1>5. PICK D \in Nat \ {0} :
        /\ p \in Nat \ {0} /\ D < P[k + 1]
        /\ Spaced(c, p, Gap(pl, k), D) /\ Sounded(c, pl, k, D, t, P[k + 1])
  BY <1>4 DEF Piece
<1>6. PICK e \in Nat : e = P[k + 1]
  BY <1>2, <1>3
<1>7. e = D + (t - s) /\ \A j \in 1 .. t - s : c[D + j - 1] = ByteOf(pl, k, s + j)
  BY <1>5, <1>6 DEF Sounded, Given
<1>8. c[e] = ByteOf(pl, k, t + 1)
  BY <1>2, <1>3, <1>6
<1>9. Given(c, pl, k, D, t + 1)
  <2>1. ASSUME NEW j \in 1 .. (t + 1) - s PROVE c[D + j - 1] = ByteOf(pl, k, s + j)
    <3>1. CASE j \in 1 .. t - s
      BY <1>7, <3>1
    <3>2. CASE j = (t + 1) - s
      <4>1. D + j - 1 = e /\ s + j = t + 1
        BY <1>1, <1>7, <3>2
      <4> QED BY <1>8, <4>1
    <3>3. j \in 1 .. t - s \/ j = (t + 1) - s
      BY <1>1
    <3> QED BY <3>1, <3>2, <3>3
  <2> QED BY <2>1 DEF Given
<1>10. Sounded(c, pl, k, D, t + 1, e + 1)
  <2>1. e + 1 = D + ((t + 1) - s)
    BY <1>1, <1>7
  <2> QED BY <1>9, <2>1 DEF Sounded
<1>11. Piece(c, pl, k, p, t + 1, e + 1)
  <2>1. e + 1 \in Nat /\ (e + 1) - 1 <= Length(c) /\ D < e + 1
    BY <1>2, <1>3, <1>5, <1>6
  <2> QED BY <1>5, <1>10, <2>1 DEF Piece
<1>12. e + 1 = Length(c) + 1
  BY <1>2, <1>3, <1>6
<1> QED BY <1>3, <1>11, <1>12, LastGrows

(* A byte more of an exclusive message: it is not written yet.             *)
LEMMA WriteHolds ==
  ASSUME NEW pl, NEW k \in Nat \ {0}, NEW t, NEW s, t # End(pl, k), s # End(pl, k),
         Lead(Msg(pl, k)) = 240, NEW text, NEW P, Recorded(text, pl, k, t, P)
  PROVE  Recorded(text, pl, k, s, P)
<1>1. ASSUME NEW i \in 1 .. k
      PROVE  Piece(text, pl, i, P[i], IF i < k THEN End(pl, i) ELSE s, P[i + 1])
  <2>1. Piece(text, pl, i, P[i], IF i < k THEN End(pl, i) ELSE t, P[i + 1])
    BY DEF Recorded
  <2>2. CASE i < k
    BY <2>1, <2>2
  <2>3. CASE ~ (i < k)
    <3>1. i = k
      BY <2>3
    <3>2. Piece(text, pl, k, P[k], t, P[k + 1])
      BY <2>1, <2>3, <3>1
    <3>3. Piece(text, pl, k, P[k], s, P[k + 1])
      BY <3>2 DEF Piece, Gathered
    <3> QED BY <2>3, <3>1, <3>3
  <2> QED BY <2>2, <2>3
<1> QED BY <1>1 DEF Recorded

(* The end of an exclusive message. *)
LEMMA WriteEnds ==
  ASSUME NEW pl, NEW k \in Nat \ {0}, Heeds(pl, k), NEW t \in Nat, t # End(pl, k),
         Lead(Msg(pl, k)) = 240, NEW text, NEW P, Recorded(text, pl, k, t, P),
         NEW m, m = Msg(pl, k), NEW V, V = write_VLN(Length(m) - 1),
         NEW u, Length(u) = Length(m) - 2, \A j \in 1 .. Length(u) : u[j] = m[j + 1],
         NEW d, Spread(text, V, u, d),
         NEW r, Length(r) = 1, r[1] = 247, NEW c, Joins(d, r, c)
  PROVE  \E Q : Recorded(c, pl, k, End(pl, k), Q)
<1> PICK n : n = Length(m)
  OBVIOUS
<1> PICK p : p = P[k]
  OBVIOUS
<1>1. k \in 1 .. k /\ Fair(pl, k) /\ Begun(pl, k) \in Nat
  BY DEF Heeds
<1>2. Plain(m) /\ Short(Gap(pl, k))
  BY <1>1 DEF Fair
<1>3. n \in Nat \ {0, 1} /\ Short(n - 1) /\ m[n] = 247
  BY <1>2, PlainIs
<1>4. Length(V) \in 1 .. 3
  BY <1>3, VlnDigits
<1>5. Piece(text, pl, k, p, t, P[k + 1]) /\ P[k + 1] = Length(text) + 1
  <2>1. ~ (k < k)
    OBVIOUS
  <2> QED BY <1>1, <2>1 DEF Recorded
<1>6. /\ Prolongs(d, text) /\ Length(text) \in Nat /\ Length(u) \in Nat
      /\ Length(d) = Length(text) + Length(V) + Length(u)
      /\ Stands(d, Length(text) + 1, V) /\ Stands(d, Length(text) + Length(V) + 1, u)
  BY DEF Spread
<1>7. /\ Buffer(c) /\ Prolongs(c, d) /\ Length(c) = Length(d) + 1 /\ c[Length(d) + 1] = 247
  <2>1. /\ Buffer(c) /\ Prolongs(c, d) /\ Length(c) = Length(d) + Length(r)
    BY JoinedProlongs
  <2>2. c[Length(d) + 1] = r[1]
    <3>1. 1 \in 1 .. Length(r)
      OBVIOUS
    <3> QED BY <3>1 DEF Joins
  <2> QED BY <2>1, <2>2
<1>8. Prolongs(c, text)
  BY <1>6, <1>7, ProlongsOn
<1>9. Piece(c, pl, k, p, t, P[k + 1])
  BY <1>1, <1>5, <1>8, PieceStays
<1>10. PICK D \in Nat \ {0} :
         /\ p \in Nat \ {0} /\ Spaced(c, p, Gap(pl, k), D) /\ c[D] = 240 /\ P[k + 1] = D + 1
  BY <1>9 DEF Piece, Gathered
<1>11. PICK E \in Nat : E = D + 1 + Length(V)
  BY <1>4
<1>12. Length(text) = D /\ Length(d) = E - 1 + (n - 2) /\ Length(c) = E + n - 2
       /\ Length(text) + Length(V) + 1 = E
  BY <1>3, <1>4, <1>5, <1>6, <1>7, <1>10, <1>11
<1>13. Stands(c, D + 1, V) /\ Stands(c, E, u)
  <2>1. D + 1 \in Nat \ {0} /\ E \in Nat \ {0} /\ Length(V) \in Nat
    BY <1>4, <1>11
  <2>2. Stands(d, D + 1, V) /\ Stands(d, E, u)
    BY <1>6, <1>12
  <2> QED BY <1>6, <1>7, <2>1, <2>2, StandsOn
<1>14. Spaced(c, D + 1, n - 1, E)
  BY <1>11, <1>13 DEF Spaced
<1>15. Follows(c, E, m)
  <2>1. ASSUME NEW j \in 2 .. n PROVE c[E + j - 2] = m[j]
    <3>1. CASE j = n
      <4>1. E + j - 2 = Length(d) + 1
        BY <1>3, <1>12, <3>1
      <4> QED BY <1>3, <1>7, <3>1, <4>1
    <3>2. CASE j # n
      <4>1. j - 1 \in 1 .. Length(u) /\ E + (j - 1) - 1 = E + j - 2 /\ (j - 1) + 1 = j
        BY <1>3, <3>2
      <4>2. c[E + (j - 1) - 1] = u[j - 1]
        BY <1>13, <4>1 DEF Stands
      <4>3. u[j - 1] = m[(j - 1) + 1]
        BY <4>1
      <4> QED BY <4>1, <4>2, <4>3
    <3> QED BY <3>1, <3>2
  <2>2. E + n - 2 <= Length(c)
    BY <1>12, <1>3
  <2> QED BY <2>1, <2>2 DEF Follows
<1>16. PICK e \in Nat : e = E + n - 1
  BY <1>3
<1>17. Gathered(c, pl, k, D, End(pl, k), e)
  BY <1>10, <1>14, <1>15, <1>16 DEF Gathered, Enclosed
<1>18. Piece(c, pl, k, p, End(pl, k), e)
  <2>1. e - 1 <= Length(c) /\ D < e
    BY <1>3, <1>4, <1>11, <1>12, <1>16
  <2> QED BY <1>10, <1>17, <2>1 DEF Piece
<1>19. e = Length(c) + 1
  BY <1>3, <1>12, <1>16
<1> QED BY <1>7, <1>8, <1>18, <1>19, LastGrows

----------------------------------------------------------------------------
(* MIDIREC: where the main loop stands after t bytes.                      *)

(* In message k, or behind it. *)
Reached(pl, k, t) ==
  /\ k \in 0 .. Num(pl) /\ t \in Nat
  /\ k # 0 => Begun(pl, k) < t /\ t <= End(pl, k)
  /\ k < Num(pl) => t <= Begun(pl, k + 1)

(* The next byte is one of the message that was cut, or the first or       *)
(* another one of a message.                                               *)
LEMMA ReachedNext ==
  ASSUME NEW pl, NEW n \in Nat, Timed(pl, n), NEW u, Coming(pl, u, n), Length(u) \in Nat,
         NEW t \in 0 .. n - 1, NEW k, Reached(pl, k, t)
  PROVE  \/ k = 0 /\ (Num(pl) = 0 \/ t + 1 <= Begun(pl, 1)) /\ Reached(pl, 0, t + 1)
         \/ /\ k < Num(pl) /\ t = Begun(pl, k + 1) /\ (k = 0 \/ t = End(pl, k))
            /\ Reached(pl, k + 1, t + 1)
         \/ /\ k # 0 /\ Begun(pl, k) < t /\ t < End(pl, k) /\ Reached(pl, k, t + 1)
<1>1. Num(pl) \in Nat /\ k \in 0 .. Num(pl) /\ t \in Nat /\ t + 1 \in Nat
      /\ (k # 0 => k \in 1 .. Num(pl) /\ Begun(pl, k) < t /\ t <= End(pl, k))
      /\ (k < Num(pl) => k + 1 \in 1 .. Num(pl) /\ t <= Begun(pl, k + 1))
  BY DEF Reached, Timed
<1>2. CASE Num(pl) = 0 \/ t + 1 <= Begun(pl, 1)
  <2>1. k = 0
    <3> SUFFICES ASSUME k # 0 PROVE FALSE
      OBVIOUS
    <3>1. k \in 1 .. Num(pl) /\ Begun(pl, k) < t
      BY <1>1
    <3>2. Begun(pl, 1) <= Begun(pl, k) /\ Begun(pl, 1) \in Nat /\ Begun(pl, k) \in Nat
      BY <3>1, Apart
    <3> QED BY <1>1, <1>2, <3>1, <3>2
  <2>2. Reached(pl, 0, t + 1)
    <3>1. 0 < Num(pl) => t + 1 <= Begun(pl, 0 + 1)
      BY <1>1, <1>2
    <3> QED BY <1>1, <3>1 DEF Reached
  <2> QED BY <1>2, <2>1, <2>2
<1>3. ASSUME NEW i \in 1 .. Num(pl), Begun(pl, i) <= t, t < End(pl, i)
      PROVE  \/ /\ k < Num(pl) /\ t = Begun(pl, k + 1) /\ (k = 0 \/ t = End(pl, k))
                /\ Reached(pl, k + 1, t + 1)
             \/ /\ k # 0 /\ Begun(pl, k) < t /\ t < End(pl, k) /\ Reached(pl, k, t + 1)
  <2>1. /\ Begun(pl, i) \in Nat /\ End(pl, i) \in Nat /\ Begun(pl, i) < End(pl, i)
    BY Apart
  <2>2. ~ (i < k)
    <3> SUFFICES ASSUME i < k PROVE FALSE
      OBVIOUS
    <3>1. k \in 1 .. Num(pl) /\ Begun(pl, k) < t
      BY <1>1
    <3>2. End(pl, i) <= Begun(pl, k) /\ Begun(pl, k) \in Nat
      BY <3>1, Apart
    <3> QED BY <1>1, <1>3, <2>1, <3>1, <3>2
  <2>3. i < Num(pl) => i + 1 \in 1 .. Num(pl) /\ Begun(pl, i + 1) = End(pl, i)
    <3> SUFFICES ASSUME i < Num(pl) PROVE i + 1 \in 1 .. Num(pl) /\ Begun(pl, i + 1) = End(pl, i)
      OBVIOUS
    <3>1. i + 1 \in 1 .. Num(pl) /\ i + 1 # 1 /\ (i + 1) - 1 = i
      BY <1>1
    <3> QED BY <3>1, Apart
  <2>4. Reached(pl, i, t + 1)
    <3>1. Begun(pl, i) < t + 1 /\ t + 1 <= End(pl, i)
      BY <1>1, <1>3, <2>1
    <3>2. i < Num(pl) => t + 1 <= Begun(pl, i + 1)
      BY <2>3, <3>1
    <3>3. i \in 0 .. Num(pl)
      BY <1>1
    <3> QED BY <1>1, <3>1, <3>2, <3>3 DEF Reached
  <2>5. CASE k = i
    <3>1. Begun(pl, k) < t /\ k # 0
      BY <1>1, <2>5
    <3> QED BY <1>3, <2>4, <2>5, <3>1
  <2>6. CASE k < i
    <3>1. k + 1 \in 1 .. Num(pl) /\ k < Num(pl) /\ t <= Begun(pl, k + 1)
      BY <1>1, <2>6
    <3>2. Begun(pl, k + 1) \in Nat /\ End(pl, k + 1) \in Nat /\ Begun(pl, k + 1) < End(pl, k + 1)
      BY <3>1, Apart
    <3>3. k + 1 = i
      <4> SUFFICES ASSUME k + 1 # i PROVE FALSE
        OBVIOUS
      <4>1. k + 1 < i
        BY <1>1, <2>6
      <4>2. End(pl, k + 1) <= Begun(pl, i)
        BY <3>1, <4>1, Apart
      <4> QED BY <1>1, <1>3, <2>1, <3>1, <3>2, <4>2
    <3>4. t = Begun(pl, k + 1)
      BY <1>1, <1>3, <2>1, <3>1, <3>3
    <3>5. k = 0 \/ t = End(pl, k)
      <4> SUFFICES ASSUME k # 0 PROVE t = End(pl, k)
        OBVIOUS
      <4>1. k + 1 # 1 /\ (k + 1) - 1 = k
        BY <1>1
      <4>2. Begun(pl, k + 1) = End(pl, (k + 1) - 1)
        BY <3>1, <4>1, Apart
      <4> QED BY <3>4, <4>1, <4>2
    <3> QED BY <2>4, <3>1, <3>3, <3>4, <3>5
  <2>7. k < i \/ k = i
    BY <1>1, <2>2
  <2> QED BY <2>5, <2>6, <2>7
<1>4. \/ Num(pl) = 0 \/ t + 1 <= Begun(pl, 1)
      \/ \E i \in 1 .. Num(pl) : Begun(pl, i) <= t /\ t < End(pl, i)
  BY WhereNext
<1> QED BY <1>2, <1>3, <1>4

(* The first byte of message i is its status, unless that of the message   *)
(* before it still runs.                                                   *)
LEMMA FirstByte ==
  ASSUME NEW pl, NEW n \in Nat, Timed(pl, n), \A i \in 1 .. Num(pl) : Plain(Msg(pl, i)),
         NEW k \in Nat, k + 1 \in 1 .. Num(pl), NEW t, t = Begun(pl, k + 1),
         NEW m, m = Msg(pl, k + 1), NEW x, x = ByteOf(pl, k + 1, t + 1)
  PROVE  \/ x = Lead(m) /\ Place(pl, k + 1, t + 1) = 1
         \/ /\ x \in 0 .. 127 /\ Place(pl, k + 1, t + 1) = 2 /\ Lead(m) < 240
            /\ k \in 1 .. Num(pl) /\ Lead(Msg(pl, k)) = Lead(m)
<1> PICK i : i = k + 1
  OBVIOUS
<1> PICK e : e = End(pl, i)
  OBVIOUS
<1>1. i \in 1 .. Num(pl) /\ Plain(m) /\ t = Begun(pl, i) /\ m = Msg(pl, i)
  OBVIOUS
<1>2. t \in Nat /\ e \in Nat /\ t < e
  BY <1>1, Apart
<1>3. Length(m) \in Nat \ {0, 1} /\ Lead(m) \in 128 .. 240 /\ m[1] = Lead(m)
      /\ \A j \in 2 .. Length(m) : m[j] \in 0 .. 127 \/ (Lead(m) = 240 /\ m[j] = 247 /\ j = Length(m))
  BY <1>1, PlainIs
<1>4. \/ e - t = Length(m)
      \/ e - t = Length(m) - 1 /\ Lead(m) < 240 /\ Runs(pl, i, Lead(m))
  BY <1>1 DEF Timed
<1>5. Place(pl, i, t + 1) = Length(m) - (e - (t + 1))
  BY DEF Place
<1>6. x = m[Place(pl, i, t + 1)]
  BY DEF ByteOf
<1>7. CASE e - t = Length(m)
  <2>1. Place(pl, i, t + 1) = 1
    BY <1>2, <1>3, <1>5, <1>7
  <2> QED BY <1>3, <1>6, <2>1
<1>8. CASE e - t = Length(m) - 1 /\ Lead(m) < 240 /\ Runs(pl, i, Lead(m))
  <2>1. Place(pl, i, t + 1) = 2
    BY <1>2, <1>3, <1>5, <1>8
  <2>2. x \in 0 .. 127
    <3>1. 2 \in 2 .. Length(m) /\ Lead(m) # 240
      BY <1>3, <1>8
    <3> QED BY <1>3, <1>6, <2>1, <3>1
  <2>3. PICK j \in 1 .. i - 1 : /\ Lead(Msg(pl, j)) = Lead(m)
                                /\ \A l \in j + 1 .. i - 1 : Lead(Msg(pl, l)) >= 248
    BY <1>8 DEF Runs
  <2>4. j = k
    <3> SUFFICES ASSUME j # k PROVE FALSE
      OBVIOUS
    <3>1. k \in j + 1 .. i - 1 /\ k \in 1 .. Num(pl)
      BY <1>1, <2>3 DEF Timed
    <3>2. Lead(Msg(pl, k)) >= 248
      BY <2>3, <3>1
    <3>3. Lead(Msg(pl, k)) \in 128 .. 240
      BY <3>1, PlainIs
    <3> QED BY <3>2, <3>3
  <2>5. k \in 1 .. Num(pl)
    BY <1>1, <2>3, <2>4 DEF Timed
  <2> QED BY <1>8, <2>1, <2>2, <2>3, <2>4, <2>5
<1> QED BY <1>4, <1>7, <1>8

(* Another one is data, or the end of an exclusive message.                *)
LEMMA FurtherByte ==
  ASSUME NEW pl, NEW n \in Nat, Timed(pl, n), NEW k \in 1 .. Num(pl), Plain(Msg(pl, k)),
         NEW t \in Nat, Begun(pl, k) < t, t < End(pl, k), NEW m, m = Msg(pl, k),
         NEW x, x = ByteOf(pl, k, t + 1), NEW q, q = Place(pl, k, t)
  PROVE  /\ q \in Nat \ {0} /\ q < Length(m) /\ Place(pl, k, t + 1) = q + 1 /\ x = m[q + 1]
         /\ q + 1 = Length(m) <=> t + 1 = End(pl, k)
         /\ \/ x \in 0 .. 127 /\ (Lead(m) = 240 => q + 1 # Length(m))
            \/ x = 247 /\ Lead(m) = 240 /\ q + 1 = Length(m)
<1> PICK s : s = Begun(pl, k)
  OBVIOUS
<1> PICK e : e = End(pl, k)
  OBVIOUS
<1>2. s \in Nat /\ e \in Nat /\ s < t /\ t < e
  BY Apart
<1>3. Length(m) \in Nat \ {0, 1} /\ Lead(m) \in 128 .. 240
      /\ (Lead(m) = 240 => m[Length(m)] = 247)
      /\ \A j \in 2 .. Length(m) : m[j] \in 0 .. 127 \/ (Lead(m) = 240 /\ m[j] = 247 /\ j = Length(m))
  BY PlainIs
<1>4. e - s = Length(m) \/ e - s = Length(m) - 1
  BY DEF Timed
<1>5. q = Length(m) - (e - t) /\ Place(pl, k, t + 1) = Length(m) - (e - (t + 1))
  BY DEF Place
<1>6. q \in Nat \ {0} /\ q < Length(m) /\ Place(pl, k, t + 1) = q + 1
      /\ (q + 1 = Length(m) <=> t + 1 = e)
  BY <1>2, <1>3, <1>4, <1>5
<1>7. x = m[q + 1]
  BY <1>6 DEF ByteOf
<1>8. q + 1 \in 2 .. Length(m)
  BY <1>3, <1>6
<1>9. \/ x \in 0 .. 127 /\ (Lead(m) = 240 => q + 1 # Length(m))
      \/ x = 247 /\ Lead(m) = 240 /\ q + 1 = Length(m)
  <2>1. m[q + 1] \in 0 .. 127 \/ (Lead(m) = 240 /\ m[q + 1] = 247 /\ q + 1 = Length(m))
    BY <1>3, <1>8
  <2>2. 247 \notin 0 .. 127
    OBVIOUS
  <2> QED BY <1>3, <1>7, <2>1, <2>2
<1> QED BY <1>6, <1>7, <1>9

----------------------------------------------------------------------------
(* MIDIREC: the time.  T has the time at which each byte arrived.          *)

(* When the last message began. *)
Since(pl, k) == IF k = 0 THEN 0 ELSE When(pl, k)

Sched(pl, T, n) ==
  /\ T[0] = 0 /\ T[n] \in Nat
  /\ \A j \in 1 .. n : T[j] \in Nat /\ T[j - 1] \in Nat /\ T[j - 1] <= T[j]
  /\ \A i \in 1 .. Num(pl) :
       Begun(pl, i) < n /\ When(pl, i) \in Nat /\ When(pl, i) <= T[n]
         /\ When(pl, i) = T[Begun(pl, i) + 1]

LEMMA CutsAdd ==
  ASSUME NEW a \in Nat, NEW b \in Nat
  PROVE  CutOff(CutOff(a) + CutOff(b)) = CutOff(a + b) /\ CutOff(a) \in Nat
<1>1. TopDelta \in Nat
  BY RecorderAssumption
<1> QED BY <1>1 DEF CutOff

(* The event of the next message has this delta. *)
LEMMA GapIs ==
  ASSUME NEW pl, NEW k \in Nat
  PROVE  Gap(pl, k + 1) = CutOff(When(pl, k + 1) - Since(pl, k))
<1>1. (k + 1) - 1 = k /\ (k + 1 = 1 <=> k = 0)
  OBVIOUS
<1> QED BY <1>1 DEF Gap, Since

LEMMA CutShort ==
  ASSUME NEW d \in Nat
  PROVE  Short(CutOff(d))
<1> PICK c : c = Radix * Radix * Radix
  OBVIOUS
<1>1. TopDelta \in Nat /\ TopDelta < c
  BY RecorderAssumption
<1>2. c \in Nat
  <2>1. Radix \in Nat
    BY MidiLogAssumption
  <2> QED BY <2>1
<1>3. CutOff(d) \in Nat /\ CutOff(d) < c
  BY <1>1, <1>2 DEF CutOff
<1> QED BY <1>3 DEF Short

----------------------------------------------------------------------------
(* MIDIREC: what the main loop keeps. *)

(* Of the message it is in: the status, the bytes it expects, and what it  *)
(* gathers of an exclusive one.                                            *)
Within240(m, q, ex, sa, sb) ==
  /\ ex = 0 /\ (sa <=> q # Length(m))
  /\ sa => Length(sb) = q - 1 /\ \A j \in 1 .. q - 1 : sb[j] = m[j + 1]
Keeps(m, q, st, ex, sa, sb) ==
  IF Lead(m) = 240 THEN Within240(m, q, ex, sa, sb)
  ELSE st = Lead(m) /\ ex = Length(m) - q /\ ~ sa
Standing(pl, k, t, st, ex, sa, sb) ==
  IF k = 0 THEN ex = 0 /\ ~ sa
  ELSE Keeps(Msg(pl, k), Place(pl, k, t), st, ex, sa, sb)

Counting(pl, T, k, t, ac) ==
  Since(pl, k) \in Nat /\ Since(pl, k) <= T[t] /\ ac = CutOff(T[t] - Since(pl, k))

(* The time up to the next byte. *)
LEMMA TotalIs ==
  ASSUME NEW pl, NEW n \in Nat, NEW T, Sched(pl, T, n), NEW t \in 0 .. n - 1, NEW k, NEW ac,
         Counting(pl, T, k, t, ac), NEW d, d = CutOff(T[t + 1] - T[t]),
         NEW total, total = CutOff(ac + d)
  PROVE  Counting(pl, T, k, t + 1, total)
<1> PICK s : s = Since(pl, k)
  OBVIOUS
<1>1. t + 1 \in 1 .. n /\ (t + 1) - 1 = t
  OBVIOUS
<1>2. T[t] \in Nat /\ T[t + 1] \in Nat /\ T[t] <= T[t + 1]
  BY <1>1 DEF Sched
<1>3. s \in Nat /\ s <= T[t] /\ ac = CutOff(T[t] - s)
  BY DEF Counting
<1>4. T[t] - s \in Nat /\ T[t + 1] - T[t] \in Nat
      /\ (T[t] - s) + (T[t + 1] - T[t]) = T[t + 1] - s /\ s <= T[t + 1]
  BY <1>2, <1>3
<1>5. CutOff(CutOff(T[t] - s) + CutOff(T[t + 1] - T[t]))
      = CutOff((T[t] - s) + (T[t + 1] - T[t]))
  BY <1>4, CutsAdd
<1>6. total = CutOff(T[t + 1] - s)
  BY <1>3, <1>4, <1>5
<1> QED BY <1>3, <1>4, <1>6 DEF Counting

(* A message begins with byte t + 1. *)
LEMMA TotalBegins ==
  ASSUME NEW pl, NEW n \in Nat, NEW T, Sched(pl, T, n), NEW k \in Nat, k + 1 \in 1 .. Num(pl),
         NEW t \in Nat, t = Begun(pl, k + 1), NEW total, Counting(pl, T, k, t + 1, total)
  PROVE  total = Gap(pl, k + 1) /\ Counting(pl, T, k + 1, t + 1, 0)
<1>1. When(pl, k + 1) = T[t + 1] /\ When(pl, k + 1) \in Nat
  BY DEF Sched
<1>2. total = Gap(pl, k + 1)
  BY <1>1, GapIs DEF Counting
<1>3. Since(pl, k + 1) = T[t + 1]
  <2>1. k + 1 # 0
    OBVIOUS
  <2> QED BY <1>1, <2>1 DEF Since
<1>4. CutOff(T[t + 1] - T[t + 1]) = 0
  <2>1. T[t + 1] - T[t + 1] = 0
    BY <1>1
  <2>2. TopDelta \in Nat
    BY RecorderAssumption
  <2>3. CutOff(0) = 0
    BY <2>2 DEF CutOff
  <2> QED BY <2>1, <2>3
<1>5. T[t + 1] \in Nat /\ T[t + 1] <= T[t + 1]
  BY <1>1
<1> QED BY <1>2, <1>3, <1>4, <1>5 DEF Counting

----------------------------------------------------------------------------
(* MIDIREC: one byte of the ring.                                          *)

(* After t bytes of the wire the file is text and this is kept.            *)
Noted(pl, T, t, k, text, P, st, ex, ac, sa, sb) ==
  /\ Reached(pl, k, t) /\ Counting(pl, T, k, t, ac) /\ Recorded(text, pl, k, t, P)
  /\ Standing(pl, k, t, st, ex, sa, sb) /\ Buffer(sb)
NotedAt(T, t, k, text, P) ==
  Noted(played, T, t, k, text, P, status, expect_bytes, accum_delta, sysex_active, sysex_buff)

(* The turn of the main loop for byte b. *)
Handling(b, total) ==
  \/ event_type(b) = 0 /\ data_byte_rec(b, total)
  \/ ChannelMessage(b, total)
  \/ ExclusiveBegin(b, total)
  \/ ExclusiveEnd(b, total)

LEMMA TypeOf ==
  ASSUME NEW b
  PROVE  /\ b \in 0 .. 127 => event_type(b) = 0
         /\ b \in 128 .. 239 => event_type(b) = 1
         /\ b = 240 => event_type(b) = 2
         /\ b = 247 => event_type(b) = 3
  BY DEF event_type

(* The end of a message that was cut. *)
LEMMA TurnOver ==
  ASSUME NEW T, NEW t \in Nat, NEW text, NEW P, NotedAt(T, t, 0, out, P),
         NEW total, Handling(247, total), UNCHANGED played,
         Reached(played, 0, t + 1), Counting(played, T, 0, t + 1, total)
  PROVE  NotedAt(T, t + 1, 0, out, P)'
<1>1. expect_bytes = 0 /\ ~ sysex_active /\ Recorded(out, played, 0, t, P) /\ Buffer(sysex_buff)
  BY DEF NotedAt, Noted, Standing
<1>2. ExclusiveEnd(247, total)
  <2>1. event_type(247) = 3
    BY TypeOf
  <2> QED BY <2>1 DEF Handling, ChannelMessage, ExclusiveBegin
<1>3. /\ out' = out /\ accum_delta' = total /\ expect_bytes' = 0 /\ ~ sysex_active'
      /\ sysex_buff' = sysex_buff
  BY <1>1, <1>2 DEF ExclusiveEnd
<1>4. Recorded(out, played, 0, t + 1, P)
  BY <1>1 DEF Recorded
<1>5. Standing(played, 0, t + 1, status', expect_bytes', sysex_active', sysex_buff')
  BY <1>3 DEF Standing
<1>6. Noted(played, T, t + 1, 0, out', P, status', expect_bytes', total, sysex_active', sysex_buff')
  BY <1>1, <1>3, <1>4, <1>5 DEF Noted
<1> QED BY <1>3, <1>6 DEF NotedAt

(* Behind a message, or before the first, the main loop expects nothing.   *)
LEMMA Idle ==
  ASSUME NEW pl, NEW k, k # 0 => Plain(Msg(pl, k)) /\ End(pl, k) \in Nat, NEW t,
         k = 0 \/ t = End(pl, k), NEW st, NEW ex, NEW sa, NEW sb,
         Standing(pl, k, t, st, ex, sa, sb)
  PROVE  ex = 0 /\ ~ sa /\ (k # 0 /\ Lead(Msg(pl, k)) < 240 => st = Lead(Msg(pl, k)))
<1>1. CASE k = 0
  BY <1>1 DEF Standing
<1>2. CASE k # 0
  <2> PICK m : m = Msg(pl, k)
    OBVIOUS
  <2>1. Length(m) \in Nat
    BY <1>2, PlainIs
  <2>2. Place(pl, k, t) = Length(m)
    BY <1>2, <2>1 DEF Place
  <2>3. Keeps(m, Length(m), st, ex, sa, sb)
    BY <1>2, <2>2 DEF Standing
  <2>4. CASE Lead(m) = 240
    BY <2>3, <2>4 DEF Keeps, Within240
  <2>5. CASE Lead(m) # 240
    BY <2>1, <2>3, <2>5 DEF Keeps
  <2> QED BY <2>4, <2>5
<1> QED BY <1>1, <1>2

(* What the byte that begins an event does.                                *)
LEMMA BeginsBy ==
  ASSUME NEW m, Plain(m), NEW b, NEW total, Handling(b, total), expect_bytes = 0, ~ sysex_active,
         NEW q, \/ b = Lead(m) /\ q = 1
                \/ b \in 0 .. 127 /\ q = 2 /\ Lead(m) < 240 /\ status = Lead(m),
         Buffer(sysex_buff)
  PROVE  /\ out' = out \o write_VLN(total) \o <<b>> /\ accum_delta' = 0
         /\ Keeps(m, q, status', expect_bytes', sysex_active', sysex_buff')
         /\ Buffer(sysex_buff')
<1> PICK n : n = Length(m)
  OBVIOUS
<1>1. /\ n \in Nat \ {0, 1} /\ Lead(m) \in 128 .. 240
      /\ Lead(m) < 240 => n = IF Lead(m) \in 192 .. 223 THEN 2 ELSE 3
  BY PlainIs
<1>2. Lead(m) \in 128 .. 239 => data_bytes(Lead(m)) = n - 1
  BY <1>1 DEF data_bytes
<1>3. CASE Lead(m) = 240
  <2>1. b = 240 /\ q = 1
    BY <1>3
  <2>2. ExclusiveBegin(240, total)
    BY <2>1, TypeOf DEF Handling, ChannelMessage, ExclusiveEnd
  <2>3. /\ out' = out \o write_VLN(total) \o <<b>> /\ accum_delta' = 0
        /\ sysex_buff' = <<>> /\ sysex_active' = TRUE /\ expect_bytes' = 0
    BY <2>1, <2>2 DEF ExclusiveBegin, EventBegins
  <2>4. Length(<<>>) = 0 /\ Buffer(<<>>)
    BY DEF Length, Buffer
  <2>5. Within240(m, 1, expect_bytes', sysex_active', sysex_buff')
    <3>1. 1 # n
      BY <1>1
    <3>2. sysex_active' <=> 1 # Length(m)
      BY <2>3, <3>1
    <3>3. Length(sysex_buff') = 1 - 1
      BY <2>3, <2>4
    <3>4. \A j \in 1 .. 1 - 1 : sysex_buff'[j] = m[j + 1]
      OBVIOUS
    <3> QED BY <2>3, <3>2, <3>3, <3>4 DEF Within240
  <2> QED BY <1>3, <2>1, <2>3, <2>4, <2>5 DEF Keeps
<1>4. CASE Lead(m) \in 128 .. 239 /\ b = Lead(m) /\ q = 1
  <2>1. event_type(b) = 1 /\ b >= 128 /\ ~ (b < 128)
    BY <1>4, TypeOf
  <2>2. ChannelMessage(b, total)
    BY <2>1 DEF Handling, ExclusiveBegin, ExclusiveEnd
  <2>3. /\ out' = out \o write_VLN(total) \o <<b>> /\ accum_delta' = 0
        /\ sysex_buff' = sysex_buff /\ sysex_active' = FALSE /\ status' = b
        /\ expect_bytes' = data_bytes(b) - 0
    BY <2>1, <2>2 DEF ChannelMessage, EventBegins
  <2>4. expect_bytes' = n - 1
    BY <1>1, <1>2, <1>4, <2>3
  <2>5. Lead(m) # 240
    BY <1>4
  <2> QED BY <1>4, <2>3, <2>4, <2>5 DEF Keeps
<1>5. CASE b \in 0 .. 127 /\ q = 2 /\ Lead(m) \in 128 .. 239 /\ status = Lead(m)
  <2>1. event_type(b) = 0 /\ ~ (b >= 128) /\ b < 128
    BY <1>5, TypeOf
  <2>2. ~ data_byte_rec(b, total)
    BY DEF data_byte_rec
  <2>3. ChannelMessage(b, total)
    BY <2>1, <2>2 DEF Handling, ExclusiveBegin, ExclusiveEnd
  <2>4. status >= 128 /\ ~ (status < 128)
    BY <1>5
  <2>5. /\ out' = out \o write_VLN(total) \o <<b>> /\ accum_delta' = 0
        /\ sysex_buff' = sysex_buff /\ sysex_active' = FALSE /\ status' = status
        /\ expect_bytes' = data_bytes(status) - 1
    BY <2>1, <2>3, <2>4 DEF ChannelMessage, EventBegins
  <2>6. expect_bytes' = n - 2
    BY <1>1, <1>2, <1>5, <2>5
  <2>7. Lead(m) # 240
    BY <1>5
  <2> QED BY <1>5, <2>5, <2>6, <2>7 DEF Keeps
<1>6. Lead(m) = 240 \/ Lead(m) \in 128 .. 239
  BY <1>1
<1> QED BY <1>3, <1>4, <1>5, <1>6

(* A message begins. *)
LEMMA HandledBegins ==
  ASSUME NEW n \in Nat, Timed(played, n), Fairly(played), Heeds(played, Num(played)),
         NEW T, Sched(played, T, n), NEW t \in Nat, NEW k \in Nat, k < Num(played),
         t = Begun(played, k + 1), k = 0 \/ t = End(played, k), Reached(played, k + 1, t + 1),
         NEW P, NotedAt(T, t, k, out, P), NEW total, Counting(played, T, k, t + 1, total),
         NEW b, Handling(b, total), b = ByteOf(played, k + 1, t + 1), b \in Byte,
         UNCHANGED played
  PROVE  \E Q : NotedAt(T, t + 1, k + 1, out, Q)'
<1> PICK i : i = k + 1
  OBVIOUS
<1> PICK m : m = Msg(played, i)
  OBVIOUS
<1> PICK q : q = Place(played, i, t + 1)
  OBVIOUS
<1>1. Num(played) \in Nat /\ i \in 1 .. Num(played) /\ i \in Nat /\ i # 0
      /\ (k # 0 => k \in 1 .. Num(played))
  BY DEF Timed
<1>2. /\ Plain(m) /\ Short(Gap(played, i)) /\ End(played, i) \in Nat
      /\ (k # 0 => Plain(Msg(played, k)) /\ End(played, k) \in Nat)
      /\ \A j \in 1 .. Num(played) : Plain(Msg(played, j))
  BY <1>1 DEF Fairly, Fair, Heeds
<1>3. Heeds(played, k + 1)
  <2>1. \A j \in 1 .. i : j \in 1 .. Num(played)
    BY <1>1
  <2> QED BY <1>1, <2>1 DEF Heeds
<1>4. /\ Recorded(out, played, k, t, P) /\ Buffer(sysex_buff)
      /\ Standing(played, k, t, status, expect_bytes, sysex_active, sysex_buff)
  BY DEF NotedAt, Noted
<1>5. /\ expect_bytes = 0 /\ ~ sysex_active
      /\ (k # 0 /\ Lead(Msg(played, k)) < 240 => status = Lead(Msg(played, k)))
  BY <1>2, <1>4, Idle
<1>6. \/ b = Lead(m) /\ q = 1
      \/ b \in 0 .. 127 /\ q = 2 /\ Lead(m) < 240
           /\ k \in 1 .. Num(played) /\ Lead(Msg(played, k)) = Lead(m)
  BY <1>1, <1>2, FirstByte
<1>7. \/ b = Lead(m) /\ q = 1
      \/ b \in 0 .. 127 /\ q = 2 /\ Lead(m) < 240 /\ status = Lead(m)
  <2>1. k \in 1 .. Num(played) => k # 0
    BY <1>1
  <2> QED BY <1>5, <1>6, <2>1
<1>8. /\ out' = out \o write_VLN(total) \o <<b>> /\ accum_delta' = 0
      /\ Keeps(m, q, status', expect_bytes', sysex_active', sysex_buff')
      /\ Buffer(sysex_buff')
  BY <1>2, <1>4, <1>5, <1>7, BeginsBy, ZenonT(60)
<1>9. total = Gap(played, k + 1) /\ Counting(played, T, k + 1, t + 1, 0)
  BY <1>1, TotalBegins
<1>10. PICK V : V = write_VLN(total)
  OBVIOUS
<1>11. PICK r : r = <<b>>
  OBVIOUS
<1>12. Length(r) = 1 /\ r[1] = b /\ Buffer(r)
  BY <1>11 DEF Length, Buffer
<1>13. Buffer(V)
  <2>1. Short(total)
    BY <1>2, <1>9
  <2> QED BY <1>10, <2>1, VlnForm DEF Buffer
<1>14. Spread(out, V, r, out')
  <2>1. out' = out \o V \o r
    BY <1>8, <1>10, <1>11
  <2>2. Buffer(out)
    BY <1>4 DEF Recorded
  <2> QED BY <1>12, <1>13, <2>1, <2>2, SpreadOut
<1>15. Lead(m) = 240 => b = 240 /\ t + 1 # End(played, i)
  <2> SUFFICES ASSUME Lead(m) = 240 PROVE b = 240 /\ t + 1 # End(played, i)
    OBVIOUS
  <2>1. b = 240 /\ q = 1
    BY <1>7
  <2>2. q = Length(m) - (End(played, i) - (t + 1))
    BY DEF Place
  <2>3. Length(m) \in Nat \ {0, 1}
    BY <1>2, PlainIs
  <2> QED BY <1>2, <2>1, <2>2, <2>3
<1>16. PICK Q : Recorded(out', played, k + 1, t + 1, Q)
  <2>1. V = write_VLN(Gap(played, k + 1))
    BY <1>9, <1>10
  <2>2. Lead(Msg(played, k + 1)) = 240 => b = 240 /\ t + 1 # End(played, k + 1)
    BY <1>15
  <2> QED BY <1>3, <1>4, <1>12, <1>14, <2>1, <2>2, WriteBegins
<1>17. Standing(played, k + 1, t + 1, status', expect_bytes', sysex_active', sysex_buff')
  <2>1. k + 1 # 0
    OBVIOUS
  <2> QED BY <1>8, <2>1 DEF Standing
<1>18. Noted(played, T, t + 1, k + 1, out', Q, status', expect_bytes', accum_delta',
             sysex_active', sysex_buff')
  BY <1>8, <1>9, <1>16, <1>17 DEF Noted
<1>19. NotedAt(T, t + 1, k + 1, out, Q)'
  BY <1>18 DEF NotedAt
<1> QED BY <1>19

(* One byte more. *)
OneMore(s, b, c) ==
  /\ Buffer(c) /\ Length(s) \in Nat /\ Length(c) = Length(s) + 1
  /\ \A j \in 1 .. Length(s) : c[j] = s[j]
  /\ c[Length(s) + 1] = b

LEMMA AppendsOne ==
  ASSUME NEW s, Buffer(s), NEW b, b \in Byte
  PROVE  OneMore(s, b, Append(s, b))
<1> DEFINE B == Byte
<1>1. s \in Seq(B) /\ b \in B
  BY DEF Buffer
<1> HIDE DEF B
<1>2. /\ Append(s, b) \in Seq(B) /\ Len(Append(s, b)) = Len(s) + 1 /\ Len(s) \in Nat
      /\ \A j \in 1 .. Len(s) : Append(s, b)[j] = s[j]
      /\ Append(s, b)[Len(s) + 1] = b
  BY <1>1
<1>3. Append(s, b)[Length(s) + 1] = b
  BY <1>2 DEF Length
<1> QED BY <1>2, <1>3 DEF OneMore, Buffer, B, Length

LEMMA AppendsJoin ==
  ASSUME NEW s, Buffer(s), NEW b \in Byte, NEW c, c = Append(s, b)
  PROVE  Joins(s, <<b>>, c) /\ Length(<<b>>) = 1 /\ <<b>>[1] = b
<1>1. <<b>> \in Seq(Byte) /\ s \in Seq(Byte)
  BY DEF Buffer
<1>2. c = s \o <<b>>
  BY <1>1
<1>3. Length(<<b>>) = 1 /\ <<b>>[1] = b
  BY DEF Length
<1> QED BY <1>1, <1>2, <1>3, TwoParts

(* What is expected of message m, of which q bytes were read.              *)
LEMMA GoesBy ==
  ASSUME NEW m, Plain(m), Lead(m) # 240, NEW q \in Nat \ {0}, q < Length(m),
         NEW b \in 0 .. 127, NEW total, Handling(b, total),
         Keeps(m, q, status, expect_bytes, sysex_active, sysex_buff)
  PROVE  /\ out' = Append(out, b) /\ accum_delta' = total /\ sysex_buff' = sysex_buff
         /\ Keeps(m, q + 1, status', expect_bytes', sysex_active', sysex_buff')
<1>1. Length(m) \in Nat
  BY PlainIs
<1>2. status = Lead(m) /\ expect_bytes = Length(m) - q /\ ~ sysex_active
  BY DEF Keeps
<1>3. expect_bytes # 0
  BY <1>1, <1>2
<1>4. event_type(b) = 0
  BY TypeOf
<1>5. data_byte_rec(b, total)
  BY <1>3, <1>4 DEF Handling, ChannelMessage, ExclusiveBegin, ExclusiveEnd
<1>6. /\ expect_bytes' = expect_bytes - 1 /\ out' = Append(out, b) /\ accum_delta' = total
      /\ status' = status /\ sysex_active' = sysex_active /\ sysex_buff' = sysex_buff
  BY <1>2, <1>5 DEF data_byte_rec
<1>7. expect_bytes' = Length(m) - (q + 1)
  BY <1>1, <1>2, <1>6
<1> QED BY <1>2, <1>6, <1>7 DEF Keeps

LEMMA HoldsBy ==
  ASSUME NEW m, Plain(m), Lead(m) = 240, NEW q \in Nat \ {0}, q + 1 < Length(m),
         NEW b, b \in 0 .. 127, b = m[q + 1], NEW total, Handling(b, total), Buffer(sysex_buff),
         Keeps(m, q, status, expect_bytes, sysex_active, sysex_buff)
  PROVE  /\ out' = out /\ accum_delta' = total /\ Buffer(sysex_buff')
         /\ Keeps(m, q + 1, status', expect_bytes', sysex_active', sysex_buff')
<1>1. Length(m) \in Nat /\ Length(m) <= SBUF + 2 /\ SBUF \in Nat
  BY PlainIs, RecorderAssumption DEF Plain
<1>2. Within240(m, q, expect_bytes, sysex_active, sysex_buff)
  BY DEF Keeps
<1>3. q # Length(m) /\ q + 1 # Length(m)
  BY <1>1
<1>4. /\ expect_bytes = 0 /\ sysex_active
      /\ Length(sysex_buff) = q - 1 /\ \A j \in 1 .. q - 1 : sysex_buff[j] = m[j + 1]
  BY <1>2, <1>3 DEF Within240
<1>5. Len(sysex_buff) < SBUF
  <2>1. Len(sysex_buff) = q - 1
    BY <1>4 DEF Length
  <2> QED BY <1>1, <2>1
<1>6. event_type(b) = 0
  BY TypeOf
<1>7. data_byte_rec(b, total)
  BY <1>4, <1>5, <1>6 DEF Handling, ChannelMessage, ExclusiveBegin, ExclusiveEnd
<1>8. /\ expect_bytes' = expect_bytes /\ out' = out /\ accum_delta' = total
      /\ sysex_active' = sysex_active /\ sysex_buff' = Append(sysex_buff, b)
  BY <1>4, <1>5, <1>7 DEF data_byte_rec
<1>9. b \in Byte
  BY DEF Byte
<1> PICK c : c = sysex_buff'
  OBVIOUS
<1>10. /\ Buffer(c) /\ Length(c) = q
       /\ \A j \in 1 .. q - 1 : c[j] = sysex_buff[j]
       /\ c[q] = b
  <2>1. /\ Buffer(c) /\ Length(c) = Length(sysex_buff) + 1
        /\ \A j \in 1 .. Length(sysex_buff) : c[j] = sysex_buff[j]
        /\ c[Length(sysex_buff) + 1] = b
    <3>1. c = Append(sysex_buff, b)
      BY <1>8
    <3>2. OneMore(sysex_buff, b, Append(sysex_buff, b))
      BY <1>9, AppendsOne
    <3>3. OneMore(sysex_buff, b, c)
      BY <3>1, <3>2
    <3> QED BY <3>3 DEF OneMore
  <2>2. Length(sysex_buff) + 1 = q /\ 1 .. Length(sysex_buff) = 1 .. q - 1
    BY <1>4
  <2> QED BY <2>1, <2>2
<1>11. ASSUME NEW j \in 1 .. (q + 1) - 1 PROVE c[j] = m[j + 1]
  <2>1. CASE j = q
    BY <1>10, <2>1
  <2>2. CASE j # q
    <3>1. j \in 1 .. q - 1
      BY <2>2
    <3> QED BY <1>4, <1>10, <3>1
  <2> QED BY <2>1, <2>2
<1>12. Length(c) = (q + 1) - 1
  BY <1>10
<1>13. Within240(m, q + 1, expect_bytes', sysex_active', c)
  BY <1>3, <1>4, <1>8, <1>11, <1>12 DEF Within240
<1> QED BY <1>8, <1>10, <1>13 DEF Keeps

(* The last of q + 1 bytes of m writes it.                                 *)
EndWritten(m, q, total) ==
  /\ out' = out \o write_VLN(Length(m) - 1) \o sysex_buff \o <<247>>
  /\ Length(sysex_buff) = Length(m) - 2
  /\ \A j \in 1 .. Length(sysex_buff) : sysex_buff[j] = m[j + 1]
  /\ accum_delta' = total /\ sysex_buff' = sysex_buff
  /\ Keeps(m, q + 1, status', expect_bytes', sysex_active', sysex_buff')

LEMMA EndsBy ==
  ASSUME NEW m, Plain(m), Lead(m) = 240, NEW q \in Nat \ {0}, q + 1 = Length(m),
         NEW b, b = 247, NEW total, Handling(b, total), Buffer(sysex_buff),
         Keeps(m, q, status, expect_bytes, sysex_active, sysex_buff)
  PROVE  EndWritten(m, q, total)
<1>1. Length(m) \in Nat
  BY PlainIs
<1>2. Within240(m, q, expect_bytes, sysex_active, sysex_buff)
  BY DEF Keeps
<1>3. q # Length(m)
  BY <1>1
<1>4. /\ expect_bytes = 0 /\ sysex_active
      /\ Length(sysex_buff) = q - 1 /\ \A j \in 1 .. q - 1 : sysex_buff[j] = m[j + 1]
  BY <1>2, <1>3 DEF Within240
<1>5. ExclusiveEnd(247, total)
  <2>1. event_type(247) = 3
    BY TypeOf
  <2>2. Handling(247, total)
    OBVIOUS
  <2> QED BY <2>1, <2>2 DEF Handling, ChannelMessage, ExclusiveBegin
<1>6. /\ out' = out \o write_VLN(Len(sysex_buff) + 1) \o sysex_buff \o <<247>>
      /\ sysex_active' = FALSE /\ expect_bytes' = expect_bytes /\ sysex_buff' = sysex_buff
      /\ accum_delta' = total
  BY <1>4, <1>5 DEF ExclusiveEnd
<1>7. Len(sysex_buff) + 1 = Length(m) - 1 /\ Length(sysex_buff) = Length(m) - 2
      /\ 1 .. Length(sysex_buff) = 1 .. q - 1
  <2>1. Len(sysex_buff) = q - 1
    BY <1>4 DEF Length
  <2> QED BY <1>1, <1>4, <2>1
<1>8. out' = out \o write_VLN(Length(m) - 1) \o sysex_buff \o <<247>>
  BY <1>6, <1>7
<1>9. Within240(m, q + 1, expect_bytes', sysex_active', sysex_buff')
  <2>1. ~ sysex_active' /\ q + 1 = Length(m) /\ expect_bytes' = 0
    BY <1>4, <1>6
  <2> QED BY <2>1 DEF Within240
<1>10. \A j \in 1 .. Length(sysex_buff) : sysex_buff[j] = m[j + 1]
  BY <1>4, <1>7
<1> QED BY <1>6, <1>7, <1>8, <1>9, <1>10 DEF Keeps, EndWritten

(* A message goes on. *)
LEMMA HandledGoes ==
  ASSUME NEW n \in Nat, Timed(played, n), Fairly(played), Heeds(played, Num(played)),
         NEW T, NEW t \in Nat, NEW k \in Nat, k # 0, Reached(played, k, t + 1),
         Begun(played, k) < t, t < End(played, k),
         NEW P, NotedAt(T, t, k, out, P), NEW total, Counting(played, T, k, t + 1, total),
         NEW b, Handling(b, total), b = ByteOf(played, k, t + 1), UNCHANGED played
  PROVE  \E Q : NotedAt(T, t + 1, k, out, Q)'
<1> PICK m : m = Msg(played, k)
  OBVIOUS
<1> PICK q : q = Place(played, k, t)
  OBVIOUS
<1>1. Num(played) \in Nat /\ k \in 1 .. Num(played) /\ k \in Nat \ {0}
  BY DEF Timed, Reached
<1>2. Plain(m) /\ Heeds(played, k)
  <2>1. \A j \in 1 .. k : j \in 1 .. Num(played)
    BY <1>1
  <2> QED BY <1>1, <2>1 DEF Fairly, Fair, Heeds
<1>3. /\ Recorded(out, played, k, t, P) /\ Buffer(sysex_buff)
      /\ Standing(played, k, t, status, expect_bytes, sysex_active, sysex_buff)
  BY DEF NotedAt, Noted
<1>4. Keeps(m, q, status, expect_bytes, sysex_active, sysex_buff)
  BY <1>1, <1>3 DEF Standing
<1>5. /\ q \in Nat \ {0} /\ q < Length(m) /\ Place(played, k, t + 1) = q + 1 /\ b = m[q + 1]
      /\ q + 1 = Length(m) <=> t + 1 = End(played, k)
      /\ \/ b \in 0 .. 127 /\ (Lead(m) = 240 => q + 1 # Length(m))
         \/ b = 247 /\ Lead(m) = 240 /\ q + 1 = Length(m)
  BY <1>1, <1>2, FurtherByte
<1>6. Length(m) \in Nat /\ Short(Length(m) - 1)
  BY <1>2, PlainIs
<1>7. Buffer(out)
  BY <1>3 DEF Recorded
<1>8. SUFFICES /\ accum_delta' = total /\ Buffer(sysex_buff')
               /\ Keeps(m, q + 1, status', expect_bytes', sysex_active', sysex_buff')
               /\ \E Q : Recorded(out', played, k, t + 1, Q)
  <2>1. PICK Q : Recorded(out', played, k, t + 1, Q)
    BY <1>8
  <2>2. Standing(played, k, t + 1, status', expect_bytes', sysex_active', sysex_buff')
    BY <1>5, <1>8 DEF Standing
  <2>3. Noted(played, T, t + 1, k, out', Q, status', expect_bytes', accum_delta',
              sysex_active', sysex_buff')
    BY <1>8, <2>1, <2>2 DEF Noted
  <2>4. NotedAt(T, t + 1, k, out, Q)'
    BY <2>3 DEF NotedAt
  <2> QED BY <2>4
<1>9. CASE Lead(m) # 240
  <2>1. b \in 0 .. 127 /\ b \in Byte
    BY <1>5, <1>9, SMTT(30) DEF Byte
  <2>2. /\ out' = Append(out, b) /\ accum_delta' = total /\ sysex_buff' = sysex_buff
        /\ Keeps(m, q + 1, status', expect_bytes', sysex_active', sysex_buff')
    BY <1>2, <1>4, <1>5, <1>9, <2>1, GoesBy, ZenonT(60)
  <2>3. Joins(out, <<b>>, out') /\ Length(<<b>>) = 1 /\ <<b>>[1] = b
    BY <1>7, <2>1, <2>2, AppendsJoin
  <2>4. \E Q : Recorded(out', played, k, t + 1, Q)
    BY <1>1, <1>2, <1>3, <1>9, <2>3, WriteGoes
  <2> QED BY <1>3, <2>2, <2>4
<1>10. CASE Lead(m) = 240 /\ q + 1 # Length(m)
  <2>1. b \in 0 .. 127 /\ q + 1 < Length(m)
    BY <1>5, <1>6, <1>10
  <2>2. /\ out' = out /\ accum_delta' = total /\ Buffer(sysex_buff')
        /\ Keeps(m, q + 1, status', expect_bytes', sysex_active', sysex_buff')
    BY <1>2, <1>3, <1>4, <1>5, <1>10, <2>1, HoldsBy
  <2>3. t # End(played, k) /\ t + 1 # End(played, k)
    <3>1. End(played, k) \in Nat
      BY <1>1, <1>2 DEF Heeds
    <3> QED BY <1>5, <1>10, <3>1
  <2>4. Recorded(out, played, k, t + 1, P)
    BY <1>1, <1>3, <1>10, <2>3, WriteHolds
  <2> QED BY <2>2, <2>4
<1>11. CASE Lead(m) = 240 /\ q + 1 = Length(m)
  <2>1. b = 247
    BY <1>5, <1>11
  <2>2. /\ out' = out \o write_VLN(Length(m) - 1) \o sysex_buff \o <<247>>
        /\ Length(sysex_buff) = Length(m) - 2
        /\ \A j \in 1 .. Length(sysex_buff) : sysex_buff[j] = m[j + 1]
        /\ accum_delta' = total /\ sysex_buff' = sysex_buff
        /\ Keeps(m, q + 1, status', expect_bytes', sysex_active', sysex_buff')
    <3>1. q \in Nat \ {0} /\ q + 1 = Length(m) /\ Lead(m) = 240
      BY <1>5, <1>11
    <3>2. EndWritten(m, q, total)
      BY <1>2, <1>3, <1>4, <2>1, <3>1, EndsBy
    <3> QED BY <3>2 DEF EndWritten
  <2>3. t # End(played, k) /\ t + 1 = End(played, k)
    <3>1. End(played, k) \in Nat
      BY <1>1, <1>2 DEF Heeds
    <3> QED BY <1>5, <1>11, <3>1
  <2>4. PICK V : V = write_VLN(Length(m) - 1)
    OBVIOUS
  <2>5. Buffer(V)
    BY <1>6, <2>4, VlnForm DEF Buffer
  <2>6. PICK d : d = out \o V \o sysex_buff
    OBVIOUS
  <2>7. Spread(out, V, sysex_buff, d)
    BY <1>3, <1>7, <2>5, <2>6, SpreadOut
  <2>8. PICK r : r = <<247>>
    OBVIOUS
  <2>9. Length(r) = 1 /\ r[1] = 247 /\ Buffer(r)
    <3>1. 247 \in Byte
      BY DEF Byte
    <3> QED BY <2>8, <3>1 DEF Length, Buffer
  <2>10. Joins(d, r, out')
    <3>1. d \in Seq(Byte)
      BY <2>7 DEF Spread, Buffer
    <3>2. r \in Seq(Byte)
      BY <2>9 DEF Buffer
    <3>3. out' = d \o r
      BY <2>2, <2>4, <2>6, <2>8
    <3> QED BY <3>1, <3>2, <3>3, TwoParts
  <2>11. \E Q : Recorded(out', played, k, t + 1, Q)
    <3>1. \E Q : Recorded(out', played, k, End(played, k), Q)
      BY <1>1, <1>2, <1>3, <1>11, <2>2, <2>3, <2>4, <2>7, <2>9, <2>10, WriteEnds
    <3> QED BY <2>3, <3>1
  <2> QED BY <1>3, <2>2, <2>11
<1> QED BY <1>9, <1>10, <1>11

----------------------------------------------------------------------------
(* MIDIREC: the next byte on the wire.                                     *)

(* A message more, which began at time a.                                  *)
GrownAt(pl, np, m, e, a) ==
  /\ Grown(pl, np, m, e) /\ When(np, Num(np)) = a
  /\ \A i \in 1 .. Num(pl) : When(np, i) = When(pl, i)

(* The time of byte n + 1. *)
Ticked(T, n, a, V) == V[n + 1] = a /\ \A j \in 0 .. n : V[j] = T[j]

(* What was there of a message, and of its event.                          *)
Alike(pl, np, i) ==
  /\ Msg(np, i) = Msg(pl, i) /\ End(np, i) = End(pl, i) /\ Begun(np, i) = Begun(pl, i)
  /\ Gap(np, i) = Gap(pl, i) /\ When(np, i) = When(pl, i)

LEMMA GrownAlike ==
  ASSUME NEW pl, NEW np, NEW m, NEW e, NEW a, GrownAt(pl, np, m, e, a), NEW i \in 1 .. Num(pl)
  PROVE  Alike(pl, np, i)
<1>1. Grown(pl, np, m, e) /\ When(np, i) = When(pl, i) /\ Num(pl) \in Nat
  BY DEF GrownAt, Grown
<1>2. Msg(np, i) = Msg(pl, i) /\ End(np, i) = End(pl, i)
  BY <1>1 DEF Grown
<1>3. Begun(np, i) = Begun(pl, i)
  BY <1>1, GrownKeeps
<1>4. Gap(np, i) = Gap(pl, i)
  <2>1. CASE i = 1
    BY <1>1, <2>1 DEF Gap
  <2>2. CASE i # 1
    <3>1. i - 1 \in 1 .. Num(pl)
      BY <1>1, <2>2
    <3>2. When(np, i - 1) = When(pl, i - 1)
      BY <3>1 DEF GrownAt
    <3> QED BY <1>1, <2>2, <3>2 DEF Gap
  <2> QED BY <2>1, <2>2
<1> QED BY <1>1, <1>2, <1>3, <1>4 DEF Alike

LEMMA PieceAlike ==
  ASSUME NEW pl, NEW np, NEW i, Alike(pl, np, i), NEW b, NEW p, NEW t, NEW e, Piece(b, pl, i, p, t, e)
  PROVE  Piece(b, np, i, p, t, e)
<1>1. /\ Msg(np, i) = Msg(pl, i) /\ End(np, i) = End(pl, i) /\ Begun(np, i) = Begun(pl, i)
      /\ Gap(np, i) = Gap(pl, i)
  BY DEF Alike
<1>2. \A q : ByteOf(np, i, q) = ByteOf(pl, i, q)
  BY <1>1 DEF ByteOf, Place
<1>3. \A D : Given(b, pl, i, D, t) => Given(b, np, i, D, t)
  BY <1>1, <1>2 DEF Given
<1>4. \A D : Sounded(b, pl, i, D, t, e) => Sounded(b, np, i, D, t, e)
  BY <1>1, <1>3 DEF Sounded
<1>5. \A D : Gathered(b, pl, i, D, t, e) => Gathered(b, np, i, D, t, e)
  BY <1>1 DEF Gathered
<1> QED BY <1>1, <1>4, <1>5 DEF Piece

(* What was recorded is not changed by the message that begins.            *)
LEMMA NotedStays ==
  ASSUME NEW pl, NEW n \in Nat, Timed(pl, n), NEW np, NEW m, NEW e, NEW a, GrownAt(pl, np, m, e, a),
         Timed(np, n), Begun(np, Num(np)) = n, NEW t \in 0 .. n, NEW T,
         NEW k, NEW text, NEW P, NEW st, NEW ex, NEW ac, NEW sa, NEW sb,
         Noted(pl, T, t, k, text, P, st, ex, ac, sa, sb)
  PROVE  Noted(np, T, t, k, text, P, st, ex, ac, sa, sb)
<1>1. /\ Reached(pl, k, t) /\ Counting(pl, T, k, t, ac) /\ Recorded(text, pl, k, t, P)
      /\ Standing(pl, k, t, st, ex, sa, sb) /\ Buffer(sb)
  BY DEF Noted
<1>2. Num(pl) \in Nat /\ Num(np) = Num(pl) + 1 /\ k \in 0 .. Num(pl)
  BY <1>1 DEF GrownAt, Grown, Reached
<1>3. \A i \in 1 .. k : i \in 1 .. Num(pl) /\ Alike(pl, np, i)
  <2>1. \A i \in 1 .. k : i \in 1 .. Num(pl)
    BY <1>2
  <2> QED BY <2>1, GrownAlike
<1>4. Reached(np, k, t)
  <2>1. k \in 0 .. Num(np) /\ t \in Nat
    BY <1>2
  <2>2. k # 0 => Begun(np, k) < t /\ t <= End(np, k)
    <3> SUFFICES ASSUME k # 0 PROVE Begun(np, k) < t /\ t <= End(np, k)
      OBVIOUS
    <3>1. k \in 1 .. k
      BY <1>2
    <3> QED BY <1>1, <1>3, <3>1 DEF Reached, Alike
  <2>3. k < Num(np) => t <= Begun(np, k + 1)
    <3>1. CASE k = Num(pl)
      BY <1>2, <3>1
    <3>2. CASE k < Num(pl)
      <4>1. k + 1 \in 1 .. Num(pl)
        BY <1>2, <3>2
      <4>2. Begun(np, k + 1) = Begun(pl, k + 1)
        BY <4>1, GrownAlike DEF Alike
      <4> QED BY <1>1, <3>2, <4>2 DEF Reached
    <3> QED BY <1>2, <3>1, <3>2
  <2> QED BY <2>1, <2>2, <2>3 DEF Reached
<1>5. k # 0 => k \in 1 .. k
  BY <1>2
<1>6. Counting(np, T, k, t, ac)
  <2>1. Since(np, k) = Since(pl, k)
    BY <1>3, <1>5 DEF Since, Alike
  <2> QED BY <1>1, <2>1 DEF Counting
<1>7. Recorded(text, np, k, t, P)
  <2>1. ASSUME NEW i \in 1 .. k
        PROVE  Piece(text, np, i, P[i], IF i < k THEN End(np, i) ELSE t, P[i + 1])
    <3>1. Alike(pl, np, i) /\ End(np, i) = End(pl, i)
      BY <1>3 DEF Alike
    <3>2. Piece(text, pl, i, P[i], IF i < k THEN End(np, i) ELSE t, P[i + 1])
      BY <1>1, <3>1 DEF Recorded
    <3> QED BY <3>1, <3>2, PieceAlike
  <2> QED BY <1>1, <2>1 DEF Recorded
<1>8. Standing(np, k, t, st, ex, sa, sb)
  <2>1. k # 0 => Msg(np, k) = Msg(pl, k) /\ Place(np, k, t) = Place(pl, k, t)
    BY <1>3, <1>5 DEF Alike, Place
  <2> QED BY <1>1, <2>1 DEF Standing
<1> QED BY <1>1, <1>4, <1>6, <1>7, <1>8 DEF Noted

(* Only the times of the bytes that were read matter for it.               *)
LEMMA NotedTicked ==
  ASSUME NEW n \in Nat, NEW t \in 0 .. n, NEW T, NEW V, NEW a, Ticked(T, n, a, V),
         NEW pl, NEW k, NEW text, NEW P, NEW st, NEW ex, NEW ac, NEW sa, NEW sb,
         Noted(pl, T, t, k, text, P, st, ex, ac, sa, sb)
  PROVE  Noted(pl, V, t, k, text, P, st, ex, ac, sa, sb)
<1>1. V[t] = T[t]
  BY DEF Ticked
<1> QED BY <1>1 DEF Noted, Counting

(* The time goes on. *)
LEMMA SchedTicked ==
  ASSUME NEW pl, NEW n \in Nat, Timed(pl, n), NEW T, Sched(pl, T, n), NEW a \in Nat, T[n] <= a,
         NEW V, Ticked(T, n, a, V)
  PROVE  Sched(pl, V, n + 1)
<1>1. /\ T[0] = 0 /\ T[n] \in Nat
      /\ \A j \in 1 .. n : T[j] \in Nat /\ T[j - 1] \in Nat /\ T[j - 1] <= T[j]
  BY DEF Sched
<1>2. V[n + 1] = a /\ V[n] = T[n] /\ V[0] = 0
  BY <1>1 DEF Ticked
<1>3. ASSUME NEW j \in 1 .. n + 1
      PROVE  V[j] \in Nat /\ V[j - 1] \in Nat /\ V[j - 1] <= V[j]
  <2>1. CASE j = n + 1
    <3>1. j - 1 = n
      BY <2>1
    <3> QED BY <1>1, <1>2, <2>1, <3>1
  <2>2. CASE j # n + 1
    <3>1. j \in 1 .. n /\ j \in 0 .. n /\ j - 1 \in 0 .. n
      BY <2>2
    <3>2. V[j] = T[j] /\ V[j - 1] = T[j - 1]
      BY <3>1 DEF Ticked
    <3> QED BY <1>1, <3>1, <3>2
  <2> QED BY <2>1, <2>2
<1>4. ASSUME NEW i \in 1 .. Num(pl)
      PROVE  /\ Begun(pl, i) < n + 1 /\ When(pl, i) \in Nat /\ When(pl, i) <= a
             /\ When(pl, i) = V[Begun(pl, i) + 1]
  <2>1. /\ Begun(pl, i) < n /\ When(pl, i) \in Nat /\ When(pl, i) <= T[n]
        /\ When(pl, i) = T[Begun(pl, i) + 1]
    BY DEF Sched
  <2>2. Begun(pl, i) \in Nat
    BY Apart
  <2>3. Begun(pl, i) + 1 \in 0 .. n
    BY <2>1, <2>2
  <2>4. V[Begun(pl, i) + 1] = T[Begun(pl, i) + 1]
    BY <2>3 DEF Ticked
  <2>5. Begun(pl, i) < n + 1 /\ When(pl, i) <= a
    BY <1>1, <2>1, <2>2
  <2> QED BY <2>1, <2>4, <2>5
<1> QED BY <1>2, <1>3, <1>4 DEF Sched

(* A message begins with byte n + 1. *)
LEMMA SchedGrows ==
  ASSUME NEW pl, NEW n \in Nat, Timed(pl, n), NEW V, Sched(pl, V, n + 1),
         NEW np, NEW m, NEW e, GrownAt(pl, np, m, e, V[n + 1]), Begun(np, Num(np)) = n
  PROVE  Sched(np, V, n + 1)
<1>1. Num(pl) \in Nat /\ Num(np) = Num(pl) + 1 /\ When(np, Num(np)) = V[n + 1]
  BY DEF GrownAt, Grown
<1>2. V[n + 1] \in Nat
  BY DEF Sched
<1>3. ASSUME NEW i \in 1 .. Num(np)
      PROVE  /\ Begun(np, i) < n + 1 /\ When(np, i) \in Nat /\ When(np, i) <= V[n + 1]
             /\ When(np, i) = V[Begun(np, i) + 1]
  <2>1. CASE i = Num(np)
    <3>1. n < n + 1 /\ V[n + 1] <= V[n + 1]
      BY <1>2
    <3> QED BY <1>1, <1>2, <2>1, <3>1
  <2>2. CASE i # Num(np)
    <3>1. i \in 1 .. Num(pl)
      BY <1>1, <2>2
    <3>2. When(np, i) = When(pl, i) /\ Begun(np, i) = Begun(pl, i)
      BY <3>1, GrownAlike DEF Alike
    <3> QED BY <3>1, <3>2 DEF Sched
  <2> QED BY <2>1, <2>2
<1> QED BY <1>3 DEF Sched

(* Its event has room for its time. *)
LEMMA FairlyGrows ==
  ASSUME NEW pl, NEW n \in Nat, Timed(pl, n), Fairly(pl), NEW T, Sched(pl, T, n),
         NEW np, NEW m, NEW e, NEW a \in Nat, T[n] <= a, GrownAt(pl, np, m, e, a), Plain(m)
  PROVE  Fairly(np)
<1>1. /\ Num(pl) \in Nat /\ Num(np) = Num(pl) + 1 /\ Msg(np, Num(np)) = m
      /\ When(np, Num(pl) + 1) = a
  BY DEF GrownAt, Grown
<1>2. ASSUME NEW i \in 1 .. Num(np) PROVE Fair(np, i)
  <2>1. CASE i = Num(pl) + 1
    <3> PICK s : s = Since(np, Num(pl))
      OBVIOUS
    <3>1. s \in Nat /\ s <= a
      <4>1. CASE Num(pl) = 0
        BY <4>1 DEF Since
      <4>2. CASE Num(pl) # 0
        <5>1. Num(pl) \in 1 .. Num(pl)
          BY <1>1, <4>2
        <5>2. When(pl, Num(pl)) \in Nat /\ When(pl, Num(pl)) <= T[n] /\ T[n] \in Nat
          BY <5>1 DEF Sched
        <5>3. s = When(pl, Num(pl))
          BY <4>2, <5>1 DEF Since, GrownAt
        <5> QED BY <5>2, <5>3
      <4> QED BY <4>1, <4>2
    <3>2. Gap(np, Num(pl) + 1) = CutOff(a - s)
      BY <1>1, GapIs
    <3>3. a - s \in Nat
      BY <3>1
    <3>4. Short(Gap(np, i))
      BY <2>1, <3>2, <3>3, CutShort
    <3> QED BY <1>1, <2>1, <3>4 DEF Fair
  <2>2. CASE i # Num(pl) + 1
    <3>1. i \in 1 .. Num(pl)
      BY <1>1, <2>2
    <3>2. Msg(np, i) = Msg(pl, i) /\ Gap(np, i) = Gap(pl, i)
      BY <3>1, GrownAlike DEF Alike
    <3> QED BY <3>1, <3>2 DEF Fairly, Fair
  <2> QED BY <2>1, <2>2
<1> QED BY <1>2 DEF Fairly

LEMMA HeedsAll ==
  ASSUME NEW pl, NEW n \in Nat, Timed(pl, n), Fairly(pl)
  PROVE  Heeds(pl, Num(pl)) /\ \A i \in 1 .. Num(pl) : Plain(Msg(pl, i))
<1>1. ASSUME NEW i \in 1 .. Num(pl)
      PROVE  Fair(pl, i) /\ Begun(pl, i) \in Nat /\ End(pl, i) \in Nat
  BY Apart DEF Fairly
<1> QED BY <1>1 DEF Heeds, Fair, Timed

(* The handler keeps the bytes of messages. *)
LEMMA ByteSent ==
  ASSUME NEW pl, NEW n \in Nat, Timed(pl, n), Fairly(pl), Num(pl) # 0, NEW u, Coming(pl, u, n),
         Length(u) \in Nat \ {0}
  PROVE  u[1] \in 0 .. 240 \/ u[1] = 247
<1> PICK i : i = Num(pl)
  OBVIOUS
<1>1. i \in 1 .. Num(pl) /\ i \in Nat \ {0}
  BY DEF Timed
<1>2. Plain(Msg(pl, i)) /\ \A j \in 1 .. Num(pl) : Plain(Msg(pl, j))
  BY <1>1, HeedsAll
<1>3. Lead(Msg(pl, i)) \in 128 .. 240
  BY <1>2, PlainIs
<1>4. /\ Begun(pl, i) \in Nat /\ End(pl, i) \in Nat /\ Begun(pl, i) < End(pl, i)
      /\ Begun(pl, i) <= n
  BY <1>1, Apart DEF Timed
<1>5. n + Length(u) = End(pl, i) /\ u[1] = ByteOf(pl, i, n + 1)
  <2>1. 1 \in 1 .. Length(u) /\ Num(pl) > 0
    BY <1>1
  <2> QED BY <2>1 DEF Coming
<1>6. CASE Begun(pl, i) = n
  <2>1. PICK k \in Nat : i = k + 1
    <3>1. i - 1 \in Nat /\ i = (i - 1) + 1
      BY <1>1
    <3> QED BY <3>1
  <2>2. k + 1 \in 1 .. Num(pl) /\ n = Begun(pl, k + 1) /\ u[1] = ByteOf(pl, k + 1, n + 1)
    BY <1>1, <1>5, <1>6, <2>1
  <2>3. u[1] = Lead(Msg(pl, k + 1)) \/ u[1] \in 0 .. 127
    BY <1>2, <2>2, FirstByte
  <2>4. u[1] \in 128 .. 240 \/ u[1] \in 0 .. 127
    BY <1>3, <2>1, <2>3
  <2> QED BY <2>4
<1>7. CASE Begun(pl, i) # n
  <2>1. Begun(pl, i) < n /\ n < End(pl, i)
    BY <1>4, <1>5, <1>7
  <2>2. u[1] \in 0 .. 127 \/ u[1] = 247
    BY <1>1, <1>2, <1>5, <2>1, FurtherByte
  <2> QED BY <2>2
<1> QED BY <1>6, <1>7

(* What the handler put into the ring, with the time since the byte before.*)
OnRing(C, w, T, n) ==
  \A p \in 1 .. n : C[p].byte = w[p] /\ C[p].delta = CutOff(T[p] - T[p - 1])

(* The rest of a message that the cable was plugged in in is its end.      *)
Tailed(pl, w, n) == \A p \in 1 .. n : Num(pl) = 0 \/ p <= Begun(pl, 1) => w[p] = 247

Wired(C, w, T, pl, n) == OnRing(C, w, T, n) /\ OnWire(pl, w, n) /\ Tailed(pl, w, n)

(* A byte more. *)
Longer(w, n, b, v) == v = [i \in 1 .. n + 1 |-> IF i = n + 1 THEN b ELSE w[i]]

LEMMA LongerIs ==
  ASSUME NEW w, NEW n \in Nat, NEW b, NEW v, Longer(w, n, b, v)
  PROVE  v[n + 1] = b /\ \A p \in 1 .. n : v[p] = w[p]
<1>1. v = [i \in 1 .. n + 1 |-> IF i = n + 1 THEN b ELSE w[i]]
  BY DEF Longer
<1> QED BY <1>1

LEMMA SentOn ==
  ASSUME NEW pl, NEW n \in Nat, NEW w, NEW u, NEW x, NEW v,
         Timed(pl, n), OnWire(pl, w, n), Coming(pl, u, n), Length(u) \in Nat \ {0},
         Length(x) = Length(u) - 1, \A k \in 1 .. Length(x) : x[k] = u[k + 1],
         Longer(w, n, u[1], v)
  PROVE  Timed(pl, n + 1) /\ OnWire(pl, v, n + 1) /\ Coming(pl, x, n + 1)
<1>1. v = [i \in 1 .. n + 1 |-> IF i = n + 1 THEN u[1] ELSE w[i]]
  BY DEF Longer
<1> QED BY <1>1, OneSent

LEMMA OneWired ==
  ASSUME NEW pl, NEW n \in Nat, Timed(pl, n), NEW u, Coming(pl, u, n), Length(u) \in Nat \ {0},
         Num(pl) = 0 => u[1] = 247,
         NEW x, Length(x) = Length(u) - 1, \A k \in 1 .. Length(x) : x[k] = u[k + 1],
         NEW C, NEW w, NEW T, Wired(C, w, T, pl, n), NEW a, NEW V, Ticked(T, n, a, V),
         NEW r, r.byte = u[1], r.delta = CutOff(a - T[n]),
         NEW D, Longer(C, n, r, D), NEW v, Longer(w, n, u[1], v)
  PROVE  Timed(pl, n + 1) /\ Coming(pl, x, n + 1) /\ Wired(D, v, V, pl, n + 1)
<1>1. OnRing(C, w, T, n) /\ OnWire(pl, w, n) /\ Tailed(pl, w, n)
  BY DEF Wired
<1>2. Timed(pl, n + 1) /\ OnWire(pl, v, n + 1) /\ Coming(pl, x, n + 1)
  BY <1>1, SentOn
<1>3. /\ D[n + 1] = r /\ v[n + 1] = u[1] /\ V[n + 1] = a /\ V[n] = T[n]
      /\ \A p \in 1 .. n : D[p] = C[p] /\ v[p] = w[p]
  <2>1. V[n + 1] = a /\ V[n] = T[n]
    BY DEF Ticked
  <2> QED BY <2>1, LongerIs, SMTT(30)
<1>4. OnRing(D, v, V, n + 1)
  <2>1. ASSUME NEW p \in 1 .. n + 1
        PROVE  D[p].byte = v[p] /\ D[p].delta = CutOff(V[p] - V[p - 1])
    <3>1. CASE p = n + 1
      <4>1. p - 1 = n
        BY <3>1
      <4>2. D[p] = r /\ v[p] = u[1] /\ V[p] = a /\ V[p - 1] = T[n]
        BY <1>3, <3>1, <4>1
      <4> QED BY <4>2
    <3>2. CASE p # n + 1
      <4>1. p \in 1 .. n /\ p \in 0 .. n /\ p - 1 \in 0 .. n
        BY <3>2
      <4>2. V[p] = T[p] /\ V[p - 1] = T[p - 1] /\ D[p] = C[p] /\ v[p] = w[p]
        BY <1>3, <4>1 DEF Ticked
      <4> QED BY <1>1, <4>1, <4>2 DEF OnRing
    <3> QED BY <3>1, <3>2
  <2> QED BY <2>1 DEF OnRing
<1>5. Tailed(pl, v, n + 1)
  <2>1. ASSUME NEW p \in 1 .. n + 1, Num(pl) = 0 \/ p <= Begun(pl, 1) PROVE v[p] = 247
    <3>1. CASE p = n + 1
      <4>1. Num(pl) = 0
        <5> SUFFICES ASSUME Num(pl) # 0 PROVE FALSE
          OBVIOUS
        <5>1. 1 \in 1 .. Num(pl)
          BY DEF Timed
        <5>2. Begun(pl, 1) \in Nat /\ Begun(pl, 1) <= n
          BY <5>1 DEF Timed
        <5> QED BY <2>1, <3>1, <5>2
      <4> QED BY <1>3, <3>1, <4>1
    <3>2. CASE p # n + 1
      <4>1. p \in 1 .. n
        BY <3>2
      <4> QED BY <1>1, <1>3, <2>1, <4>1 DEF Tailed
    <3> QED BY <3>1, <3>2
  <2> QED BY <2>1 DEF Tailed
<1> QED BY <1>2, <1>4, <1>5 DEF Wired

(* The bytes that arrived stay when a message begins. *)
LEMMA BegunWired ==
  ASSUME NEW pl, NEW n \in Nat, Timed(pl, n), NEW C, NEW w, NEW T, Wired(C, w, T, pl, n),
         NEW np, NEW m, NEW e, Grown(pl, np, m, e), OnWire(np, w, n)
  PROVE  Wired(C, w, T, np, n)
<1>1. ASSUME NEW p \in 1 .. n, Num(np) = 0 \/ p <= Begun(np, 1) PROVE w[p] = 247
  <2>1. Num(pl) \in Nat /\ Num(np) # 0
    BY DEF Grown
  <2>2. Num(pl) = 0 \/ p <= Begun(pl, 1)
    <3> SUFFICES ASSUME Num(pl) # 0 PROVE p <= Begun(pl, 1)
      OBVIOUS
    <3>1. 1 \in 1 .. Num(pl)
      BY <2>1
    <3>2. Begun(np, 1) = Begun(pl, 1)
      BY <3>1, GrownKeeps
    <3> QED BY <1>1, <2>1, <3>2
  <2> QED BY <2>2 DEF Wired, Tailed
<1>2. Tailed(np, w, n)
  BY <1>1 DEF Tailed
<1> QED BY <1>2 DEF Wired

(* The messages of MIDIREC. *)
RecPlays == Seq([bytes : RecMessages, at : Nat, upto : Nat])

LEMMA RecAppended ==
  ASSUME NEW pl \in RecPlays, NEW m \in RecMessages, NEW a \in Nat, NEW e \in Nat
  PROVE  /\ Append(pl, [bytes |-> m, at |-> a, upto |-> e]) \in RecPlays
         /\ GrownAt(pl, Append(pl, [bytes |-> m, at |-> a, upto |-> e]), m, e, a)
<1> DEFINE R == [bytes : RecMessages, at : Nat, upto : Nat]
           r == [bytes |-> m, at |-> a, upto |-> e]
           np == Append(pl, r)
<1>1. r \in R /\ r.bytes = m /\ r.upto = e /\ r.at = a
  OBVIOUS
<1>2. pl \in Seq(R)
  BY DEF RecPlays
<1> HIDE DEF R, r
<1>3. /\ np \in Seq(R) /\ Len(pl) \in Nat /\ Len(np) = Len(pl) + 1
      /\ \A i \in 1 .. Len(pl) : np[i] = pl[i]
      /\ np[Len(pl) + 1] = r
  BY <1>1, <1>2
<1> HIDE DEF np
<1>4. Grown(pl, np, m, e)
  BY <1>1, <1>3 DEF Grown, Num, Msg, End
<1>5. When(np, Num(np)) = a /\ \A i \in 1 .. Num(pl) : When(np, i) = When(pl, i)
  BY <1>1, <1>3 DEF When, Num
<1>6. np \in RecPlays
  BY <1>3 DEF RecPlays, R
<1> QED BY <1>4, <1>5, <1>6 DEF np, r, GrownAt

(* The messages played, of which r runs on and y is still to be sent, and  *)
(* the times of the n bytes that arrived.                                  *)
Performed(pl, n, y, r, T) ==
  /\ Timed(pl, n) /\ Coming(pl, y, n) /\ RunningIs(pl, r) /\ Sched(pl, T, n) /\ Fairly(pl)

(* At time a the bytes u are next: what is still to be sent, or a message. *)
Continues(pl, y, r, u, m, np, q) ==
  m = <<>> /\ u = y /\ np = pl /\ q = r /\ (Num(pl) = 0 => u[1] = 247)
Commences(pl, n, y, r, u, m, a, np, q) ==
  /\ Plain(m) /\ Length(y) = 0 /\ (u = m \/ (u = Tail(m) /\ r # 0 /\ Lead(m) = r))
  /\ GrownAt(pl, np, m, n + Length(u), a) /\ q = IF Lead(m) < 240 THEN Lead(m) ELSE 0

(* It is not before the byte n. *)
InTime(T, n, a, V) == a \in Nat /\ T[n] <= a /\ Ticked(T, n, a, V)

(* The message itself, before its first byte arrives. *)
LEMMA CommencesOn ==
  ASSUME NEW pl, NEW n \in Nat, NEW y, NEW r, NEW T, Performed(pl, n, y, r, T),
         NEW C, NEW w, Wired(C, w, T, pl, n), NEW u, Length(u) \in Nat \ {0}, NEW m,
         NEW a, NEW np, NEW q, Commences(pl, n, y, r, u, m, a, np, q),
         NEW t \in 0 .. n, NEW k, NEW text, NEW P, NEW st, NEW ex, NEW ac, NEW sa, NEW sb,
         Noted(pl, T, t, k, text, P, st, ex, ac, sa, sb), NEW V, InTime(T, n, a, V)
  PROVE  /\ Timed(np, n) /\ Coming(np, u, n) /\ RunningIs(np, q) /\ Fairly(np) /\ Num(np) # 0
         /\ Sched(np, V, n + 1) /\ Wired(C, w, T, np, n)
         /\ Noted(np, T, t, k, text, P, st, ex, ac, sa, sb)
<1> PICK e : e = n + Length(u)
  OBVIOUS
<1>0. a \in Nat /\ T[n] <= a /\ Ticked(T, n, a, V)
  BY DEF InTime
<1>1. /\ Timed(pl, n) /\ Coming(pl, y, n) /\ RunningIs(pl, r) /\ Sched(pl, T, n) /\ Fairly(pl)
  BY DEF Performed
<1>2. /\ Plain(m) /\ Length(y) = 0 /\ (u = m \/ (u = Tail(m) /\ r # 0 /\ Lead(m) = r))
      /\ GrownAt(pl, np, m, e, a) /\ q = IF Lead(m) < 240 THEN Lead(m) ELSE 0
  BY DEF Commences
<1>3. Complete(m) /\ Grown(pl, np, m, e) /\ Num(np) # 0
  BY <1>2 DEF Plain, GrownAt, Grown
<1>4. Timed(np, n) /\ OnWire(np, w, n) /\ Coming(np, u, n) /\ Begun(np, Num(np)) = n
  <2>1. OnWire(pl, w, n) /\ Grown(pl, np, m, n + Length(u))
    BY <1>3 DEF Wired
  <2> QED BY <1>1, <1>2, <1>3, <2>1, WireBegun
<1>5. RunningIs(np, q)
  <2>1. q = IF Lead(m) < 240 THEN Lead(m) ELSE IF Lead(m) >= 248 THEN r ELSE 0
    <3>1. Lead(m) \in 128 .. 240
      BY <1>2, PlainIs
    <3>2. ~ (Lead(m) >= 248)
      BY <3>1
    <3> QED BY <1>2, <3>2
  <2> QED BY <1>1, <1>3, <2>1, RunsOn
<1>6. Fairly(np)
  BY <1>0, <1>1, <1>2, FairlyGrows
<1>7. Sched(np, V, n + 1)
  <2>1. Sched(pl, V, n + 1)
    BY <1>0, <1>1, SchedTicked
  <2>2. GrownAt(pl, np, m, e, V[n + 1])
    BY <1>0, <1>2 DEF Ticked
  <2> QED BY <1>1, <1>4, <2>1, <2>2, SchedGrows
<1>8. Wired(C, w, T, np, n)
  BY <1>1, <1>3, <1>4, BegunWired
<1>9. Noted(np, T, t, k, text, P, st, ex, ac, sa, sb)
  BY <1>1, <1>2, <1>4, NotedStays
<1> QED BY <1>3, <1>4, <1>5, <1>6, <1>7, <1>8, <1>9

Proceeds(pl, n, y, r, u, m, a, np, q) ==
  Continues(pl, y, r, u, m, np, q) \/ Commences(pl, n, y, r, u, m, a, np, q)

(* Byte b is the first of u, and x remains. *)
Remains(u, b, x) ==
  /\ b = u[1] /\ Length(u) \in Nat \ {0} /\ Length(x) = Length(u) - 1
  /\ \A j \in 1 .. Length(x) : x[j] = u[j + 1]

Lapse(T, n, a, d) == d = CutOff(a - T[n])

(* The bytes that were queued and byte b, queued with the delta d.         *)
Gains(C, w, n, b, d, D, v) ==
  \E g : g.byte = b /\ g.delta = d /\ Longer(C, n, g, D) /\ Longer(w, n, b, v)

(* The instrument, once the bytes u are to be sent, before the first is.   *)
Readied(pl, n, u, q, T, C, w, V) ==
  /\ Timed(pl, n) /\ Coming(pl, u, n) /\ RunningIs(pl, q) /\ Fairly(pl)
  /\ Sched(pl, V, n + 1) /\ Wired(C, w, T, pl, n)
  /\ (Num(pl) = 0 => u[1] = 247)

LEMMA ProceedsOn ==
  ASSUME NEW pl, NEW n \in Nat, NEW y, NEW r, NEW T, Performed(pl, n, y, r, T),
         NEW C, NEW w, Wired(C, w, T, pl, n), NEW u, Length(u) \in Nat \ {0}, NEW m,
         NEW a, NEW np, NEW q, Proceeds(pl, n, y, r, u, m, a, np, q),
         NEW t \in 0 .. n, NEW k, NEW text, NEW P, NEW st, NEW ex, NEW ac, NEW sa, NEW sb,
         Noted(pl, T, t, k, text, P, st, ex, ac, sa, sb), NEW V, InTime(T, n, a, V)
  PROVE  /\ Readied(np, n, u, q, T, C, w, V)
         /\ Noted(np, T, t, k, text, P, st, ex, ac, sa, sb)
<1>0. a \in Nat /\ T[n] <= a /\ Ticked(T, n, a, V)
  BY DEF InTime
<1>1. CASE Continues(pl, y, r, u, m, np, q)
  <2>1. u = y /\ np = pl /\ q = r /\ (Num(pl) = 0 => u[1] = 247)
    BY <1>1 DEF Continues
  <2>2. Timed(pl, n) /\ Coming(pl, y, n) /\ RunningIs(pl, r) /\ Sched(pl, T, n) /\ Fairly(pl)
    BY DEF Performed
  <2>3. Sched(pl, V, n + 1)
    BY <1>0, <2>2, SchedTicked
  <2> QED BY <2>1, <2>2, <2>3 DEF Readied
<1>2. CASE Commences(pl, n, y, r, u, m, a, np, q)
  BY <1>2, CommencesOn DEF Readied
<1> QED BY <1>1, <1>2 DEF Proceeds

LEMMA WiredOn ==
  ASSUME NEW pl, NEW n \in Nat, NEW u, NEW q, NEW T, NEW C, NEW w, NEW V,
         Readied(pl, n, u, q, T, C, w, V), NEW a, InTime(T, n, a, V),
         NEW b, NEW x, Remains(u, b, x),
         NEW d, Lapse(T, n, a, d), NEW D, NEW v, Gains(C, w, n, b, d, D, v)
  PROVE  /\ Wired(D, v, V, pl, n + 1) /\ Performed(pl, n + 1, x, q, V)
<1>0. a \in Nat /\ T[n] <= a /\ Ticked(T, n, a, V) /\ Length(u) \in Nat \ {0}
      /\ b = u[1]
      /\ Length(x) = Length(u) - 1 /\ \A j \in 1 .. Length(x) : x[j] = u[j + 1]
  BY DEF InTime, Remains
<1>1. /\ Timed(pl, n) /\ Coming(pl, u, n) /\ RunningIs(pl, q) /\ Fairly(pl)
      /\ Sched(pl, V, n + 1) /\ Wired(C, w, T, pl, n)
      /\ Num(pl) = 0 => u[1] = 247
  BY DEF Readied
<1>2. Timed(pl, n + 1) /\ Coming(pl, x, n + 1) /\ Wired(D, v, V, pl, n + 1)
  <2>1. PICK g : /\ g.byte = u[1] /\ g.delta = CutOff(a - T[n])
                 /\ Longer(C, n, g, D) /\ Longer(w, n, u[1], v)
    BY <1>0 DEF Gains, Lapse
  <2> QED BY <1>0, <1>1, <2>1, OneWired
<1> QED BY <1>1, <1>2 DEF Performed

----------------------------------------------------------------------------
(* MIDIREC: the invariant.                                                 *)

RecBase ==
  /\ RingInv /\ arrived \in Nat /\ played \in RecPlays
  /\ sending \in Seq(Byte) /\ running \in 0 .. 239 /\ time \in Nat /\ delta_time \in Nat
  /\ phase \in {"waiting", "recording", "stopped", "aborted"}

(* Nothing was recorded yet. *)
Blank ==
  /\ phase \in {"waiting", "aborted"} /\ time = 0 /\ delta_time = 0
  /\ expect_bytes = 0 /\ ~ sysex_active /\ sysex_buff = <<>> /\ accum_delta = 0

(* Nothing has arrived. *)
Silent ==
  /\ arrived = 0 /\ played = <<>> /\ Unread = 0 /\ Blank
  /\ sending = <<>> \/ \E m \in RecMessages : sending = Tail(m) /\ running = StatusLeft(m)

(* The first byte is data, and the main loop waits for a status.           *)
Deaf ==
  /\ phase \in {"waiting", "aborted"} /\ arrived \in Nat \ {0} /\ Unread = arrived
  /\ \E C : Carries(C) /\ C[1].byte < 128

(* The file has text, but for the end of the track. *)
Shown(text, t) ==
  /\ phase \in {"waiting", "aborted"} => t = 0 /\ time = 0 /\ text = MIDI_header
  /\ phase = "recording" => text = out
  /\ phase = "stopped" => out = text \o EndOfTrack

ScoredAs(C, w, T, k, text, P, y, r) ==
  /\ Carries(C) /\ Wired(C, w, T, played, arrived) /\ Performed(played, arrived, y, r, T)
  /\ T[arrived] + delta_time = time
  /\ NotedAt(T, arrived - Unread, k, text, P) /\ Shown(text, arrived - Unread)
Scored ==
  /\ Num(played) = 0 => Length(sending) = 0
  /\ \E C, w, T, k, text, P : ScoredAs(C, w, T, k, text, P, sending, running)

RecInv ==
  /\ RecBase
  /\ ~ overrun /\ ~ broken => Silent \/ Deaf \/ Scored

(* The ring stays one. *)
LEMMA RingKept ==
  ASSUME RingInv
  PROVE  /\ \A b : write_queue(b) => RingInv'
         /\ NextByte => RingInv' /\ overrun' = overrun
<1>1. /\ QLEN \in Nat \ {0, 1} /\ head \in 0 .. QLEN - 1 /\ tail \in 0 .. QLEN - 1
      /\ queue = [i \in 0 .. QLEN - 1 |-> queue[i]] /\ DOMAIN queue = 0 .. QLEN - 1
  BY RingAssumption DEF RingInv
<1>2. ASSUME NEW b, write_queue(b) PROVE RingInv'
  <2>1. head' = (IF head = QLEN - 1 THEN 0 ELSE head + 1) /\ tail' = tail
        /\ queue' = [queue EXCEPT ![head] = b]
    BY <1>1, <1>2, Wrapped DEF write_queue
  <2>2. DOMAIN queue' = 0 .. QLEN - 1 /\ queue' = [i \in 0 .. QLEN - 1 |-> queue'[i]]
    BY <1>1, <2>1
  <2>3. head' \in 0 .. QLEN - 1
    BY <1>1, <2>1
  <2> QED BY <1>1, <2>1, <2>2, <2>3 DEF RingInv
<1>3. ASSUME NextByte PROVE RingInv' /\ overrun' = overrun
  <2>1. tail' = (IF tail = QLEN - 1 THEN 0 ELSE tail + 1) /\ head' = head /\ queue' = queue
        /\ overrun' = overrun
    BY <1>1, <1>3, Wrapped DEF NextByte, read_queue
  <2>2. tail' \in 0 .. QLEN - 1
    BY <1>1, <2>1
  <2> QED BY <1>1, <2>1, <2>2 DEF RingInv
<1> QED BY <1>2, <1>3

(* What nothing was recorded of. *)
LEMMA BlankNoted ==
  ASSUME NEW pl, Num(pl) = 0, NEW T, T[0] = 0, NEW st, NEW P, P[1] = 16
  PROVE  Noted(pl, T, 0, 0, MIDI_header, P, st, 0, 0, FALSE, <<>>)
<1>1. Reached(pl, 0, 0)
  BY DEF Reached
<1>2. Counting(pl, T, 0, 0, 0)
  <2>1. TopDelta \in Nat
    BY RecorderAssumption
  <2>2. CutOff(0) = 0
    BY <2>1 DEF CutOff
  <2> QED BY <2>2 DEF Counting, Since
<1>3. MIDI_header \in Seq(Byte) /\ Length(MIDI_header) = 15
  BY DEF MIDI_header, Byte, Length
<1>4. Headed(MIDI_header)
  BY <1>3 DEF Headed
<1>5. Recorded(MIDI_header, pl, 0, 0, P)
  <2>1. P[0 + 1] = Length(MIDI_header) + 1
    BY <1>3
  <2> QED BY <1>3, <1>4, <2>1 DEF Recorded, Buffer
<1>6. Standing(pl, 0, 0, st, 0, FALSE, <<>>)
  BY DEF Standing
<1>7. Buffer(<<>>)
  BY DEF Buffer
<1> QED BY <1>1, <1>2, <1>5, <1>6, <1>7 DEF Noted

LEMMA SilentScored ==
  ASSUME RecBase, Silent, NEW y, \A j \in 1 .. Length(y) : y[j] \in Harmless
  PROVE  \E C, w, T, k, text, P : ScoredAs(C, w, T, k, text, P, y, 0)
<1>1. /\ arrived = 0 /\ Unread = 0 /\ Num(played) = 0 /\ arrived - Unread = 0
  <2>1. Num(<<>>) = 0
    BY DEF Num
  <2> QED BY <2>1 DEF Silent
<1>2. /\ phase \in {"waiting", "aborted"} /\ time = 0 /\ delta_time = 0
      /\ expect_bytes = 0 /\ ~ sysex_active /\ sysex_buff = <<>> /\ accum_delta = 0
  BY DEF Silent, Blank
<1>3. PICK T : T = [j \in 0 .. 0 |-> 0]
  OBVIOUS
<1>4. T[0] = 0
  BY <1>3
<1>5. PICK P : P = [j \in 1 .. 1 |-> 16]
  OBVIOUS
<1>6. P[1] = 16
  BY <1>5
<1>7. Noted(played, T, 0, 0, MIDI_header, P, status, 0, 0, FALSE, <<>>)
  BY <1>1, <1>4, <1>6, BlankNoted
<1>8. NotedAt(T, arrived - Unread, 0, MIDI_header, P)
  <2>1. Standing(played, 0, 0, status, expect_bytes, sysex_active, sysex_buff)
    BY <1>2 DEF Standing
  <2>2. Noted(played, T, 0, 0, MIDI_header, P, status, expect_bytes, accum_delta,
              sysex_active, sysex_buff)
    BY <1>2, <1>7, <2>1 DEF Noted
  <2> QED BY <1>1, <2>2 DEF NotedAt
<1>9. Carries(T)
  BY <1>1 DEF Carries
<1>10. Wired(T, T, T, played, arrived)
  <2>1. \A p \in 1 .. arrived : FALSE
    BY <1>1
  <2> QED BY <1>1, <2>1 DEF Wired, OnRing, OnWire, Tailed
<1>11. Performed(played, arrived, y, 0, T)
  BY <1>1, <1>4 DEF Performed, Timed, Coming, RunningIs, Sched, Fairly
<1>12. T[arrived] + delta_time = time
  BY <1>1, <1>2, <1>4
<1>13. Shown(MIDI_header, arrived - Unread)
  BY <1>1, <1>2 DEF Shown
<1>14. ScoredAs(T, T, T, 0, MIDI_header, P, y, 0)
  BY <1>8, <1>9, <1>10, <1>11, <1>12, <1>13 DEF ScoredAs
<1> QED BY <1>14

(* A byte is queued. *)
LEMMA ScoredTakes ==
  ASSUME RecBase, NEW C, NEW w, NEW T, NEW k, NEW text, NEW P, NEW y, NEW r,
         ScoredAs(C, w, T, k, text, P, y, r),
         NEW u \in Seq(Byte), u # <<>>, NEW m,
         NEW g, g.byte = u[1], g.delta = CutOff(delta_time), write_queue(g), ~ overrun',
         delta_time' = 0, arrived' = arrived + 1, sending' = Tail(u),
         UNCHANGED <<phase, writer, time>>,
         \/ Continues(played, y, r, u, m, played', running')
         \/ Commences(played, arrived, y, r, u, m, time, played', running')
  PROVE  \E D, v, V : ScoredAs(D, v, V, k, text, P, sending, running)'
<1> PICK n : n = arrived
  OBVIOUS
<1> PICK t : t = arrived - Unread
  OBVIOUS
<1>1. n \in Nat /\ RingInv /\ time \in Nat /\ delta_time \in Nat
  BY DEF RecBase
<1>2. /\ Carries(C) /\ Wired(C, w, T, played, n) /\ Performed(played, n, y, r, T)
      /\ T[n] + delta_time = time
      /\ NotedAt(T, t, k, text, P) /\ Shown(text, t)
  BY DEF ScoredAs
<1>3. /\ Length(u) \in Nat \ {0} /\ Length(sending') = Length(u) - 1
      /\ \A j \in 1 .. Length(sending') : sending'[j] = u[j + 1]
  BY RestOf
<1>4. T[n] \in Nat /\ T[n] <= time /\ time - T[n] = delta_time
  <2>1. T[n] \in Nat
    BY <1>2 DEF Performed, Sched
  <2> QED BY <1>1, <1>2, <2>1
<1>5. PICK V : V = [j \in 0 .. n + 1 |-> IF j = n + 1 THEN time ELSE T[j]]
  OBVIOUS
<1>6. InTime(T, n, time, V) /\ V[n + 1] = time
  <2>1. V[n + 1] = time /\ \A j \in 0 .. n : V[j] = T[j]
    BY <1>1, <1>5
  <2> QED BY <1>1, <1>4, <2>1 DEF InTime, Ticked
<1>7. PICK D : D = [i \in 1 .. n + 1 |-> IF i = n + 1 THEN g ELSE C[i]]
  OBVIOUS
<1>8. PICK v : v = [i \in 1 .. n + 1 |-> IF i = n + 1 THEN u[1] ELSE w[i]]
  OBVIOUS
<1>9. Longer(C, n, g, D) /\ Longer(w, n, u[1], v)
  BY <1>7, <1>8 DEF Longer
<1>10. Unread' = Unread + 1 /\ Carries(D)'
  BY <1>1, <1>2, <1>7, RingTakes
<1>11. t \in 0 .. n /\ arrived' - Unread' = t
  <2>1. Unread \in Nat
    BY <1>1, UnreadIs, RingAssumption
  <2>2. Unread <= n
    BY <1>2 DEF Carries
  <2> QED BY <1>1, <1>10, <2>1, <2>2
<1>12. Noted(played, T, t, k, text, P, status, expect_bytes, accum_delta, sysex_active, sysex_buff)
  BY <1>2 DEF NotedAt
<1>13. /\ Performed(played', n + 1, sending', running', V) /\ Wired(D, v, V, played', n + 1)
       /\ Noted(played', V, t, k, text, P, status, expect_bytes, accum_delta, sysex_active, sysex_buff)
  <2>1. g.delta = CutOff(time - T[n])
    BY <1>4
  <2>2. PICK np : np = played'
    OBVIOUS
  <2>3. PICK q : q = running'
    OBVIOUS
  <2>4. PICK x : x = sending'
    OBVIOUS
  <2>5. Proceeds(played, n, y, r, u, m, time, np, q)
    BY <2>2, <2>3 DEF Proceeds
  <2>6. PICK b : b = u[1] /\ Remains(u, b, x)
    BY <1>3, <2>4 DEF Remains
  <2>7. PICK d : Lapse(T, n, time, d) /\ Gains(C, w, n, b, d, D, v)
    BY <1>9, <2>1, <2>6 DEF Gains, Lapse
  <2>8. InTime(T, n, time, V)
    BY <1>6
  <2>9. Performed(played, n, y, r, T) /\ Wired(C, w, T, played, n)
    BY <1>2
  <2>10. n \in Nat /\ t \in 0 .. n
    BY <1>1, <1>11
  <2>11. Length(u) \in Nat \ {0}
    BY <1>3
  <2>12. Readied(np, n, u, q, T, C, w, V)
         /\ Noted(np, T, t, k, text, P, status, expect_bytes, accum_delta, sysex_active, sysex_buff)
    BY <1>12, <2>5, <2>8, <2>9, <2>10, <2>11, ProceedsOn
  <2>13. Wired(D, v, V, np, n + 1) /\ Performed(np, n + 1, x, q, V)
    BY <2>6, <2>7, <2>8, <2>10, <2>12, WiredOn
  <2>14. Noted(np, V, t, k, text, P, status, expect_bytes, accum_delta, sysex_active, sysex_buff)
    BY <2>8, <2>10, <2>12, NotedTicked DEF InTime
  <2> QED BY <2>2, <2>3, <2>4, <2>13, <2>14
<1>14. NotedAt(V, arrived - Unread, k, text, P)'
  BY <1>11, <1>13 DEF NotedAt, writer
<1>15. Shown(text, arrived - Unread)'
  BY <1>2, <1>11 DEF Shown, writer
<1>16. V[n + 1] + delta_time' = time'
  BY <1>1, <1>6
<1>17. ScoredAs(D, v, V, k, text, P, sending, running)'
  BY <1>10, <1>13, <1>14, <1>15, <1>16 DEF ScoredAs
<1> QED BY <1>17

----------------------------------------------------------------------------
(* MIDIREC: a byte arrives.                                                *)

(* The handler keeps the first byte of u, or drops it. *)
TakesIn(u) ==
  /\ u \in Seq(Byte) /\ u # <<>> /\ sending' = Tail(u)
  /\ \E g : g.byte = u[1] /\ g.delta = CutOff(delta_time) /\ write_queue(g)
  /\ delta_time' = 0 /\ arrived' = arrived + 1 /\ UNCHANGED <<phase, writer, time>>
LeavesOut == UNCHANGED <<ring, delta_time, arrived, played, phase, writer, time>>

(* The rest of a message, or the next one. *)
MoreOf(u) ==
  /\ u = sending /\ u \in Seq(Byte) /\ u # <<>> /\ played' = played /\ running' = running
  /\ (Kept(u[1]) /\ TakesIn(u)) \/ (~ Kept(u[1]) /\ LeavesOut)
NextOf(u, m) ==
  /\ sending = <<>> /\ m \in RecMessages
  /\ \/ /\ Plain(m) /\ (u = m \/ (u = Tail(m) /\ running # 0 /\ Lead(m) = running))
        /\ GrownAt(played, played', m, arrived + Length(u), time)
        /\ running' = IF Lead(m) < 240 THEN Lead(m) ELSE 0
        /\ TakesIn(u)
     \/ /\ LeavesOut /\ sending' = <<>> /\ running' \in {running, 0}

LEMMA RecArrives ==
  ASSUME RecBase, MIDIREC_isr
  PROVE  \E s \in NextBytes(RecMessages) :
           /\ sending' = Tail(s[1])
           /\ running' = (IF s[2] = <<>> \/ s[2][1] >= 248 THEN running ELSE StatusLeft(s[2]))
           /\ UNCHANGED <<phase, writer, time>>
           /\ Kept(s[1][1]) =>
                /\ \E g : g.byte = s[1][1] /\ g.delta = CutOff(delta_time) /\ write_queue(g)
                /\ delta_time' = 0 /\ arrived' = arrived + 1
           /\ ~ Kept(s[1][1]) => UNCHANGED <<ring, delta_time, arrived>>
           /\ played' = IF s[2] = <<>> \/ ~ Kept(s[2][1]) THEN played
                        ELSE Append(played, [bytes |-> s[2], at |-> time, upto |-> arrived + Len(s[1])])
           /\ s[2] # <<>> /\ ~ broken' =>
                ~ (s[2][1] \in 241 .. 246 /\ Len(s[2]) > 1) /\ ~ (s[2][1] = 240 /\ Len(s[2]) - 2 > SBUF)
<1>1. TopDelta \in Nat /\ delta_time \in Nat
  BY RecorderAssumption DEF RecBase
<1>2. (IF delta_time > TopDelta THEN TopDelta ELSE delta_time) = CutOff(delta_time)
  BY <1>1 DEF CutOff
<1> PICK d : d = CutOff(delta_time)
  OBVIOUS
<1>3. (IF delta_time > TopDelta THEN TopDelta ELSE delta_time) = d
  BY <1>2
<1>4. PICK s \in NextBytes(RecMessages) :
         /\ sending' = Tail(s[1])
         /\ IF Kept(s[1][1]) THEN write_queue([byte |-> s[1][1], delta |-> d])
            ELSE UNCHANGED ring
         /\ delta_time' = IF Kept(s[1][1]) THEN 0 ELSE delta_time
         /\ arrived' = IF Kept(s[1][1]) THEN arrived + 1 ELSE arrived
         /\ running' = (IF s[2] = <<>> \/ s[2][1] >= 248 THEN running ELSE StatusLeft(s[2]))
         /\ played' = IF s[2] = <<>> \/ ~ Kept(s[2][1]) THEN played
                        ELSE Append(played, [bytes |-> s[2], at |-> time, upto |-> arrived + Len(s[1])])
         /\ broken' = (broken \/ (s[2] # <<>> /\ ((s[2][1] \in 241 .. 246 /\ Len(s[2]) > 1)
                                     \/ (s[2][1] = 240 /\ Len(s[2]) - 2 > SBUF))))
  BY <1>3, ZenonT(60) DEF MIDIREC_isr
<1>5. UNCHANGED <<phase, writer, time>>
  BY DEF MIDIREC_isr
<1>6. Kept(s[1][1]) =>
        \E g : g.byte = s[1][1] /\ g.delta = CutOff(delta_time) /\ write_queue(g)
  <2>1. SUFFICES ASSUME Kept(s[1][1]) PROVE write_queue([byte |-> s[1][1], delta |-> d])
    OBVIOUS
  <2> QED BY <1>4, <2>1
<1> QED BY <1>4, <1>5, <1>6, ZenonT(60)

(* The first byte of a message and of its data. *)
LEMMA KeptOf ==
  ASSUME NEW m, Complete(m)
  PROVE  /\ Kept(m[1]) <=> Lead(m) <= 240
         /\ Lead(m) < 240 => Kept(Tail(m)[1]) /\ Tail(m)[1] = m[2] /\ m[2] \in 0 .. 127
         /\ StatusLeft(m) = IF Lead(m) < 240 THEN Lead(m) ELSE 0
         /\ Lead(m) \in 128 .. 255 /\ Lead(m) # 247 /\ m[1] = Lead(m)
<1>1. /\ Length(m) \in Nat \ {0} /\ Lead(m) \in 128 .. 255 /\ Lead(m) # 247
      /\ \A i \in 1 .. Length(m) : m[i] \in 0 .. 255
      /\ Lead(m) < 240 => Length(m) = IF Lead(m) \in 192 .. 223 THEN 2 ELSE 3
      /\ \A i \in 2 .. Length(m) :
           m[i] < 128 \/ (Lead(m) = 240 /\ (m[i] >= 248 \/ (m[i] = 247 /\ i = Length(m))))
  BY Legal
<1>2. m[1] = Lead(m)
  BY DEF Lead
<1>3. Kept(m[1]) <=> Lead(m) <= 240
  BY <1>1, <1>2, SMTT(30) DEF Kept
<1>4. StatusLeft(m) = IF Lead(m) < 240 THEN Lead(m) ELSE 0
  BY <1>1, <1>2, SMTT(30) DEF StatusLeft, isvalrst
<1>5. ASSUME Lead(m) < 240
      PROVE  Kept(Tail(m)[1]) /\ Tail(m)[1] = m[2] /\ m[2] \in 0 .. 127
  <2>1. Length(m) \in {2, 3}
    BY <1>1, <1>5
  <2>2. 2 \in 2 .. Length(m) /\ 2 \in 1 .. Length(m)
    BY <2>1
  <2>3. m[2] < 128 /\ m[2] \in 0 .. 255
    BY <1>1, <1>5, <2>2
  <2>4. Tail(m)[1] = m[2]
    <3>1. m \in Seq(Byte) /\ m # <<>>
      BY DEF Complete
    <3>2. /\ Length(Tail(m)) = Length(m) - 1
          /\ \A k \in 1 .. Length(Tail(m)) : Tail(m)[k] = m[k + 1]
      BY <3>1, RestOf
    <3>3. PICK x : x = Tail(m)
      OBVIOUS
    <3>4. Length(x) = Length(m) - 1 /\ \A k \in 1 .. Length(x) : x[k] = m[k + 1]
      BY <3>2, <3>3
    <3>5. 1 \in 1 .. Length(x)
      BY <2>1, <3>4
    <3>6. x[1] = m[2]
      BY <3>4, <3>5
    <3> QED BY <3>3, <3>6
  <2>5. Kept(m[2])
    BY <2>3 DEF Kept
  <2>6. PICK y : y = Tail(m)[1]
    OBVIOUS
  <2>7. y = m[2]
    BY <2>4, <2>6
  <2>8. Kept(y)
    BY <2>5, <2>7
  <2>9. Kept(Tail(m)[1])
    BY <2>6, <2>8
  <2>10. m[2] \in 0 .. 127
    BY <2>3
  <2> QED BY <2>4, <2>9, <2>10
<1> QED BY <1>1, <1>2, <1>3, <1>4, <1>5

LEMMA RecSteps ==
  ASSUME RecBase, MIDIREC_isr, ~ broken'
  PROVE  \E u, m : MoreOf(u) \/ NextOf(u, m)
<1>1. /\ \A m \in RecMessages : Complete(m) /\ \A i \in 2 .. Length(m) : m[i] < 248
      /\ SBUF \in Nat \ {0}
  BY RecorderAssumption DEF Length
<1>2. /\ sending \in Seq(Byte) /\ running \in 0 .. 239 /\ arrived \in Nat /\ time \in Nat
      /\ played \in RecPlays
  BY DEF RecBase
<1>3. PICK u, m :
        /\ u \in Seq(Byte) /\ u # <<>>
        /\ m = <<>> => u = sending
        /\ m # <<>> =>
             /\ m \in RecMessages /\ Length(sending) = 0
             /\ u = m \/ (u = Tail(m) /\ running # 0 /\ Lead(m) = running)
        /\ sending' = Tail(u)
        /\ running' = (IF m = <<>> \/ m[1] >= 248 THEN running ELSE StatusLeft(m))
        /\ UNCHANGED <<phase, writer, time>>
        /\ Kept(u[1]) =>
             /\ \E g : g.byte = u[1] /\ g.delta = CutOff(delta_time) /\ write_queue(g)
             /\ delta_time' = 0 /\ arrived' = arrived + 1
        /\ ~ Kept(u[1]) => UNCHANGED <<ring, delta_time, arrived>>
        /\ played' = IF m = <<>> \/ ~ Kept(m[1]) THEN played
                     ELSE Append(played, [bytes |-> m, at |-> time, upto |-> arrived + Len(u)])
        /\ m # <<>> /\ ~ broken' =>
             ~ (m[1] \in 241 .. 246 /\ Len(m) > 1) /\ ~ (m[1] = 240 /\ Len(m) - 2 > SBUF)
  <2>1. PICK s \in NextBytes(RecMessages) :
           /\ sending' = Tail(s[1])
           /\ running' = (IF s[2] = <<>> \/ s[2][1] >= 248 THEN running ELSE StatusLeft(s[2]))
           /\ UNCHANGED <<phase, writer, time>>
           /\ Kept(s[1][1]) =>
                /\ \E g : g.byte = s[1][1] /\ g.delta = CutOff(delta_time) /\ write_queue(g)
                /\ delta_time' = 0 /\ arrived' = arrived + 1
           /\ ~ Kept(s[1][1]) => UNCHANGED <<ring, delta_time, arrived>>
           /\ played' = IF s[2] = <<>> \/ ~ Kept(s[2][1]) THEN played
                        ELSE Append(played, [bytes |-> s[2], at |-> time, upto |-> arrived + Len(s[1])])
           /\ s[2] # <<>> /\ ~ broken' =>
                ~ (s[2][1] \in 241 .. 246 /\ Len(s[2]) > 1) /\ ~ (s[2][1] = 240 /\ Len(s[2]) - 2 > SBUF)
    BY RecArrives
  <2>2. /\ s[1] \in Seq(Byte) /\ s[1] # <<>>
        /\ s[2] = <<>> => s[1] = sending
        /\ s[2] # <<>> =>
             /\ s[2] \in RecMessages /\ Length(sending) = 0
             /\ s[1] = s[2] \/ (s[1] = Tail(s[2]) /\ running # 0 /\ Lead(s[2]) = running)
    BY <1>1, <1>2, SentNext
  <2> QED BY <2>1, <2>2
<1>4. /\ u \in Seq(Byte) /\ u # <<>>
      /\ m = <<>> => u = sending
      /\ m # <<>> =>
           /\ m \in RecMessages /\ Length(sending) = 0
           /\ u = m \/ (u = Tail(m) /\ running # 0 /\ Lead(m) = running)
  BY <1>3
<1>5. Kept(u[1]) => TakesIn(u)
  BY <1>3, <1>4 DEF TakesIn
<1>6. CASE m = <<>>
  <2>1. played' = played /\ running' = running
    BY <1>3, <1>6
  <2>2. ~ Kept(u[1]) => LeavesOut
    BY <1>3, <2>1 DEF LeavesOut
  <2>3. MoreOf(u)
    BY <1>4, <1>5, <1>6, <2>1, <2>2 DEF MoreOf
  <2> QED BY <2>3
<1>7. CASE m # <<>>
  <2>1. m \in RecMessages /\ Complete(m) /\ sending = <<>>
        /\ (u = m \/ (u = Tail(m) /\ running # 0 /\ Lead(m) = running))
    <3>1. sending = <<>>
      BY <1>2, <1>4, <1>7 DEF Length
    <3> QED BY <1>1, <1>4, <1>7, <3>1
  <2>2. /\ Kept(m[1]) <=> Lead(m) <= 240
        /\ StatusLeft(m) = IF Lead(m) < 240 THEN Lead(m) ELSE 0
        /\ Lead(m) \in 128 .. 255 /\ m[1] = Lead(m)
    BY <2>1, KeptOf
  <2>3. (u = m /\ (Kept(u[1]) <=> Lead(m) <= 240)) \/ (Lead(m) < 240 /\ Kept(u[1]))
    <3>1. CASE u = m
      BY <2>2, <3>1
    <3>2. CASE u = Tail(m) /\ Lead(m) = running
      <4>1. Lead(m) < 240
        BY <1>2, <3>2
      <4>2. Kept(Tail(m)[1])
        BY <2>1, <4>1, KeptOf
      <4>3. Tail(m) = u
        BY <3>2
      <4>4. Kept(u[1])
        BY <4>2, <4>3
      <4> QED BY <4>1, <4>4
    <3> QED BY <2>1, <3>1, <3>2
  <2>4. SUFFICES NextOf(u, m)
    OBVIOUS
  <2>5. ~ (m[1] \in 241 .. 246 /\ Length(m) > 1) /\ ~ (m[1] = 240 /\ Length(m) - 2 > SBUF)
    BY <1>3, <1>7 DEF Length
  <2>6. /\ Length(m) \in Nat \ {0}
        /\ Lead(m) < 240 => Length(m) = IF Lead(m) \in 192 .. 223 THEN 2 ELSE 3
        /\ Lead(m) # 247 /\ (Lead(m) >= 248 => Length(m) = 1)
    BY <2>1, Legal
  <2>7. CASE Lead(m) <= 240
    <3>1. Length(m) <= SBUF + 2
      <4>1. CASE Lead(m) = 240
        BY <1>1, <2>2, <2>5, <2>6, <4>1
      <4>2. CASE Lead(m) < 240
        BY <1>1, <2>6, <4>2
      <4>3. Lead(m) < 240 \/ Lead(m) = 240
        BY <2>2, <2>7
      <4> QED BY <4>1, <4>2, <4>3
    <3>2. Plain(m)
      BY <1>1, <2>1, <2>7, <3>1 DEF Plain
    <3>3. running' = IF Lead(m) < 240 THEN Lead(m) ELSE 0
      <4>1. Lead(m) < 240 \/ Lead(m) = 240
        BY <2>2, <2>7
      <4>2. ~ (m[1] >= 248) /\ (m[1] >= 248 <=> Lead(m) >= 248)
        BY <2>2, <4>1
      <4>3. running' = StatusLeft(m)
        BY <1>3, <1>7, <4>2
      <4> QED BY <2>2, <4>3
    <3>4. GrownAt(played, played', m, arrived + Length(u), time)
      <4>1. arrived + Length(u) \in Nat
        BY <1>2, <1>4, RestOf
      <4>2. played' = Append(played, [bytes |-> m, at |-> time, upto |-> arrived + Length(u)])
        BY <1>3, <1>7, <2>2, <2>7 DEF Length
      <4> QED BY <1>2, <2>1, <4>1, <4>2, RecAppended
    <3>5. Kept(u[1])
      BY <2>3, <2>7
    <3> QED BY <1>5, <2>1, <3>2, <3>3, <3>4, <3>5 DEF NextOf
  <2>8. CASE ~ (Lead(m) <= 240)
    <3>1. ~ Kept(u[1]) /\ ~ Kept(m[1])
      BY <2>2, <2>3, <2>8
    <3>2. LeavesOut
      BY <1>3, <3>1 DEF LeavesOut
    <3>3. u = m /\ Length(m) = 1
      <4>1. u = m
        BY <2>2, <2>3, <2>8
      <4>2. Lead(m) \in 241 .. 246 \/ Lead(m) >= 248
        <5>1. PICK l : l = Lead(m)
          OBVIOUS
        <5>2. l \in 128 .. 255 /\ l # 247 /\ ~ (l <= 240)
          BY <2>2, <2>6, <2>8, <5>1
        <5>3. l \in 241 .. 246 \/ l >= 248
          BY <5>2
        <5>4. CASE l \in 241 .. 246
          BY <5>1, <5>4
        <5>5. CASE l >= 248
          BY <5>1, <5>5
        <5> QED BY <5>3, <5>4, <5>5
      <4>3. CASE Lead(m) \in 241 .. 246
        BY <2>2, <2>5, <2>6, <4>1, <4>3
      <4> QED BY <2>6, <4>1, <4>2, <4>3
    <3>4. sending' = <<>>
      <4>1. Length(Tail(u)) = 0 /\ sending' = Tail(u)
        BY <1>3, <1>4, <3>3, RestOf
      <4>2. Tail(u) \in Seq(Byte)
        BY <1>4
      <4> QED BY <4>1, <4>2 DEF Length
    <3>5. running' \in {running, 0}
      <4>1. StatusLeft(m) = 0
        BY <2>2, <2>8
      <4> QED BY <1>3, <1>7, <4>1
    <3> QED BY <2>1, <3>2, <3>4, <3>5 DEF NextOf
  <2> QED BY <2>7, <2>8
<1> QED BY <1>6, <1>7

LEMMA RecBaseTakes ==
  ASSUME RecBase, MIDIREC_isr
  PROVE  RecBase'
<1>1. \A m \in RecMessages : Complete(m)
  BY RecorderAssumption
<1>2. /\ sending \in Seq(Byte) /\ running \in 0 .. 239 /\ arrived \in Nat /\ time \in Nat
      /\ played \in RecPlays /\ delta_time \in Nat /\ RingInv
      /\ phase \in {"waiting", "recording", "stopped", "aborted"}
  BY DEF RecBase
<1>3. PICK s \in NextBytes(RecMessages) :
           /\ sending' = Tail(s[1])
           /\ running' = (IF s[2] = <<>> \/ s[2][1] >= 248 THEN running ELSE StatusLeft(s[2]))
           /\ UNCHANGED <<phase, writer, time>>
           /\ Kept(s[1][1]) =>
                /\ \E g : g.byte = s[1][1] /\ g.delta = CutOff(delta_time) /\ write_queue(g)
                /\ delta_time' = 0 /\ arrived' = arrived + 1
           /\ ~ Kept(s[1][1]) => UNCHANGED <<ring, delta_time, arrived>>
           /\ played' = IF s[2] = <<>> \/ ~ Kept(s[2][1]) THEN played
                        ELSE Append(played, [bytes |-> s[2], at |-> time, upto |-> arrived + Len(s[1])])
  BY RecArrives
<1>4. s[1] \in Seq(Byte) /\ s[1] # <<>> /\ (s[2] # <<>> => s[2] \in RecMessages)
  BY <1>1, <1>2, SentNext
<1>5. RingInv' /\ arrived' \in Nat /\ delta_time' \in Nat
  <2>1. CASE Kept(s[1][1])
    BY <1>2, <1>3, <2>1, RingKept
  <2>2. CASE ~ Kept(s[1][1])
    BY <1>2, <1>3, <2>2 DEF RingInv, ring
  <2> QED BY <2>1, <2>2
<1>6. sending' \in Seq(Byte)
  BY <1>3, <1>4
<1>7. running' \in 0 .. 239
  <2>1. CASE s[2] = <<>>
    BY <1>2, <1>3, <2>1
  <2>2. CASE s[2] # <<>>
    <3>1. PICK r : r = StatusLeft(s[2])
      OBVIOUS
    <3>2. r \in 0 .. 239
      <4>1. Complete(s[2])
        BY <1>1, <1>4, <2>2
      <4>2. /\ r = IF Lead(s[2]) < 240 THEN Lead(s[2]) ELSE 0
            /\ Lead(s[2]) \in 128 .. 255
        BY <3>1, <4>1, KeptOf
      <4> QED BY <4>2
    <3> QED BY <1>2, <1>3, <3>1, <3>2
  <2> QED BY <2>1, <2>2
<1>8. played' \in RecPlays
  <2>1. CASE s[2] = <<>> \/ ~ Kept(s[2][1])
    BY <1>2, <1>3, <2>1
  <2>2. CASE ~ (s[2] = <<>> \/ ~ Kept(s[2][1]))
    <3>1. PICK e : e = arrived + Length(s[1])
      OBVIOUS
    <3>2. e \in Nat
      BY <1>2, <1>4, <3>1, RestOf
    <3>3. played' = Append(played, [bytes |-> s[2], at |-> time, upto |-> e])
      BY <1>3, <2>2, <3>1 DEF Length
    <3> QED BY <1>2, <1>4, <2>2, <3>2, <3>3, RecAppended
  <2> QED BY <2>1, <2>2
<1> QED BY <1>2, <1>3, <1>5, <1>6, <1>7, <1>8 DEF RecBase

(* The ring and the bytes that arrived are the same. *)
LEMMA RingSame ==
  ASSUME UNCHANGED <<ring, arrived>>
  PROVE  Unread' = Unread /\ (\A C : Carries(C) => Carries(C)') /\ (RingInv => RingInv')
  BY DEF ring, Unread, Carries, Slot, RingInv

LEMMA DeafTakes ==
  ASSUME RecBase, Deaf, MIDIREC_isr, ~ overrun', ~ broken'
  PROVE  Deaf'
<1>1. arrived \in Nat \ {0} /\ RingInv /\ phase \in {"waiting", "aborted"} /\ Unread = arrived
  BY DEF RecBase, Deaf
<1>2. PICK C : Carries(C) /\ C[1].byte < 128
  BY DEF Deaf
<1>3. PICK u, m : MoreOf(u) \/ NextOf(u, m)
  BY RecSteps
<1>4. CASE TakesIn(u)
  <2>1. PICK g : write_queue(g)
    BY <1>4 DEF TakesIn
  <2>2. arrived' = arrived + 1 /\ phase' = phase
    BY <1>4 DEF TakesIn
  <2>3. PICK D : D = [i \in 1 .. arrived + 1 |-> IF i = arrived + 1 THEN g ELSE C[i]]
    OBVIOUS
  <2>4. Unread' = Unread + 1 /\ Carries(D)'
    BY <1>1, <1>2, <2>1, <2>2, <2>3, RingTakes
  <2>5. D[1] = C[1]
    BY <1>1, <2>3
  <2>6. D[1].byte < 128
    BY <1>2, <2>5
  <2>7. arrived' \in Nat \ {0} /\ Unread' = arrived'
    BY <1>1, <2>2, <2>4
  <2> QED BY <1>1, <2>2, <2>4, <2>6, <2>7 DEF Deaf
<1>5. CASE LeavesOut
  <2>1. UNCHANGED <<ring, arrived>> /\ phase' = phase
    BY <1>5 DEF LeavesOut
  <2> QED BY <1>1, <1>2, <2>1, RingSame DEF Deaf
<1> QED BY <1>3, <1>4, <1>5 DEF MoreOf, NextOf

LEMMA ScoredLeaves ==
  ASSUME RecBase, NEW C, NEW w, NEW T, NEW k, NEW text, NEW P,
         ScoredAs(C, w, T, k, text, P, sending, running), sending = <<>>,
         LeavesOut, sending' = <<>>, running' \in {running, 0}
  PROVE  ScoredAs(C, w, T, k, text, P, sending, running)'
<1>1. UNCHANGED <<ring, arrived>> /\ UNCHANGED <<delta_time, played, phase, writer, time>>
  BY DEF LeavesOut
<1>2. /\ Carries(C) /\ Wired(C, w, T, played, arrived) /\ Performed(played, arrived, sending, running, T)
      /\ T[arrived] + delta_time = time
      /\ NotedAt(T, arrived - Unread, k, text, P) /\ Shown(text, arrived - Unread)
  BY DEF ScoredAs
<1>3. Unread' = Unread /\ Carries(C)'
  BY <1>1, <1>2, RingSame
<1>4. Performed(played, arrived, sending', running', T)
  <2>1. RunningIs(played, 0)
    BY DEF RunningIs
  <2>2. RunningIs(played, running')
    BY <1>2, <2>1 DEF Performed
  <2> QED BY <1>2, <2>2 DEF Performed
<1>5. NotedAt(T, arrived - Unread, k, text, P)'
  BY <1>1, <1>2, <1>3 DEF NotedAt, writer
<1>6. Shown(text, arrived - Unread)'
  BY <1>1, <1>2, <1>3 DEF Shown, writer
<1> QED BY <1>1, <1>2, <1>3, <1>4, <1>5, <1>6 DEF ScoredAs

(* A message was sent. *)
LEMMA NumGrows ==
  ASSUME NEW pl, NEW np, NEW m, NEW e, NEW a, GrownAt(pl, np, m, e, a)
  PROVE  Num(np) # 0
  BY DEF GrownAt, Grown

LEMMA ScoredGoes ==
  ASSUME RecBase, Scored, MIDIREC_isr, ~ overrun', ~ broken'
  PROVE  Scored'
<1>1. (Num(played) = 0 => Length(sending) = 0)
  BY DEF Scored
<1>2. PICK C, w, T, k, text, P : ScoredAs(C, w, T, k, text, P, sending, running)
  BY DEF Scored
<1>3. PICK u, m : MoreOf(u) \/ NextOf(u, m)
  BY RecSteps
<1>4. /\ arrived \in Nat /\ Timed(played, arrived) /\ Fairly(played)
      /\ Coming(played, sending, arrived)
  BY <1>2 DEF RecBase, ScoredAs, Performed
<1>5. CASE MoreOf(u)
  <2>1. u = sending /\ u \in Seq(Byte) /\ u # <<>> /\ played' = played /\ running' = running
        /\ ((Kept(u[1]) /\ TakesIn(u)) \/ (~ Kept(u[1]) /\ LeavesOut))
    BY <1>5 DEF MoreOf
  <2>2. Length(u) \in Nat \ {0}
    BY <2>1, RestOf
  <2>3. Num(played) # 0
    BY <1>1, <2>1, <2>2
  <2>4. Kept(u[1])
    <3>1. u[1] \in 0 .. 240 \/ u[1] = 247
      BY <1>4, <2>1, <2>2, <2>3, ByteSent
    <3> QED BY <3>1 DEF Kept
  <2>5. TakesIn(u)
    BY <2>1, <2>4
  <2>6. PICK g : g.byte = u[1] /\ g.delta = CutOff(delta_time) /\ write_queue(g)
    BY <2>5 DEF TakesIn
  <2>7. sending' = Tail(u) /\ delta_time' = 0 /\ arrived' = arrived + 1
        /\ UNCHANGED <<phase, writer, time>>
    BY <2>5 DEF TakesIn
  <2>8. Continues(played, sending, running, u, <<>>, played', running')
    BY <2>1, <2>3 DEF Continues
  <2>9. \E D, v, V : ScoredAs(D, v, V, k, text, P, sending, running)'
    BY <1>2, <2>1, <2>6, <2>7, <2>8, ScoredTakes
  <2>10. Num(played') # 0
    BY <2>1, <2>3
  <2> QED BY <2>9, <2>10 DEF Scored
<1>6. CASE NextOf(u, m) /\ LeavesOut /\ sending' = <<>> /\ running' \in {running, 0}
  <2>1. ScoredAs(C, w, T, k, text, P, sending, running)'
    BY <1>2, <1>6, ScoredLeaves DEF NextOf
  <2>2. Length(sending') = 0
    BY <1>6 DEF Length
  <2> QED BY <2>1, <2>2 DEF Scored
<1>7. CASE NextOf(u, m) /\ TakesIn(u)
           /\ Plain(m) /\ (u = m \/ (u = Tail(m) /\ running # 0 /\ Lead(m) = running))
           /\ GrownAt(played, played', m, arrived + Length(u), time)
           /\ running' = IF Lead(m) < 240 THEN Lead(m) ELSE 0
  <2>1. u \in Seq(Byte) /\ u # <<>> /\ sending = <<>>
    BY <1>7 DEF NextOf, TakesIn
  <2>6. PICK g : g.byte = u[1] /\ g.delta = CutOff(delta_time) /\ write_queue(g)
    BY <1>7 DEF TakesIn
  <2>7. sending' = Tail(u) /\ delta_time' = 0 /\ arrived' = arrived + 1
        /\ UNCHANGED <<phase, writer, time>>
    BY <1>7 DEF TakesIn
  <2>8. Commences(played, arrived, sending, running, u, m, time, played', running')
    <3>1. Length(sending) = 0
      BY <2>1 DEF Length
    <3> QED BY <1>7, <3>1 DEF Commences
  <2>9. \E D, v, V : ScoredAs(D, v, V, k, text, P, sending, running)'
    BY <1>2, <2>1, <2>6, <2>7, <2>8, ScoredTakes
  <2>10. Num(played') # 0
    BY <1>7, NumGrows
  <2> QED BY <2>9, <2>10 DEF Scored
<1> QED BY <1>3, <1>5, <1>6, <1>7 DEF NextOf

(* The first byte of all, data. *)
LEMMA DeafBegins ==
  ASSUME RecBase, Silent, NEW u, TakesIn(u), ~ overrun', u[1] < 128
  PROVE  Deaf'
<1>1. arrived = 0 /\ Unread = 0 /\ RingInv /\ phase \in {"waiting", "aborted"}
  BY DEF RecBase, Silent, Blank
<1>2. PICK g : g.byte = u[1] /\ write_queue(g)
  BY DEF TakesIn
<1>3. arrived' = arrived + 1 /\ phase' = phase
  BY DEF TakesIn
<1>4. PICK C : C = [i \in 1 .. 1 |-> g]
  OBVIOUS
<1>5. Carries(C)
  BY <1>1 DEF Carries
<1>6. PICK D : D = [i \in 1 .. arrived + 1 |-> IF i = arrived + 1 THEN g ELSE C[i]]
  OBVIOUS
<1>7. Unread' = Unread + 1 /\ Carries(D)'
  <2>1. arrived \in Nat
    BY <1>1
  <2> QED BY <1>1, <1>2, <1>3, <1>5, <1>6, <2>1, RingTakes
<1>8. D[1] = g
  BY <1>1, <1>6
<1>9. D[1].byte < 128
  BY <1>2, <1>8
<1> QED BY <1>1, <1>3, <1>7, <1>9 DEF Deaf

LEMMA SilentLeaves ==
  ASSUME Silent, LeavesOut, sending' = <<>>
  PROVE  Silent'
<1>1. UNCHANGED <<ring, arrived>> /\ UNCHANGED <<delta_time, played, phase, writer, time>>
  BY DEF LeavesOut
<1>2. Unread' = Unread
  BY <1>1, RingSame
<1> QED BY <1>1, <1>2 DEF Silent, Blank, writer

(* The end of a message that the cable was plugged in in. *)
LEMMA RestSilent ==
  ASSUME Silent, sending # <<>>
  PROVE  /\ sending[1] \in 0 .. 127 \/ (sending[1] = 247 /\ Length(sending) = 1 /\ running = 0)
<1>1. PICK m \in RecMessages : sending = Tail(m) /\ running = StatusLeft(m)
  BY DEF Silent
<1>2. Complete(m) /\ \A i \in 2 .. Length(m) : m[i] < 248
  BY <1>1, RecorderAssumption DEF Length
<1>3. /\ Length(m) \in Nat \ {0} /\ Lead(m) \in 128 .. 255
      /\ \A i \in 1 .. Length(m) : m[i] \in 0 .. 255
      /\ \A i \in 2 .. Length(m) :
           m[i] < 128 \/ (Lead(m) = 240 /\ (m[i] >= 248 \/ (m[i] = 247 /\ i = Length(m))))
  BY <1>2, Legal
<1>4. m \in Seq(Byte) /\ m # <<>>
  BY <1>2 DEF Complete
<1>5. sending \in Seq(Byte)
  BY <1>1, <1>4
<1>6. PICK x : x = sending
  OBVIOUS
<1>7. x \in Seq(Byte) /\ x # <<>>
  BY <1>5, <1>6
<1>8. Length(x) = Length(m) - 1 /\ \A k \in 1 .. Length(x) : x[k] = m[k + 1]
  BY <1>1, <1>4, <1>6, RestOf
<1>9. Length(x) \in Nat \ {0}
  BY <1>7, RestOf
<1>10. x[1] = m[2] /\ 2 \in 2 .. Length(m) /\ 2 \in 1 .. Length(m)
  <2>1. 1 \in 1 .. Length(x)
    BY <1>9
  <2> QED BY <1>3, <1>8, <1>9, <2>1
<1>11. PICK y : y = m[2]
  OBVIOUS
<1>12. y < 248 /\ y \in 0 .. 255
       /\ (y < 128 \/ (Lead(m) = 240 /\ (y >= 248 \/ (y = 247 /\ 2 = Length(m)))))
  BY <1>2, <1>3, <1>10, <1>11
<1>13. y \in 0 .. 127 \/ (Lead(m) = 240 /\ y = 247 /\ 2 = Length(m))
  BY <1>12
<1>14. x[1] = y
  BY <1>10, <1>11
<1>15. CASE y \in 0 .. 127
  BY <1>6, <1>14, <1>15
<1>16. CASE Lead(m) = 240 /\ y = 247 /\ 2 = Length(m)
  <2>1. StatusLeft(m) = 0
    <3>1. StatusLeft(m) = IF Lead(m) < 240 THEN Lead(m) ELSE 0
      BY <1>2, KeptOf
    <3> QED BY <1>16, <3>1
  <2>2. Length(x) = 1
    BY <1>8, <1>16
  <2>3. x[1] = 247
    BY <1>14, <1>16
  <2> QED BY <1>1, <1>6, <2>1, <2>2, <2>3
<1> QED BY <1>13, <1>15, <1>16

LEMMA SilentGoes ==
  ASSUME RecBase, Silent, MIDIREC_isr, ~ overrun', ~ broken'
  PROVE  Silent' \/ Deaf' \/ Scored'
<1>1. Num(played) = 0 /\ Length(<<>>) = 0
  BY DEF Silent, Num, Length
<1>2. PICK u, m : MoreOf(u) \/ NextOf(u, m)
  BY RecSteps
<1>3. CASE MoreOf(u)
  <2>1. u = sending /\ u \in Seq(Byte) /\ u # <<>> /\ played' = played /\ running' = running
        /\ ((Kept(u[1]) /\ TakesIn(u)) \/ (~ Kept(u[1]) /\ LeavesOut))
    BY <1>3 DEF MoreOf
  <2>2. u[1] \in 0 .. 127 \/ (u[1] = 247 /\ Length(u) = 1 /\ running = 0)
    BY <2>1, RestSilent
  <2>3. Kept(u[1])
    BY <2>2 DEF Kept
  <2>4. TakesIn(u)
    BY <2>1, <2>3
  <2>5. CASE u[1] \in 0 .. 127
    <3>1. u[1] < 128
      BY <2>5
    <3> QED BY <2>4, <3>1, DeafBegins
  <2>6. CASE u[1] = 247 /\ Length(u) = 1 /\ running = 0
    <3>1. \A j \in 1 .. Length(u) : u[j] \in Harmless
      <4>1. \A j \in 1 .. Length(u) : j = 1
        BY <2>6
      <4>2. 247 \in Harmless
        BY DEF Harmless
      <4> QED BY <2>6, <4>1, <4>2
    <3>2. PICK C, w, T, k, text, P : ScoredAs(C, w, T, k, text, P, u, 0)
      BY <3>1, SilentScored
    <3>3. PICK g : g.byte = u[1] /\ g.delta = CutOff(delta_time) /\ write_queue(g)
      BY <2>4 DEF TakesIn
    <3>4. sending' = Tail(u) /\ delta_time' = 0 /\ arrived' = arrived + 1
          /\ UNCHANGED <<phase, writer, time>>
      BY <2>4 DEF TakesIn
    <3>5. Continues(played, u, 0, u, <<>>, played', running')
      BY <2>1, <2>6 DEF Continues
    <3>6. \E D, v, V : ScoredAs(D, v, V, k, text, P, sending, running)'
      BY <2>1, <3>2, <3>3, <3>4, <3>5, ScoredTakes
    <3>7. Length(sending') = 0
      <4>1. Length(Tail(u)) = Length(u) - 1
        BY <2>1, RestOf
      <4> QED BY <2>6, <3>4, <4>1
    <3> QED BY <3>6, <3>7 DEF Scored
  <2> QED BY <2>2, <2>5, <2>6
<1>4. CASE NextOf(u, m) /\ LeavesOut /\ sending' = <<>>
  BY <1>4, SilentLeaves
<1>5. CASE NextOf(u, m) /\ TakesIn(u)
           /\ Plain(m) /\ (u = m \/ (u = Tail(m) /\ running # 0 /\ Lead(m) = running))
           /\ GrownAt(played, played', m, arrived + Length(u), time)
           /\ running' = IF Lead(m) < 240 THEN Lead(m) ELSE 0
  <2>1. CASE u = m
    <3>1. \A j \in 1 .. Length(<<>>) : <<>>[j] \in Harmless
      BY <1>1
    <3>2. PICK C, w, T, k, text, P : ScoredAs(C, w, T, k, text, P, <<>>, 0)
      BY <3>1, SilentScored
    <3>3. PICK g : g.byte = u[1] /\ g.delta = CutOff(delta_time) /\ write_queue(g)
      BY <1>5 DEF TakesIn
    <3>4. u \in Seq(Byte) /\ u # <<>>
          /\ sending' = Tail(u) /\ delta_time' = 0 /\ arrived' = arrived + 1
          /\ UNCHANGED <<phase, writer, time>>
      BY <1>5 DEF TakesIn
    <3>5. Commences(played, arrived, <<>>, 0, u, m, time, played', running')
      BY <1>1, <1>5, <2>1 DEF Commences
    <3>6. \E D, v, V : ScoredAs(D, v, V, k, text, P, sending, running)'
      BY <3>2, <3>3, <3>4, <3>5, ScoredTakes
    <3>7. Num(played') # 0
      BY <1>5, NumGrows
    <3> QED BY <3>6, <3>7 DEF Scored
  <2>2. CASE u = Tail(m) /\ running # 0 /\ Lead(m) = running
    <3>1. Complete(m) /\ running \in 0 .. 239
      BY <1>5 DEF Plain, RecBase
    <3>2. Lead(m) < 240
      BY <2>2, <3>1
    <3>3. Tail(m)[1] = m[2] /\ m[2] \in 0 .. 127
      BY <3>1, <3>2, KeptOf, ZenonT(60)
    <3>4. PICK x : x = u[1]
      OBVIOUS
    <3>5. x = m[2]
      BY <2>2, <3>3, <3>4
    <3>6. x \in 0 .. 127
      BY <3>3, <3>5
    <3>7. x < 128
      BY <3>6
    <3> QED BY <1>5, <3>4, <3>7, DeafBegins
  <2> QED BY <1>5, <2>1, <2>2
<1> QED BY <1>2, <1>3, <1>4, <1>5 DEF NextOf

LEMMA RecTakes ==
  ASSUME RecInv, MIDIREC_isr
  PROVE  RecInv'
<1>1. RecBase /\ RecBase'
  BY RecBaseTakes DEF RecInv
<1>2. ASSUME ~ overrun', ~ broken' PROVE Silent' \/ Deaf' \/ Scored'
  <2>1. ~ overrun /\ ~ broken
    <3>1. overrun => overrun'
      BY DEF MIDIREC_isr, write_queue, ring
    <3>2. broken => broken'
      BY DEF MIDIREC_isr
    <3> QED BY <1>2, <3>1, <3>2
  <2>2. Silent \/ Deaf \/ Scored
    BY <2>1 DEF RecInv
  <2> QED BY <1>1, <1>2, <2>2, SilentGoes, DeafTakes, ScoredGoes
<1> QED BY <1>1, <1>2 DEF RecInv

----------------------------------------------------------------------------
(* MIDIREC: the timer, and the main program around its loop.               *)

(* Nothing of the ring, the cable and the parser changes. *)
LEMMA ScoredStays ==
  ASSUME UNCHANGED <<ring, device, status, expect_bytes, accum_delta, sysex_active, sysex_buff>>,
         NEW C, NEW w, NEW T, NEW k, NEW text, NEW P,
         ScoredAs(C, w, T, k, text, P, sending, running),
         T[arrived] + delta_time' = time', Shown(text, arrived - Unread)'
  PROVE  ScoredAs(C, w, T, k, text, P, sending, running)'
<1>1. UNCHANGED <<ring, arrived>> /\ UNCHANGED <<arrived, played, sending, running>>
  BY DEF device
<1>2. /\ Carries(C) /\ Wired(C, w, T, played, arrived) /\ Performed(played, arrived, sending, running, T)
      /\ NotedAt(T, arrived - Unread, k, text, P)
  BY DEF ScoredAs
<1>3. Unread' = Unread /\ Carries(C)'
  BY <1>1, <1>2, RingSame
<1>4. NotedAt(T, arrived - Unread, k, text, P)'
  BY <1>1, <1>2, <1>3 DEF NotedAt
<1> QED BY <1>1, <1>2, <1>3, <1>4 DEF ScoredAs

LEMMA RecBaseStays ==
  ASSUME RecBase, UNCHANGED <<ring, device>>, time' \in Nat, delta_time' \in Nat,
         phase' \in {"waiting", "recording", "stopped", "aborted"}
  PROVE  RecBase'
  BY DEF RecBase, RingInv, ring, device

LEMMA TimeScored ==
  ASSUME RecBase, NEW C, NEW w, NEW T, NEW k, NEW text, NEW P, NEW y, NEW r,
         ScoredAs(C, w, T, k, text, P, y, r)
  PROVE  T[arrived] \in Nat /\ time \in Nat /\ delta_time \in Nat /\ T[arrived] + delta_time = time
         /\ Shown(text, arrived - Unread)
  BY DEF RecBase, ScoredAs, Performed, Sched

LEMMA RecTicks ==
  ASSUME RecInv, delta_update
  PROVE  RecInv'
<1>1. /\ phase = "recording" /\ delta_time' = delta_time + 1 /\ time' = time + 1
      /\ UNCHANGED <<ring, phase, device, writer>>
  BY DEF delta_update
<1>2. RecBase'
  BY <1>1, RecBaseStays DEF RecInv, RecBase
<1>3. ASSUME ~ overrun', ~ broken' PROVE Scored'
  <2>1. ~ overrun /\ ~ broken
    BY <1>1, <1>3 DEF ring, device
  <2>2. Scored
    BY <1>1, <2>1 DEF RecInv, Silent, Blank, Deaf
  <2>3. PICK C, w, T, k, text, P : ScoredAs(C, w, T, k, text, P, sending, running)
    BY <2>2 DEF Scored
  <2>4. T[arrived] \in Nat /\ time \in Nat /\ delta_time \in Nat /\ T[arrived] + delta_time = time
        /\ Shown(text, arrived - Unread)
    BY <2>3, TimeScored DEF RecInv
  <2>5. T[arrived] + delta_time' = time'
    BY <1>1, <2>4
  <2>6. Shown(text, arrived - Unread)'
    BY <1>1, <2>4 DEF Shown, writer
  <2>7. ScoredAs(C, w, T, k, text, P, sending, running)'
    BY <1>1, <2>3, <2>5, <2>6, ScoredStays DEF writer
  <2>8. Num(played') = 0 => Length(sending') = 0
    BY <1>1, <2>2 DEF Scored, device
  <2> QED BY <2>7, <2>8 DEF Scored
<1> QED BY <1>2, <1>3 DEF RecInv

LEMMA RecBegins ==
  ASSUME RecInv, begin
  PROVE  RecInv'
<1>1. /\ phase = "waiting" /\ check_queue /\ event_type(watch_queue.byte) # 0
      /\ phase' = "recording" /\ delta_time' = 0 /\ time' = time /\ out' = MIDI_header
      /\ UNCHANGED <<ring, device, status, expect_bytes, accum_delta, sysex_active, sysex_buff>>
  BY DEF begin
<1>2. RecBase
  BY DEF RecInv
<1>3. RecBase'
  BY <1>1, <1>2, RecBaseStays DEF RecBase
<1>4. /\ Unread # 0 /\ tail \in 0 .. QLEN - 1 /\ QLEN \in Nat \ {0, 1}
      /\ Slot(0) = tail
  <2>1. RingInv
    BY <1>2 DEF RecBase
  <2>2. QLEN \in Nat \ {0, 1} /\ head \in 0 .. QLEN - 1 /\ tail \in 0 .. QLEN - 1 /\ head # tail
    BY <1>1, <2>1, RingAssumption DEF RingInv, check_queue
  <2>3. Unread = IF tail <= head THEN head - tail ELSE head - tail + QLEN
    BY <2>1, UnreadIs
  <2>4. Slot(0) = tail
    <3>1. \A j \in 0 .. QLEN - 1 : Slot(j) = IF tail + j < QLEN THEN tail + j ELSE tail + j - QLEN
      BY <2>1, UnreadIs
    <3>2. 0 \in 0 .. QLEN - 1
      BY <2>2
    <3>3. Slot(0) = IF tail + 0 < QLEN THEN tail + 0 ELSE tail + 0 - QLEN
      BY <3>1, <3>2
    <3> QED BY <2>2, <3>3
  <2> QED BY <2>2, <2>3, <2>4
<1>5. ASSUME ~ overrun', ~ broken' PROVE Scored'
  <2>1. ~ overrun /\ ~ broken
    BY <1>1, <1>5 DEF ring, device
  <2>2. ~ Silent
    BY <1>4 DEF Silent
  <2>3. ~ Deaf
    <3>1. SUFFICES ASSUME Deaf PROVE FALSE
      OBVIOUS
    <3>2. PICK C : Carries(C) /\ C[1].byte < 128
      BY <3>1 DEF Deaf
    <3>3. arrived \in Nat \ {0} /\ Unread = arrived
      BY <3>1 DEF Deaf
    <3>4. queue[Slot(0)] = C[1]
      <4>1. 0 \in 0 .. Unread - 1 /\ arrived - Unread + 1 + 0 = 1
        BY <3>3
      <4>2. queue[Slot(0)] = C[arrived - Unread + 1 + 0]
        BY <3>2, <4>1 DEF Carries
      <4> QED BY <4>1, <4>2
    <3>5. watch_queue = C[1]
      BY <1>4, <3>4 DEF watch_queue
    <3>6. event_type(C[1].byte) = 0
      BY <3>2 DEF event_type
    <3> QED BY <1>1, <3>5, <3>6
  <2>4. Scored
    BY <2>1, <2>2, <2>3 DEF RecInv
  <2>5. PICK C, w, T, k, text, P : ScoredAs(C, w, T, k, text, P, sending, running)
    BY <2>4 DEF Scored
  <2>6. T[arrived] \in Nat /\ time \in Nat /\ delta_time \in Nat /\ T[arrived] + delta_time = time
        /\ Shown(text, arrived - Unread)
    BY <1>2, <2>5, TimeScored
  <2>7. time = 0 /\ text = MIDI_header
    BY <1>1, <2>6 DEF Shown
  <2>8. T[arrived] + delta_time' = time'
    BY <1>1, <2>6, <2>7
  <2>9. Shown(text, arrived - Unread)'
    BY <1>1, <2>7 DEF Shown
  <2>10. ScoredAs(C, w, T, k, text, P, sending, running)'
    BY <1>1, <2>5, <2>8, <2>9, ScoredStays
  <2>11. Num(played') = 0 => Length(sending') = 0
    BY <1>1, <2>4 DEF Scored, device
  <2> QED BY <2>10, <2>11 DEF Scored
<1> QED BY <1>3, <1>5 DEF RecInv

LEMMA RecEnds ==
  ASSUME RecInv, abort \/ stop
  PROVE  RecInv'
<1>1. /\ time' = time /\ delta_time' = delta_time
      /\ UNCHANGED <<ring, device, status, expect_bytes, accum_delta, sysex_active, sysex_buff>>
      /\ \/ phase = "waiting" /\ phase' = "aborted" /\ out' = out
         \/ phase = "recording" /\ phase' = "stopped" /\ out' = out \o EndOfTrack
  BY DEF abort, stop, writer
<1>2. RecBase
  BY DEF RecInv
<1>3. RecBase'
  BY <1>1, <1>2, RecBaseStays DEF RecBase
<1>4. UNCHANGED <<ring, arrived>> /\ UNCHANGED <<sending, running, arrived, played>>
  BY <1>1 DEF device
<1>5. ASSUME Silent PROVE Silent'
  BY <1>1, <1>4, <1>5, RingSame DEF Silent, Blank
<1>6. ASSUME Deaf PROVE Deaf'
  <2>1. PICK C : Carries(C) /\ C[1].byte < 128
    BY <1>6 DEF Deaf
  <2> QED BY <1>1, <1>4, <1>6, <2>1, RingSame DEF Deaf
<1>7. ASSUME Scored PROVE Scored'
  <2>1. PICK C, w, T, k, text, P : ScoredAs(C, w, T, k, text, P, sending, running)
    BY <1>7 DEF Scored
  <2>2. T[arrived] + delta_time' = time' /\ Shown(text, arrived - Unread)
    BY <1>1, <1>2, <2>1, TimeScored
  <2>3. arrived' - Unread' = arrived - Unread
    BY <1>4, RingSame
  <2>4. Shown(text, arrived - Unread)'
    BY <1>1, <2>2, <2>3 DEF Shown
  <2>5. ScoredAs(C, w, T, k, text, P, sending, running)'
    BY <1>1, <2>1, <2>2, <2>4, ScoredStays
  <2>6. Num(played') = 0 => Length(sending') = 0
    BY <1>4, <1>7 DEF Scored
  <2> QED BY <2>5, <2>6 DEF Scored
<1>8. (overrun' <=> overrun) /\ (broken' <=> broken)
  BY <1>1 DEF ring, device
<1> QED BY <1>3, <1>5, <1>6, <1>7, <1>8 DEF RecInv

----------------------------------------------------------------------------
(* MIDIREC: a turn of the main loop.                                       *)

LEMMA ByteHandled ==
  ASSUME NEW n \in Nat, NEW y, Length(y) \in Nat, NEW r, NEW T, Performed(played, n, y, r, T),
         NEW C, NEW w, Wired(C, w, T, played, n), NEW t \in 0 .. n - 1, NEW k, NEW P,
         NotedAt(T, t, k, out, P), NEW b, b = C[t + 1].byte, NEW d, d = C[t + 1].delta,
         NEW total, total = CutOff(accum_delta + d), Handling(b, total), UNCHANGED played
  PROVE  \E j, Q : NotedAt(T, t + 1, j, out, Q)'
<1>1. /\ Timed(played, n) /\ Coming(played, y, n) /\ Sched(played, T, n) /\ Fairly(played)
  BY DEF Performed
<1>2. Heeds(played, Num(played)) /\ \A i \in 1 .. Num(played) : Plain(Msg(played, i))
  BY <1>1, HeedsAll
<1>3. t + 1 \in 1 .. n /\ (t + 1) - 1 = t /\ t \in Nat
  OBVIOUS
<1>4. b = w[t + 1] /\ d = CutOff(T[t + 1] - T[t])
  BY <1>3 DEF Wired, OnRing
<1>5. Reached(played, k, t) /\ Counting(played, T, k, t, accum_delta)
  BY DEF NotedAt, Noted
<1>6. Counting(played, T, k, t + 1, total)
  BY <1>1, <1>4, <1>5, TotalIs
<1>7. Num(played) \in Nat /\ k \in 0 .. Num(played) /\ k \in Nat
  BY <1>1, <1>5 DEF Timed, Reached
<1>8. \/ k = 0 /\ (Num(played) = 0 \/ t + 1 <= Begun(played, 1)) /\ Reached(played, 0, t + 1)
      \/ /\ k < Num(played) /\ t = Begun(played, k + 1) /\ (k = 0 \/ t = End(played, k))
         /\ Reached(played, k + 1, t + 1)
      \/ /\ k # 0 /\ Begun(played, k) < t /\ t < End(played, k) /\ Reached(played, k, t + 1)
  BY <1>1, <1>5, ReachedNext
<1>9. CASE k = 0 /\ (Num(played) = 0 \/ t + 1 <= Begun(played, 1)) /\ Reached(played, 0, t + 1)
  <2>1. b = 247
    BY <1>3, <1>4, <1>9 DEF Wired, Tailed
  <2>2. NotedAt(T, t, 0, out, P) /\ Counting(played, T, 0, t + 1, total) /\ Handling(247, total)
    BY <1>6, <1>9, <2>1
  <2>3. NotedAt(T, t + 1, 0, out, P)'
    BY <1>3, <1>9, <2>2, TurnOver
  <2> QED BY <2>3
<1>10. CASE /\ k < Num(played) /\ t = Begun(played, k + 1) /\ (k = 0 \/ t = End(played, k))
            /\ Reached(played, k + 1, t + 1)
  <2>1. k + 1 \in 1 .. Num(played)
    BY <1>7, <1>10
  <2>2. Begun(played, k + 1) < t + 1 /\ t + 1 <= End(played, k + 1)
    <3>1. k + 1 # 0
      BY <1>7
    <3> QED BY <1>10, <3>1 DEF Reached
  <2>3. b = ByteOf(played, k + 1, t + 1)
    BY <1>3, <1>4, <2>1, <2>2 DEF Wired, OnWire
  <2>4. b \in Byte
    <3>1. b = Lead(Msg(played, k + 1)) \/ b \in 0 .. 127
      BY <1>1, <1>2, <1>7, <1>10, <2>1, <2>3, FirstByte
    <3>2. Lead(Msg(played, k + 1)) \in 128 .. 240
      BY <1>2, <2>1, PlainIs
    <3>3. b \in 128 .. 240 \/ b \in 0 .. 127
      BY <3>1, <3>2
    <3> QED BY <3>3 DEF Byte
  <2>5. \E Q : NotedAt(T, t + 1, k + 1, out, Q)'
    BY <1>1, <1>2, <1>3, <1>6, <1>7, <1>10, <2>3, <2>4, HandledBegins
  <2> QED BY <2>5
<1>11. CASE /\ k # 0 /\ Begun(played, k) < t /\ t < End(played, k) /\ Reached(played, k, t + 1)
  <2>1. k \in 1 .. Num(played)
    BY <1>7, <1>11
  <2>2. Begun(played, k) < t + 1 /\ t + 1 <= End(played, k)
    BY <1>11 DEF Reached
  <2>3. b = ByteOf(played, k, t + 1)
    BY <1>3, <1>4, <2>1, <2>2 DEF Wired, OnWire
  <2>4. \E Q : NotedAt(T, t + 1, k, out, Q)'
    BY <1>1, <1>2, <1>3, <1>6, <1>7, <1>11, <2>3, HandledGoes
  <2> QED BY <2>4
<1> QED BY <1>8, <1>9, <1>10, <1>11

LEMMA RecWrites ==
  ASSUME RecInv, record_byte
  PROVE  RecInv'
<1> DEFINE total == CutOff(accum_delta + watch_queue.delta)
           b == watch_queue.byte
<1>1. /\ phase = "recording" /\ NextByte /\ Handling(b, total)
      /\ UNCHANGED <<phase, delta_time, device, time>>
  BY DEF record_byte, NextByte, Handling
<1> HIDE DEF total, b
<1>2. RecBase /\ RingInv /\ arrived \in Nat
  BY DEF RecInv, RecBase
<1>3. UNCHANGED <<sending, running, arrived, played, broken>>
  BY <1>1 DEF device
<1>4. RingInv' /\ overrun' = overrun
  BY <1>1, <1>2, RingKept
<1>5. RecBase'
  BY <1>1, <1>2, <1>3, <1>4 DEF RecBase
<1>6. ASSUME ~ overrun', ~ broken' PROVE Scored'
  <2>1. Scored
    BY <1>1, <1>3, <1>4, <1>6 DEF RecInv, Silent, Blank, Deaf
  <2>2. PICK C, w, T, k, text, P : ScoredAs(C, w, T, k, text, P, sending, running)
    BY <2>1 DEF Scored
  <2>3. PICK n : n = arrived
    OBVIOUS
  <2>4. PICK t : t = arrived - Unread
    OBVIOUS
  <2>5. /\ Carries(C) /\ Wired(C, w, T, played, n) /\ Performed(played, n, sending, running, T)
        /\ T[arrived] + delta_time = time
        /\ NotedAt(T, t, k, text, P) /\ Shown(text, t)
    BY <2>2, <2>3, <2>4 DEF ScoredAs
  <2>6. /\ Unread' = Unread - 1 /\ Carries(C)' /\ Unread \in 1 .. arrived
        /\ watch_queue = C[arrived - Unread + 1]
    BY <1>1, <1>2, <1>3, <2>5, RingGives
  <2>7. n \in Nat /\ t \in 0 .. n - 1 /\ arrived' - Unread' = t + 1
    BY <1>2, <1>3, <2>3, <2>4, <2>6
  <2>8. watch_queue = C[t + 1]
    BY <2>4, <2>6
  <2>9. text = out
    BY <1>1, <2>5 DEF Shown
  <2>10. b = C[t + 1].byte /\ total = CutOff(accum_delta + C[t + 1].delta)
    BY <2>8 DEF b, total
  <2>11. Length(sending) \in Nat
    BY <1>2 DEF RecBase, Length
  <2>12. NotedAt(T, t, k, out, P)
    BY <2>5, <2>9
  <2>13. PICK d : d = C[t + 1].delta
    OBVIOUS
  <2>14. total = CutOff(accum_delta + d)
    BY <2>10, <2>13
  <2>15. Wired(C, w, T, played, n) /\ Performed(played, n, sending, running, T)
    BY <2>5
  <2>16. PICK j, Q : NotedAt(T, t + 1, j, out, Q)'
    BY <1>1, <1>3, <2>7, <2>10, <2>11, <2>12, <2>13, <2>14, <2>15, ByteHandled
  <2>17. Shown(out, arrived - Unread)'
    BY <1>1 DEF Shown
  <2>18. NotedAt(T, arrived - Unread, j, out, Q)'
    BY <2>7, <2>16
  <2>19. /\ Wired(C, w, T, played, arrived)' /\ Performed(played, arrived, sending, running, T)'
         /\ T[arrived'] + delta_time' = time'
    BY <1>1, <1>3, <2>3, <2>5
  <2>20. ScoredAs(C, w, T, j, out, Q, sending, running)'
    BY <2>6, <2>17, <2>18, <2>19 DEF ScoredAs
  <2>21. Num(played') = 0 => Length(sending') = 0
    BY <1>3, <2>1 DEF Scored
  <2> QED BY <2>20, <2>21 DEF Scored
<1> QED BY <1>5, <1>6 DEF RecInv

----------------------------------------------------------------------------
(* MIDIREC: the recording.                                                 *)

(* Between two messages. *)
LEMMA MessageDone ==
  ASSUME NEW pl, NEW n \in Nat, Timed(pl, n), NEW k, NEW t, Reached(pl, k, t),
         NEW st, NEW sb, NEW sa, ~ sa, Standing(pl, k, t, st, 0, sa, sb)
  PROVE  k = 0 \/ t = End(pl, k)
<1> SUFFICES ASSUME k # 0 PROVE t = End(pl, k)
  OBVIOUS
<1>1. k \in 1 .. Num(pl) /\ t \in Nat
  BY DEF Reached, Timed
<1>2. Complete(Msg(pl, k)) /\ End(pl, k) \in Nat
  BY <1>1 DEF Timed
<1>3. Length(Msg(pl, k)) \in Nat
  BY <1>2, Legal
<1> PICK q : q = Place(pl, k, t)
  OBVIOUS
<1>4. q = Length(Msg(pl, k)) - (End(pl, k) - t)
  BY DEF Place
<1>5. Keeps(Msg(pl, k), q, st, 0, sa, sb)
  BY DEF Standing
<1>6. q = Length(Msg(pl, k)) \/ 0 = Length(Msg(pl, k)) - q
  BY <1>5 DEF Keeps, Within240
<1> QED BY <1>1, <1>2, <1>3, <1>4, <1>6

(* The messages that were read are the first k. *)
LEMMA ReadFirst ==
  ASSUME NEW pl, NEW n \in Nat, Timed(pl, n), NEW k, NEW t, Reached(pl, k, t),
         k = 0 \/ t = End(pl, k), NEW i \in 1 .. Num(pl)
  PROVE  End(pl, i) <= t <=> i <= k
<1>1. Num(pl) \in Nat /\ k \in 0 .. Num(pl) /\ t \in Nat
  BY DEF Reached, Timed
<1>2. \A j \in 1 .. Num(pl) : End(pl, j) \in Nat /\ Begun(pl, j) \in Nat /\ Begun(pl, j) < End(pl, j)
  BY DEF Timed
<1>3. \A j \in 1 .. Num(pl) : \A h \in 1 .. j - 1 : End(pl, h) <= Begun(pl, j)
  BY DEF Timed
<1>4. CASE i <= k
  <2>1. k \in 1 .. Num(pl) /\ t = End(pl, k)
    BY <1>1, <1>4
  <2>2. CASE i = k
    BY <1>1, <1>4, <2>1, <2>2
  <2>3. CASE i # k
    <3>1. i \in 1 .. k - 1
      BY <1>1, <1>4, <2>3
    <3>2. End(pl, i) <= Begun(pl, k)
      BY <1>3, <2>1, <3>1
    <3>3. Begun(pl, k) < End(pl, k) /\ Begun(pl, k) \in Nat /\ End(pl, k) \in Nat /\ End(pl, i) \in Nat
      BY <1>2, <2>1
    <3>4. End(pl, i) <= t
      BY <2>1, <3>2, <3>3
    <3> QED BY <1>4, <3>4
  <2> QED BY <2>2, <2>3
<1>5. CASE ~ (i <= k)
  <2>1. k + 1 \in 1 .. Num(pl) /\ k < Num(pl)
    BY <1>1, <1>5
  <2>2. t <= Begun(pl, k + 1)
    BY <2>1 DEF Reached
  <2>3. Begun(pl, k + 1) < End(pl, k + 1) /\ Begun(pl, k + 1) \in Nat /\ End(pl, k + 1) \in Nat
    BY <1>2, <2>1
  <2>4. End(pl, i) \in Nat /\ Begun(pl, i) \in Nat /\ Begun(pl, i) < End(pl, i)
    BY <1>2
  <2>5. i = k + 1 \/ k + 1 \in 1 .. i - 1
    BY <1>1, <1>5, <2>1
  <2>6. t < End(pl, i)
    <3>1. CASE i = k + 1
      BY <1>1, <2>2, <2>3, <3>1
    <3>2. CASE k + 1 \in 1 .. i - 1
      <4>1. End(pl, k + 1) <= Begun(pl, i)
        BY <1>3, <3>2
      <4> QED BY <1>1, <2>2, <2>3, <2>4, <4>1
    <3> QED BY <2>5, <3>1, <3>2
  <2> QED BY <1>1, <1>5, <2>4, <2>6
<1> QED BY <1>4, <1>5

LEMMA ScoreIs ==
  ASSUME RecBase, NEW n, n = arrived, Timed(played, n), NEW t, t = arrived - Unread,
         NEW k, Reached(played, k, t), k = 0 \/ t = End(played, k)
  PROVE  Score = Told(played, k)
<1>1. RingInv /\ n \in Nat /\ played \in RecPlays
  BY DEF RecBase
<1>2. arrived - Len(Pending) = t
  BY <1>1, UnreadIs
<1>3. Num(played) \in Nat /\ k \in 0 .. Num(played) /\ DOMAIN played = 1 .. Num(played)
  BY <1>1 DEF RecPlays, Num, Reached
<1>4. Heard = {i \in 1 .. Num(played) : End(played, i) <= t}
  BY <1>2, <1>3 DEF Heard, End
<1>5. \A i \in 1 .. Num(played) : End(played, i) <= t <=> i <= k
  BY <1>1, ReadFirst
<1>6. Heard = 1 .. k
  BY <1>3, <1>4, <1>5
<1>7. \A i \in 1 .. k :
        [delta |-> CutOff(played[i].at - (IF i = 1 THEN 0 ELSE played[i - 1].at)),
         bytes |-> AsEvent(played[i].bytes)]
        = [delta |-> Gap(played, i), bytes |-> AsEvent(Msg(played, i))]
  BY DEF Gap, When, Msg
<1> QED BY <1>6, <1>7 DEF Score, Told

(* The text of the file, and the track read back. *)
LEMMA SongTold ==
  ASSUME NEW pl, NEW n \in Nat, Timed(pl, n), Fairly(pl), NEW k, NEW t, Reached(pl, k, t),
         k = 0 \/ t = End(pl, k), NEW text, NEW P, Recorded(text, pl, k, t, P),
         NEW b, b = text \o EndOfTrack
  PROVE  SubSeq(EventsOf(b, 1, 0), 3, Len(EventsOf(b, 1, 0)) - 1) = Told(pl, k)
<1>1. k \in 0 .. Num(pl)
  BY DEF Reached
<1>2. /\ Buffer(text) /\ Headed(text) /\ P[1] = 16 /\ P[k + 1] = Length(text) + 1
      /\ \A i \in 1 .. k : Piece(text, pl, i, P[i], IF i < k THEN End(pl, i) ELSE t, P[i + 1])
  BY DEF Recorded
<1>3. \A i \in 1 .. k : Piece(text, pl, i, P[i], End(pl, i), P[i + 1])
  <2> SUFFICES ASSUME NEW i \in 1 .. k PROVE Piece(text, pl, i, P[i], End(pl, i), P[i + 1])
    OBVIOUS
  <2>1. (IF i < k THEN End(pl, i) ELSE t) = End(pl, i)
    <3>1. i < k \/ i = k
      BY <1>1 DEF Timed
    <3> QED BY <3>1
  <2> QED BY <1>2, <2>1
<1>4. Length(text) \in Nat
  BY <1>2 DEF Buffer, Length
<1>5. Song(text, pl, k, P)
  BY <1>2, <1>3, <1>4 DEF Song
<1>6. Closes(b, text)
  BY <1>2, TrackEnded
<1> QED BY <1>1, <1>5, <1>6, TrackRead

LEMMA WholeTold ==
  ASSUME RecInv
  PROVE  RecordedAsPlayed
<1> SUFFICES ASSUME Whole, ~ overrun, ~ broken PROVE TrackEvents = Score
  BY DEF RecordedAsPlayed
<1>1. phase \in {"recording", "stopped"} /\ expect_bytes = 0 /\ ~ sysex_active
  BY DEF Whole
<1>2. RecBase /\ Scored
  BY <1>1 DEF RecInv, Silent, Blank, Deaf
<1>3. PICK C, w, T, k, text, P : ScoredAs(C, w, T, k, text, P, sending, running)
  BY <1>2 DEF Scored
<1>4. PICK n : n = arrived
  OBVIOUS
<1>5. PICK t : t = arrived - Unread
  OBVIOUS
<1>6. /\ Performed(played, n, sending, running, T) /\ NotedAt(T, t, k, text, P) /\ Shown(text, t)
      /\ n \in Nat
  BY <1>2, <1>3, <1>4, <1>5 DEF ScoredAs, RecBase
<1>7. Timed(played, n) /\ Fairly(played)
  BY <1>6 DEF Performed
<1>8. /\ Reached(played, k, t) /\ Recorded(text, played, k, t, P)
      /\ Standing(played, k, t, status, 0, sysex_active, sysex_buff)
  BY <1>1, <1>6 DEF NotedAt, Noted
<1>9. k = 0 \/ t = End(played, k)
  BY <1>1, <1>6, <1>7, <1>8, MessageDone
<1>10. Score = Told(played, k)
  BY <1>2, <1>4, <1>5, <1>7, <1>8, <1>9, ScoreIs
<1>11. PICK b : b = text \o EndOfTrack
  OBVIOUS
<1>12. SubSeq(EventsOf(b, 1, 0), 3, Len(EventsOf(b, 1, 0)) - 1) = Told(played, k)
  BY <1>6, <1>7, <1>8, <1>9, <1>11, SongTold
<1>13. (IF phase = "stopped" THEN out ELSE out \o EndOfTrack) = b
  BY <1>1, <1>6, <1>11 DEF Shown
<1>14. TrackEvents = SubSeq(EventsOf(b, 1, 0), 3, Len(EventsOf(b, 1, 0)) - 1)
  BY <1>13 DEF TrackEvents
<1> QED BY <1>10, <1>12, <1>14

LEMMA RecPlugs ==
  ASSUME Init, tool = "MIDIREC"
  PROVE  RecInv
<1>1. /\ queue = [i \in 0 .. QLEN - 1 |-> Unwritten] /\ head = 0 /\ tail = 0
      /\ phase = "waiting" /\ delta_time = 0 /\ time = 0
      /\ expect_bytes = 0 /\ ~ sysex_active /\ sysex_buff = <<>> /\ accum_delta = 0
  BY DEF Init, RecInit, init_queue
<1>2. RecPlugged
  BY DEF Init
<1>3. /\ arrived = 0 /\ played = <<>> /\ sending \in {<<>>} \cup {Tail(m) : m \in RecMessages}
      /\ IF sending = <<>> THEN running \in {0} \cup {StatusLeft(m) : m \in RecMessages}
         ELSE \E m \in RecMessages : sending = Tail(m) /\ running = StatusLeft(m)
  BY <1>2 DEF RecPlugged, Plugged
<1>4. \A m \in RecMessages : Complete(m) /\ m \in Seq(Byte) /\ m # <<>>
  BY RecorderAssumption DEF Complete
<1>5. \A m \in RecMessages : StatusLeft(m) \in 0 .. 239
  <2> SUFFICES ASSUME NEW m \in RecMessages PROVE StatusLeft(m) \in 0 .. 239
    OBVIOUS
  <2>1. StatusLeft(m) = (IF Lead(m) < 240 THEN Lead(m) ELSE 0) /\ Lead(m) \in 128 .. 255
    BY <1>4, KeptOf
  <2> QED BY <2>1
<1>6. sending \in Seq(Byte) /\ running \in 0 .. 239
  <2>1. CASE sending = <<>>
    <3>1. sending \in Seq(Byte)
      BY <2>1
    <3>2. running \in 0 .. 239
      <4>1. running = 0 \/ \E m \in RecMessages : running = StatusLeft(m)
        BY <1>3, <2>1
      <4> QED BY <1>5, <4>1
    <3> QED BY <3>1, <3>2
  <2>2. CASE sending # <<>>
    <3>1. PICK m \in RecMessages : sending = Tail(m) /\ running = StatusLeft(m)
      BY <1>3, <2>2
    <3>2. Tail(m) \in Seq(Byte)
      BY <1>4
    <3> QED BY <1>5, <3>1, <3>2
  <2> QED BY <2>1, <2>2
<1>7. RingInv
  BY <1>1, RingAssumption DEF RingInv
<1>8. Unread = 0
  BY <1>1, <1>7, UnreadIs
<1>9. played \in RecPlays
  BY <1>3 DEF RecPlays
<1>10. RecBase
  BY <1>1, <1>3, <1>6, <1>7, <1>9 DEF RecBase
<1>11. Silent
  BY <1>1, <1>3, <1>8 DEF Silent, Blank
<1> QED BY <1>10, <1>11 DEF RecInv

(* What MIDIREC keeps; nothing is recorded while another tool runs. *)
TapeInv == IF tool = "MIDIREC" THEN RecInv ELSE phase = "waiting"

LEMMA TapeStep ==
  ASSUME TapeInv, [Next]_toolvars
  PROVE  TapeInv'
<1>1. CASE Recording /\ (MIDIREC_isr \/ delta_update \/ begin \/ abort \/ record_byte \/ stop)
  <2>1. tool = "MIDIREC" /\ tool' = tool /\ RecInv
    BY <1>1 DEF Recording, TapeInv
  <2>2. RecInv'
    BY <1>1, <2>1, RecTakes, RecTicks, RecBegins, RecEnds, RecWrites
  <2> QED BY <2>1, <2>2 DEF TapeInv
<1>2. CASE tool = "MIDIREC" /\ UNCHANGED <<tool, cable, recvars>>
  <2>1. RecInv'
    BY <1>2 DEF TapeInv, RecInv, RecBase, Silent, Blank, Deaf, Scored, ScoredAs, NotedAt, Shown,
                Carries, Slot, Unread, RingInv, cable, recvars, writer, ring, device
  <2> QED BY <1>2, <2>1 DEF TapeInv
<1>3. CASE tool # "MIDIREC" /\ UNCHANGED <<tool, recvars>>
  BY <1>3 DEF TapeInv, recvars
<1>4. CASE UNCHANGED toolvars
  BY <1>2, <1>3, <1>4 DEF toolvars
<1> QED BY <1>1, <1>2, <1>3, <1>4 DEF Next, Recording, Filtering, Echoing, Compiling

(* Every recording of MIDIREC, however the bytes arrive while its loop     *)
(* runs, has the messages that were read from the ring, whole, in order    *)
(* and with the time between them, unless the ring was full or a message   *)
(* came that it does not take as it is (MIDIREC.C 172-226, 375-432).       *)
THEOREM RecordedAsPlayedAlways == Spec => []RecordedAsPlayed
<1>1. Init => TapeInv
  BY RecPlugs DEF TapeInv, Init, RecInit
<1>2. TapeInv /\ [Next]_toolvars => TapeInv'
  BY TapeStep
<1>3. TapeInv => RecordedAsPlayed
  <2>1. tool # "MIDIREC" /\ TapeInv => ~ Whole
    BY DEF TapeInv, Whole
  <2> QED BY <2>1, WholeTold DEF TapeInv, RecordedAsPlayed
<1> QED BY <1>1, <1>2, <1>3, PTL DEF Spec
=============================================================================
