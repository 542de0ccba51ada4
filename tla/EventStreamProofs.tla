------------------------- MODULE EventStreamProofs -------------------------
(***************************************************************************)
(* Proofs about the event loop, for all songs that have the shape of a     *)
(* song, every depth of the loop stack and every number of calls.          *)
(*                                                                         *)
(* Aligned is not inductive: that the pointer is at an event says nothing  *)
(* about three bytes on.  IInv adds that a callback does not return at the *)
(* end of the track, and the types.  The meter has an invariant of its     *)
(* own, which no other part of the state enters.  PlaysUnrolled needs a    *)
(* third: HeardInv says what is still to come, in terms of the text at the *)
(* pointer and of a tail for every loop in use.                            *)
(***************************************************************************)
EXTENDS EventStream, SequenceTheorems, WellFoundedInduction, TLAPS

----------------------------------------------------------------------------
(* Numbers. *)

(* A set of numbers that is not empty has a least member. *)
LEMMA LowestMember ==
  ASSUME NEW T \in SUBSET Nat, T # {}
  PROVE  \E m \in T : \A n \in T : m <= n
<1> DEFINE R == {ss \in Nat \X Nat : ss[1] < ss[2]}
<1>1. IsWellFoundedOn(R, Nat)
  BY NatLessThanWellFounded DEF OpToRel
<1>2. PICK m \in T : \A n \in T : ~ (<<n, m>> \in R)
  <2> HIDE DEF R
  <2> QED BY <1>1, WFMin
<1>3. \A n \in T : ~ (n < m)
  BY <1>2
<1> QED BY <1>3

(* Sets of numbers that hold 0, and with each number the next, hold all.   *)
LEMMA Upwards ==
  ASSUME NEW N \in Nat, NEW G, 0 \in G, \A n \in 0 .. N - 1 : n \in G => n + 1 \in G
  PROVE  0 .. N \subseteq G
<1> DEFINE rest == {n \in 0 .. N : n \notin G}
<1>1. SUFFICES ASSUME rest # {} PROVE FALSE
  OBVIOUS
<1>2. PICK m \in rest : \A n \in rest : m <= n
  <2>1. rest \in SUBSET Nat
    OBVIOUS
  <2> HIDE DEF rest
  <2> QED BY <1>1, <2>1, LowestMember
<1>3. m \in 0 .. N /\ m \notin G /\ m # 0
  BY <1>2
<1>4. m - 1 \in 0 .. N - 1 /\ m - 1 \notin rest
  BY <1>2, <1>3
<1>5. m - 1 \in G
  BY <1>4
<1> QED BY <1>3, <1>4, <1>5

(* A loop of N steps over a set X that every step stays in. *)
Loops(X, x, N, F, f) ==
  /\ f \in [0 .. N -> X]
  /\ f[0] = x
  /\ \A n \in 0 .. N - 1 : f[n + 1] = F[n][f[n]]
LEMMA LoopDefined ==
  ASSUME NEW X, NEW x \in X, NEW N \in Nat, NEW F \in [0 .. N - 1 -> [X -> X]]
  PROVE  \E f : Loops(X, x, N, F, f)
<1> DEFINE Upto(f, n) ==
             f \in [0 .. n -> X] /\ f[0] = x /\ \A k \in 0 .. n - 1 : f[k + 1] = F[k][f[k]]
           G == {n \in 0 .. N : \E f : Upto(f, n)}
<1>1. 0 \in G
  <2> DEFINE h == [n \in 0 .. 0 |-> x]
  <2>1. h \in [0 .. 0 -> X] /\ h[0] = x
    OBVIOUS
  <2> HIDE DEF h
  <2>2. 0 .. 0 - 1 = {}
    OBVIOUS
  <2>3. Upto(h, 0)
    BY <2>1, <2>2
  <2> QED BY <2>3
<1>2. ASSUME NEW n \in 0 .. N - 1, n \in G PROVE n + 1 \in G
  <2>1. PICK f : Upto(f, n)
    BY <1>2
  <2> DEFINE y == F[n][f[n]]
             g == [k \in 0 .. n + 1 |-> IF k = n + 1 THEN y ELSE f[k]]
  <2>2. n \in Nat /\ n + 1 \in 0 .. N /\ f[n] \in X /\ y \in X
    BY <2>1
  <2>3. g \in [0 .. n + 1 -> X]
    BY <2>1, <2>2
  <2>4. g[0] = x /\ g[n + 1] = y /\ \A k \in 0 .. n : g[k] = f[k]
    BY <2>1, <2>2
  <2> HIDE DEF g
  <2>5. ASSUME NEW k \in 0 .. n PROVE g[k + 1] = F[k][g[k]]
    <3>1. CASE k = n
      BY <2>4, <3>1
    <3>2. CASE k # n
      <4>1. k \in 0 .. n - 1 /\ k + 1 \in 0 .. n
        BY <2>2, <3>2
      <4> QED BY <2>1, <2>4, <4>1
    <3> QED BY <3>1, <3>2
  <2>6. Upto(g, n + 1)
    BY <2>2, <2>3, <2>4, <2>5
  <2> QED BY <2>2, <2>6
<1>3. 0 .. N \subseteq G
  <2> HIDE DEF G
  <2> QED BY <1>1, <1>2, Upwards
<1>4. N \in G
  <2> HIDE DEF G
  <2> QED BY <1>3
<1>5. PICK f : Upto(f, N)
  BY <1>4
<1> QED BY <1>5 DEF Loops

----------------------------------------------------------------------------
(* Songs. *)

(* A cell of another kind than "interval" begins an event. *)
LEMMA EventsStart ==
  ASSUME NEW s \in Songs, NEW p \in DOMAIN s.cell, s.cell[p].kind # "interval"
  PROVE  p \in s.starts
  BY StreamAssumption DEF StreamAssumption, Song

(* Behind an event that does not end the track there is another. *)
LEMMA EventFollows ==
  ASSUME NEW s \in Songs, NEW p \in s.starts
  PROVE  /\ p \in DOMAIN s.cell
         /\ s.cell[p].size \in Nat \ {0}
         /\ s.cell[p].kind # "end" => p + s.cell[p].size \in s.starts
         /\ s.cell[p].kind \in {"for", "next", "callback"} => s.cell[p].size = 3
         /\ s.cell[p].kind \in {"interval", "note", "for", "next"} => s.cell[p].val \in 0 .. 127
  BY StreamAssumption DEF StreamAssumption, Song

(* The first event and the markers are no ends of the track. *)
LEMMA Targets ==
  ASSUME NEW s \in Songs
  PROVE  /\ 1 \in s.starts /\ s.cell[1].kind # "end"
         /\ \A m \in DOMAIN s.marks : s.marks[m] \in s.starts /\ s.cell[s.marks[m]].kind # "end"
  BY StreamAssumption DEF StreamAssumption, Song

(* Every cell has a size, and an interval its length. *)
LEMMA Sizes ==
  ASSUME NEW s \in Songs, NEW p \in DOMAIN s.cell
  PROVE  /\ s.cell[p].size \in Nat \ {0}
         /\ s.cell[p].kind = "interval" => s.cell[p].val \in Int
<1>1. CASE p \in s.starts
  BY <1>1, EventFollows
<1>2. CASE p \notin s.starts
  <2>1. Song(s)
    BY StreamAssumption DEF StreamAssumption
  <2>2. s.cell[p].size = 1 /\ s.cell[p].val \in 0 .. 127
    BY <1>2, <2>1, Zenon DEF Song
  <2> QED BY <2>2
<1> QED BY <1>1, <1>2

----------------------------------------------------------------------------
(* The event loop. *)

(* Where the pointer stays between events, it is at one; and a callback is *)
(* not at the end of the track.                                            *)
Position ==
  /\ strayed \/ status = "done" \/ EVNT_ptr \in song.starts
  /\ pc = "callback" => /\ status # "done"
                        /\ strayed \/ song.cell[EVNT_ptr].kind # "end"

IInv == TypeOK /\ Position /\ LoopStack

(* A fresh stack is in order. *)
LEMMA FreshStack ==
  ASSUME TypeOK, FOR_loop_cnt' = NoLoops, UNCHANGED <<song, FOR_ptrs>>
  PROVE  LoopStack' /\ FOR_loop_cnt' \in [Depths -> -1 .. 127]
  BY DEF LoopStack, NoLoops

LEMMA InitIInv == Init => IInv
<1> SUFFICES ASSUME Init PROVE IInv
  OBVIOUS
<1>1. TypeOK
  <2>1. /\ song \in Songs /\ EVNT_ptr = 1 /\ origin = 1 /\ interval_cnt = 0
        /\ status = "stopped" /\ pc = "idle" /\ calls = 0
    BY DEF Init
  <2>3. seq_started \in BOOLEAN /\ strayed \in BOOLEAN
    BY Zenon DEF Init
  <2>2. /\ FOR_loop_cnt \in [Depths -> -1 .. 127]
        /\ FOR_ptrs \in [Depths -> Int]
    BY DEF Init, NoLoops
  <2> QED BY <2>1, <2>2, <2>3, StreamAssumption DEF TypeOK, StreamAssumption
<1>2. Position
  BY Targets DEF Init, Position
<1>3. LoopStack
  BY DEF Init, LoopStack, NoLoops
<1> QED BY <1>1, <1>2, <1>3 DEF IInv

LEMMA CallsIInv ==
  IInv /\ (start_seq \/ stop_seq \/ resume_seq \/ branch_index) => IInv'
<1>1. ASSUME IInv, start_seq PROVE IInv'
  <2>1. LoopStack' /\ FOR_loop_cnt' \in [Depths -> -1 .. 127]
    BY <1>1, FreshStack DEF IInv, start_seq, rewind_seq, Call
  <2>2. Position'
    BY <1>1, Targets DEF IInv, TypeOK, Position, start_seq, Call, MoveTo
  <2>3. EVNT_ptr' = 1 /\ origin' = 1 /\ interval_cnt' = 0
    BY <1>1 DEF start_seq, MoveTo, rewind_seq
  <2>6. seq_started' \in BOOLEAN /\ strayed' \in BOOLEAN
    BY <1>1, Zenon DEF start_seq, MoveTo
  <2>4. calls' \in 0 .. MaxCalls
    BY <1>1, StreamAssumption DEF IInv, TypeOK, start_seq, Call, StreamAssumption
  <2>5. TypeOK'
    BY <1>1, <2>1, <2>3, <2>4, <2>6 DEF IInv, TypeOK, start_seq, rewind_seq, Call
  <2> QED BY <2>1, <2>2, <2>5 DEF IInv
<1>2. ASSUME IInv, stop_seq PROVE IInv'
  BY <1>2, StreamAssumption
  DEF IInv, TypeOK, Position, LoopStack, stop_seq, Call, place, loops, history, meter, StreamAssumption
<1>3. ASSUME IInv, resume_seq PROVE IInv'
  BY <1>3, StreamAssumption
  DEF IInv, TypeOK, Position, LoopStack, resume_seq, Call, place, loops, history, meter, StreamAssumption
<1>4. ASSUME IInv, branch_index PROVE IInv'
  <2>1. LoopStack' /\ FOR_loop_cnt' \in [Depths -> -1 .. 127]
    BY <1>4, FreshStack DEF IInv, branch_index, Call
  <2>2. PICK m \in DOMAIN song.marks : MoveTo(song.marks[m])
    BY <1>4 DEF branch_index
  <2>3. song.marks[m] \in song.starts /\ song.cell[song.marks[m]].kind # "end"
    BY <1>4, Targets DEF IInv, TypeOK
  <2>4. song.marks[m] \in Int
    BY <1>4, <2>3, EventFollows, StreamAssumption DEF IInv, TypeOK, StreamAssumption, Song
  <2>5. Position'
    BY <1>4, <2>2, <2>3 DEF IInv, Position, branch_index, Call, MoveTo
  <2>6. EVNT_ptr' \in Int /\ origin' \in Int
    BY <2>2, <2>4 DEF MoveTo
  <2>9. strayed' \in BOOLEAN
    BY <2>2, Zenon DEF MoveTo
  <2>7. calls' \in 0 .. MaxCalls
    BY <1>4, StreamAssumption DEF IInv, TypeOK, branch_index, Call, StreamAssumption
  <2>8. TypeOK'
    BY <1>4, <2>1, <2>6, <2>7, <2>9 DEF IInv, TypeOK, branch_index, Call
  <2> QED BY <2>1, <2>5, <2>8 DEF IInv
<1> QED BY <1>1, <1>2, <1>3, <1>4

(* A step over the event at the pointer, in the loop or out of it, with    *)
(* the loops left as they are.                                             *)
LEMMA SkipIInv ==
  ASSUME IInv, pc = "events", InChunk, Event.kind # "end", Skip,
         UNCHANGED <<song, loops, status, seq_started, calls, origin, strayed>>,
         pc' \in {"events", "idle"}, interval_cnt' \in Int
  PROVE  IInv'
<1>1. EVNT_ptr + Event.size \in Int
  BY Sizes DEF IInv, TypeOK, InChunk, Event
<1>2. strayed \/ EVNT_ptr + Event.size \in song.starts
  BY EventFollows DEF IInv, TypeOK, Position, Event
<1>3. Position'
  BY <1>2 DEF IInv, Position, Skip
<1>4. LoopStack'
  BY DEF IInv, LoopStack, loops
<1>5. TypeOK'
  BY <1>1 DEF IInv, TypeOK, Skip, loops
<1> QED BY <1>3, <1>4, <1>5 DEF IInv

LEMMA PlainIInv ==
  ASSUME IInv,
         \/ interval \/ note_on \/ other_event
         \/ time_signature \/ set_tempo \/ CLEAR_BEAT_BAR
  PROVE  IInv'
<1>1. CASE interval
  <2>1. Event.val \in Int
    BY <1>1, Sizes DEF IInv, TypeOK, interval, At, InChunk, Event
  <2> QED BY <1>1, <2>1, SkipIInv DEF interval, At, history
<1>2. CASE note_on
  BY <1>2, SkipIInv DEF IInv, TypeOK, note_on, At, Stay
<1>3. CASE other_event
  BY <1>3, SkipIInv DEF IInv, TypeOK, other_event, At, Stay
<1>4. CASE time_signature
  BY <1>4, SkipIInv DEF IInv, TypeOK, time_signature, At, Stay
<1>5. CASE set_tempo
  BY <1>5, SkipIInv DEF IInv, TypeOK, set_tempo, At, Stay
<1>6. CASE CLEAR_BEAT_BAR
  BY <1>6, SkipIInv DEF IInv, TypeOK, CLEAR_BEAT_BAR, At, Stay
<1> QED BY <1>1, <1>2, <1>3, <1>4, <1>5, <1>6

(* A message whose size was wrong leaves the pointer astray. *)
LEMMA SysexIInv == IInv /\ XMIDI_sysex => IInv'
<1> SUFFICES ASSUME IInv, XMIDI_sysex PROVE IInv'
  OBVIOUS
<1>1. EVNT_ptr' \in Int /\ strayed' = TRUE
  BY Sizes DEF IInv, TypeOK, XMIDI_sysex, At, InChunk, Event
<1>2. TypeOK'
  BY <1>1 DEF IInv, TypeOK, XMIDI_sysex, At, Stay, loops
<1>3. Position' /\ LoopStack'
  BY <1>1 DEF IInv, TypeOK, Position, LoopStack, XMIDI_sysex, At, Stay, loops
<1> QED BY <1>2, <1>3 DEF IInv

(* Entering the loop, and a tick that does not. *)
LEMMA TickIInv == IInv /\ process_tick => IInv'
  BY DEF IInv, TypeOK, Position, LoopStack, process_tick, loops, history

LEMMA EndIInv == IInv /\ end_of_track => IInv'
<1> SUFFICES ASSUME IInv, end_of_track PROVE IInv'
  OBVIOUS
<1>1. EVNT_ptr' \in Int
  BY Sizes DEF IInv, TypeOK, end_of_track, At, InChunk, Event, Skip
<1> QED
  BY <1>1 DEF IInv, TypeOK, Position, LoopStack, end_of_track, At, loops, history

(* A callback event is where a loop would be, and not the end; the service *)
(* comes back to where the application left the pointer, three bytes on.   *)
LEMMA CallbackIInv == IInv /\ (CALLBACK_TRIG \/ callback_returns) => IInv'
<1>1. ASSUME IInv, CALLBACK_TRIG PROVE IInv'
  BY <1>1
  DEF IInv, TypeOK, Position, LoopStack, CALLBACK_TRIG, At, Event, place, loops, meter, history
<1>2. ASSUME IInv, callback_returns PROVE IInv'
  <2>1. EVNT_ptr' \in Int /\ origin' \in Int
    BY <1>2 DEF IInv, TypeOK, callback_returns
  <2>2. strayed' \in BOOLEAN /\ (strayed => strayed')
    BY <1>2 DEF IInv, TypeOK, callback_returns
  <2>3. ASSUME ~strayed' PROVE EVNT_ptr' \in song.starts
    <3>1. ~strayed /\ Event.size = 3
      BY <1>2, <2>2, <2>3 DEF callback_returns
    <3>2. EVNT_ptr \in song.starts /\ Event.kind # "end"
      BY <1>2, <3>1 DEF IInv, Position, callback_returns, Event
    <3> QED
      BY <1>2, <3>1, <3>2, EventFollows DEF IInv, TypeOK, callback_returns, Event
  <2>4. pc' \in {"events", "idle"} /\ (pc' = "events" => status' = "playing")
    BY <1>2 DEF callback_returns
  <2>5. Position'
    BY <1>2, <2>2, <2>3, <2>4 DEF IInv, Position, callback_returns
  <2>6. LoopStack'
    BY <1>2 DEF IInv, LoopStack, callback_returns, loops
  <2>7. TypeOK'
    BY <1>2, <2>1, <2>2, <2>4 DEF IInv, TypeOK, callback_returns, loops
  <2> QED BY <2>5, <2>6, <2>7 DEF IInv
<1> QED BY <1>1, <1>2

(* FOR fills the first unused slot: those before it are in use, so the     *)
(* stack grows by one.                                                     *)
LEMMA ForIInv == IInv /\ FOR_LOOP => IInv'
<1> SUFFICES ASSUME IInv, FOR_LOOP PROVE IInv'
  OBVIOUS
<1>1. CASE UNCHANGED loops
  BY <1>1, SkipIInv DEF IInv, TypeOK, FOR_LOOP, At, Stay
<1>2. ASSUME NEW d \in Unused, \A f \in Unused : d <= f,
             FOR_loop_cnt' = [FOR_loop_cnt EXCEPT ![d] = Event.val],
             FOR_ptrs' = [FOR_ptrs EXCEPT ![d] = EVNT_ptr]
      PROVE  IInv'
  <2>1. /\ EVNT_ptr \in song.starts /\ Event.kind = "for" /\ EVNT_ptr \in Int
        /\ song' = song
    BY EventsStart DEF IInv, TypeOK, FOR_LOOP, At, InChunk, Event, Stay
  <2>2. Event.val \in 0 .. 127 /\ EVNT_ptr + Event.size \in song.starts
        /\ EVNT_ptr + Event.size \in Int
    BY <2>1, EventFollows DEF IInv, TypeOK, Event
  <2>3. LoopStack'
    <3>1. SUFFICES ASSUME NEW e \in Depths, FOR_loop_cnt'[e] # -1
                   PROVE  /\ \A f \in 0 .. e : FOR_loop_cnt'[f] # -1
                          /\ FOR_ptrs'[e] \in song.starts
                          /\ song.cell[FOR_ptrs'[e]].kind = "for"
                          /\ FOR_loop_cnt'[e] <= song.cell[FOR_ptrs'[e]].val
      BY <2>1 DEF LoopStack
    <3>2. \A f \in 0 .. d - 1 : FOR_loop_cnt[f] # -1
      BY <1>2, StreamAssumption DEF Unused, Depths, StreamAssumption
    <3>3. CASE e = d
      <4>1. FOR_loop_cnt'[e] = Event.val /\ FOR_ptrs'[e] = EVNT_ptr
        BY <1>2, <3>3 DEF IInv, TypeOK, Unused
      <4>2. \A f \in 0 .. e : FOR_loop_cnt'[f] # -1
        <5>1. ASSUME NEW f \in 0 .. d - 1 PROVE f \in Depths /\ FOR_loop_cnt'[f] = FOR_loop_cnt[f]
          BY <1>2, <5>1, StreamAssumption DEF IInv, TypeOK, Unused, Depths, StreamAssumption
        <5>2. d \in Int /\ FOR_loop_cnt'[d] # -1
          BY <2>2, <3>3, <4>1 DEF Unused, Depths
        <5> QED BY <3>2, <3>3, <5>1, <5>2
      <4> QED BY <2>1, <2>2, <4>1, <4>2 DEF Event
    <3>4. CASE e # d
      <4>1. FOR_loop_cnt'[e] = FOR_loop_cnt[e] /\ FOR_ptrs'[e] = FOR_ptrs[e]
        BY <1>2, <3>4 DEF IInv, TypeOK, Unused
      <4>2. \A f \in 0 .. e : FOR_loop_cnt'[f] # -1
        BY <1>2, <2>2, <3>1, <4>1, StreamAssumption
        DEF IInv, TypeOK, LoopStack, Unused, Depths, StreamAssumption
      <4> QED BY <3>1, <4>1, <4>2 DEF IInv, LoopStack
    <3> QED BY <3>3, <3>4
  <2>4. FOR_loop_cnt' \in [Depths -> -1 .. 127] /\ FOR_ptrs' \in [Depths -> Int]
    BY <1>2, <2>1, <2>2 DEF IInv, TypeOK, Unused
  <2>5. Position' /\ TypeOK'
    BY <2>1, <2>2, <2>4 DEF IInv, TypeOK, Position, FOR_LOOP, At, Skip, Stay
  <2> QED BY <2>3, <2>5 DEF IInv
<1> QED BY <1>1, <1>2 DEF FOR_LOOP

(* NEXT works on the last slot in use: without it the rest is a stack, and *)
(* its FOR is an event of three bytes, like the NEXT.                      *)
LEMMA NextLoopIInv == IInv /\ NEXT_LOOP => IInv'
<1> SUFFICES ASSUME IInv, NEXT_LOOP PROVE IInv'
  OBVIOUS
<1>0. /\ EVNT_ptr \in song.starts /\ Event.kind = "next" /\ EVNT_ptr \in Int
      /\ song' = song /\ pc = "events" /\ Event.size = 3
      /\ EVNT_ptr + Event.size \in song.starts /\ EVNT_ptr + Event.size \in Int
  BY EventsStart, EventFollows DEF IInv, TypeOK, NEXT_LOOP, At, InChunk, Event, Stay
<1>1. CASE Skip /\ UNCHANGED FOR_loop_cnt
  BY <1>1, <1>0, SkipIInv DEF IInv, TypeOK, NEXT_LOOP, At, Stay, loops
<1>2. ASSUME NEW d \in Depths \ Unused, \A f \in Depths \ Unused : d >= f,
             \/ /\ FOR_loop_cnt' = [FOR_loop_cnt EXCEPT ![d] = -1]
                /\ Skip
             \/ /\ FOR_loop_cnt[d] > 1
                /\ FOR_loop_cnt' = [FOR_loop_cnt EXCEPT ![d] = @ - 1]
                /\ EVNT_ptr' = FOR_ptrs[d] + Event.size
      PROVE  IInv'
  <2>1. /\ FOR_loop_cnt[d] # -1 /\ FOR_ptrs[d] \in song.starts
        /\ song.cell[FOR_ptrs[d]].kind = "for" /\ FOR_ptrs[d] \in Int
        /\ UNCHANGED FOR_ptrs
    BY <1>2 DEF IInv, TypeOK, LoopStack, Unused, NEXT_LOOP
  <2>2. FOR_ptrs[d] + Event.size \in song.starts
    BY <1>0, <2>1, EventFollows DEF IInv, TypeOK
  <2>3. EVNT_ptr' \in song.starts /\ EVNT_ptr' \in Int
    BY <1>0, <1>2, <2>1, <2>2 DEF Skip
  <2>4. FOR_loop_cnt' \in [Depths -> -1 .. 127]
    BY <1>2 DEF IInv, TypeOK, Unused
  <2>5. LoopStack'
    <3>0. ASSUME \A e \in Depths : FOR_loop_cnt'[e] # -1 =>
                   /\ \A f \in 0 .. e : FOR_loop_cnt'[f] # -1
                   /\ FOR_loop_cnt'[e] <= FOR_loop_cnt[e]
                   /\ FOR_loop_cnt[e] # -1
          PROVE  LoopStack'
      <4>1. ASSUME NEW e \in Depths, FOR_loop_cnt[e] # -1
            PROVE  /\ FOR_ptrs[e] \in song.starts /\ song.cell[FOR_ptrs[e]].kind = "for"
                   /\ song.cell[FOR_ptrs[e]].val \in Int
                   /\ FOR_loop_cnt[e] <= song.cell[FOR_ptrs[e]].val
        <5>1. /\ FOR_ptrs[e] \in song.starts /\ song.cell[FOR_ptrs[e]].kind = "for"
              /\ FOR_loop_cnt[e] <= song.cell[FOR_ptrs[e]].val
          BY <4>1 DEF IInv, LoopStack
        <5>2. song.cell[FOR_ptrs[e]].val \in 0 .. 127
          BY <5>1, EventFollows DEF IInv, TypeOK
        <5> QED BY <5>1, <5>2
      <4>2. ASSUME NEW e \in Depths, FOR_loop_cnt'[e] # -1
            PROVE  /\ FOR_ptrs'[e] \in song'.starts /\ song'.cell[FOR_ptrs'[e]].kind = "for"
                   /\ FOR_loop_cnt'[e] <= song'.cell[FOR_ptrs'[e]].val
        <5>1. FOR_loop_cnt[e] # -1 /\ FOR_loop_cnt'[e] <= FOR_loop_cnt[e]
          BY <3>0, <4>2
        <5>2. FOR_loop_cnt[e] \in Int /\ FOR_loop_cnt'[e] \in Int
          BY <2>4 DEF IInv, TypeOK
        <5>3. FOR_ptrs' = FOR_ptrs /\ song' = song
          BY <1>0, <2>1
        <5> QED BY <4>1, <5>1, <5>2, <5>3
      <4> QED BY <3>0, <4>2 DEF LoopStack
    <3>1. SUFFICES ASSUME NEW e \in Depths, FOR_loop_cnt'[e] # -1
                   PROVE  /\ \A f \in 0 .. e : FOR_loop_cnt'[f] # -1
                          /\ FOR_loop_cnt'[e] <= FOR_loop_cnt[e]
                          /\ FOR_loop_cnt[e] # -1
      BY <3>0
    <3>2. FOR_loop_cnt[e] # -1 /\ FOR_loop_cnt'[e] <= FOR_loop_cnt[e]
      BY <1>2, <2>1, <3>1 DEF IInv, TypeOK
    <3>3. e <= d
      BY <1>2, <3>2 DEF Unused
    <3>4. \A f \in 0 .. e : FOR_loop_cnt[f] # -1 /\ f \in Depths
      BY <3>2, StreamAssumption DEF IInv, LoopStack, Depths, StreamAssumption
    <3>5. \A f \in 0 .. e : FOR_loop_cnt'[f] # -1
      <4>1. d \in Int /\ e \in Int
        BY <1>2 DEF Depths
      <4>2. ASSUME NEW f \in 0 .. e, f # d PROVE FOR_loop_cnt'[f] # -1
        BY <1>2, <3>4, <4>2 DEF IInv, TypeOK
      <4>3. ASSUME d \in 0 .. e PROVE FOR_loop_cnt'[d] # -1
        <5>1. e = d
          BY <3>3, <4>1, <4>3
        <5> QED BY <3>1, <5>1
      <4> QED BY <4>2, <4>3
    <3> QED BY <3>2, <3>5
  <2>6. Position' /\ TypeOK'
    BY <1>0, <2>1, <2>3, <2>4 DEF IInv, TypeOK, Position, NEXT_LOOP, Stay
  <2> QED BY <2>5, <2>6 DEF IInv
<1> QED BY <1>1, <1>2 DEF NEXT_LOOP

LEMMA StutterIInv == IInv /\ UNCHANGED vars => IInv'
  BY DEF IInv, TypeOK, Position, LoopStack, vars, place, loops, history

LEMMA NextIInv == IInv /\ [Next]_vars => IInv'
  BY CallsIInv, PlainIInv, SysexIInv, TickIInv, EndIInv, CallbackIInv, ForIInv,
     NextLoopIInv, StutterIInv DEF Next, Service

LEMMA Inductive == Spec => []IInv
  BY InitIInv, NextIInv, PTL DEF Spec

(* The variables keep their types. *)
THEOREM TypeCorrect == Spec => []TypeOK
<1>1. IInv => TypeOK
  BY DEF IInv
<1> QED BY <1>1, Inductive, PTL

(* The event loop only reads at the borders of events, and the loops in    *)
(* use are a stack of FORs with no more rounds left than they began with,  *)
(* for every song and whatever the application does in callbacks.          *)
THEOREM AlignedAlways == Spec => []Aligned
<1>1. IInv => Aligned
  BY DEF IInv, Position, Aligned
<1> QED BY <1>1, Inductive, PTL

----------------------------------------------------------------------------
(* The meter. *)

(* The meter is exact in its fraction too while the driver's fraction of a *)
(* tick is what the signature in force makes it.                           *)
MeterTyped ==
  /\ DOMAIN beat = {"count", "measure", "frac", "fraction", "per_beat", "numer"}
  /\ beat.count \in Int /\ beat.measure \in Int /\ beat.numer \in Int
  /\ beat.numer > 0
  /\ base \in Int /\ beats \in Int /\ denom \in Int
  /\ beat.per_beat \in Tempos(song)
  /\ denom \in 0 .. 2 =>
       /\ beat.frac \in Int /\ ticks \in Int
       /\ beat.fraction = SignatureFraction(denom)

MeterInv == MeterTyped /\ MeterExact

(* What a tick adds to the fraction in a meter of whole, half or quarter   *)
(* notes, and what it drops.                                               *)
LEMMA Fractions ==
  ASSUME NEW d \in 0 .. 2
  PROVE  /\ SignatureFraction(d) \in Nat /\ SignatureFraction(d) <= Fraction
         /\ TickTime(d) \in Int /\ Lost(d) \in Int
         /\ TickTime(d) = 4 * SignatureFraction(d) + Lost(d)
<1>0. Fraction \in Nat /\ Fraction >= 4
  BY StreamAssumption DEF StreamAssumption
<1>1. 2 ^ 0 = 1 /\ 2 ^ 1 = 2 /\ 2 ^ 2 = 4
  OBVIOUS
<1>2. CASE d = 0
  <2>1. SignatureFraction(d) = Fraction \div 4 /\ TickTime(d) = Fraction
    BY <1>0, <1>1, <1>2 DEF SignatureFraction, TickTime
  <2> QED BY <1>0, <2>1 DEF Lost
<1>3. CASE d = 1
  <2>1. SignatureFraction(d) = Fraction \div 2 /\ TickTime(d) = Fraction * 2
    BY <1>0, <1>1, <1>3 DEF SignatureFraction, TickTime
  <2> QED BY <1>0, <2>1 DEF Lost
<1>4. CASE d = 2
  <2>1. SignatureFraction(d) = Fraction /\ TickTime(d) = Fraction * 4
    BY <1>0, <1>1, <1>4 DEF SignatureFraction, TickTime
  <2> QED BY <1>0, <2>1 DEF Lost
<1> QED BY <1>2, <1>3, <1>4

LEMMA TemposTyped ==
  ASSUME NEW s \in Songs
  PROVE  Tempos(s) \subseteq Nat \ {0} /\ PerBeat \in Tempos(s)
<1>1. PerBeat \in Nat \ {0} /\ Song(s)
  BY StreamAssumption DEF StreamAssumption
<1>2. \A p \in s.starts : s.cell[p].kind = "tempo" => s.cell[p].val \in Nat \ {0}
  BY <1>1 DEF Song
<1> QED BY <1>1, <1>2 DEF Tempos

(* The beat that fills a measure: one measure more, and none counted in it. *)
LEMMA OneMeasure ==
  ASSUME NEW m, NEW n, NEW b \in Int,
         m.count \in Int, m.numer \in Int, m.measure \in Int, m.count + 1 = m.numer,
         n.count = 0, n.numer = m.numer, n.measure = m.measure + 1
  PROVE  BeatsSince(n, b) = BeatsSince(m, b) + 1
<1> DEFINE k == m.numer
           x == m.measure - b
<1>1. k \in Int /\ x \in Int
  OBVIOUS
<1>2. n.measure - b = x + 1
  OBVIOUS
<1> HIDE DEF x
<1>3. k * (x + 1) = k * x + k
  <2>1. \A i, j \in Int : i * (j + 1) = i * j + i
    OBVIOUS
  <2> QED BY <1>1, <2>1, Zenon
<1>4. BeatsSince(n, b) = 0 + k * (x + 1)
  BY <1>2, Zenon DEF BeatsSince
<1>5. BeatsSince(m, b) = m.count + k * x
  BY Zenon DEF BeatsSince, x
<1>6. k * x \in Int
  BY <1>1
<1> QED BY <1>3, <1>4, <1>5, <1>6

(* A beat more within the measure. *)
LEMMA OneBeat ==
  ASSUME NEW m, NEW n, NEW b \in Int,
         m.count \in Int, m.numer \in Int, m.measure \in Int,
         n.count = m.count + 1, n.numer = m.numer, n.measure = m.measure
  PROVE  BeatsSince(n, b) = BeatsSince(m, b) + 1
<1>1. m.numer * (m.measure - b) \in Int
  OBVIOUS
<1>2. BeatsSince(n, b) = (m.count + 1) + m.numer * (m.measure - b)
  BY Zenon DEF BeatsSince
<1> QED BY <1>1, <1>2 DEF BeatsSince

(* Only count, measure and numerator matter. *)
LEMMA SameBeats ==
  ASSUME NEW m, NEW n, NEW b, n.count = m.count, n.numer = m.numer, n.measure = m.measure
  PROVE  BeatsSince(n, b) = BeatsSince(m, b)
  BY DEF BeatsSince

(* A meter that begins anew is exact. *)
LEMMA NewMeterExact ==
  ASSUME NEW r, NEW m \in Int, NEW d \in Int, song' \in Songs,
         beat' = r, NewMeter(m, d),
         DOMAIN r = {"count", "measure", "frac", "fraction", "per_beat", "numer"},
         r.count = 0, r.measure = m, r.numer \in Int, r.numer > 0,
         r.per_beat \in Tempos(song'),
         d \in 0 .. 2 => r.fraction = SignatureFraction(d) /\ r.frac = -SignatureFraction(d)
  PROVE  MeterInv'
<1>1. BeatsSince(r, m) = 0
  <2>1. r.numer * (m - m) = 0
    OBVIOUS
  <2> QED BY <2>1 DEF BeatsSince
<1>2. /\ base' = m /\ denom' = d /\ beats' = 0 /\ ticks' = 0
      /\ elapsed' = -TickTime(d)
  BY DEF NewMeter
<1>3. ASSUME d \in 0 .. 2
      PROVE  /\ elapsed' = 4 * beat'.frac + (ticks' - 1) * Lost(d)
             /\ -beat'.fraction <= beat'.frac /\ beat'.frac \in Int
             /\ \E t \in Tempos(song') : beat'.frac < t
  <2>1. /\ SignatureFraction(d) \in Nat /\ TickTime(d) \in Int /\ Lost(d) \in Int
        /\ TickTime(d) = 4 * SignatureFraction(d) + Lost(d)
    BY <1>3, Fractions
  <2>2. beat'.fraction = SignatureFraction(d) /\ beat'.frac = -SignatureFraction(d)
    BY <1>3
  <2>3. (0 - 1) * Lost(d) = -Lost(d)
    BY <2>1
  <2>4. PerBeat \in Tempos(song') /\ PerBeat \in Nat \ {0}
    BY TemposTyped
  <2>5. beat'.frac < PerBeat
    BY <2>1, <2>2, <2>4
  <2> QED BY <1>2, <2>1, <2>2, <2>3, <2>4, <2>5
<1>4. MeterTyped'
  BY <1>2, <1>3 DEF MeterTyped
<1>5. MeterExact'
  BY <1>1, <1>2, <1>3 DEF MeterExact
<1> QED BY <1>4, <1>5 DEF MeterInv

LEMMA OneTickMore ==
  ASSUME NEW i \in Int, NEW j \in Int
  PROVE  (i - 1) * j \in Int /\ i * j = (i - 1) * j + j
  OBVIOUS

(* A tick adds its own time to both sides, and a beat takes its time from  *)
(* both: the driver's fraction stays the time that the ticks took.         *)
LEMMA TickOnTime ==
  ASSUME MeterInv, check_beat, song' = song, song \in Songs, denom \in 0 .. 2
  PROVE  /\ elapsed' = 4 * beat'.frac + (ticks' - 1) * Lost(denom)
         /\ -beat.fraction <= beat'.frac /\ beat'.frac \in Int /\ ticks' \in Int
         /\ (\A t \in Tempos(song) : t >= Fraction) =>
              \E t \in Tempos(song) : beat'.frac < t
<1> DEFINE f == SignatureFraction(denom)
           L == Lost(denom)
           k == (ticks - 1) * L
<1>1. /\ f \in Nat /\ f <= Fraction /\ L \in Int /\ TickTime(denom) = 4 * f + L
      /\ TickTime(denom) \in Int /\ Fraction \in Nat
  BY Fractions, StreamAssumption DEF StreamAssumption
<1>2. /\ beat.frac \in Int /\ ticks \in Int /\ beat.fraction = f
      /\ elapsed = 4 * beat.frac + k /\ -f <= beat.frac
      /\ beat.per_beat \in Tempos(song) /\ denom # -1
      /\ (\A t \in Tempos(song) : t >= Fraction) => \E t \in Tempos(song) : beat.frac < t
  BY DEF MeterInv, MeterTyped, MeterExact
<1>3. Tempos(song) \subseteq Nat
  BY TemposTyped
<1>4. /\ ticks' = ticks + 1
      /\ elapsed' = elapsed + TickTime(denom) - (IF NewBeat THEN 4 * beat.per_beat ELSE 0)
  BY <1>2 DEF check_beat
<1>5. beat'.frac = beat.frac + f - (IF NewBeat THEN beat.per_beat ELSE 0)
  <2>1. beat' = Advanced /\ "frac" \in DOMAIN beat
    BY DEF check_beat, MeterInv, MeterTyped
  <2>2. CASE NewBeat
    <3>1. beat'.frac = beat.frac + beat.fraction - beat.per_beat
      BY <2>1, <2>2 DEF Advanced
    <3> QED BY <1>2, <2>2, <3>1
  <2>3. CASE ~NewBeat
    <3>1. beat'.frac = beat.frac + beat.fraction
      BY <2>1, <2>3 DEF Advanced
    <3>2. beat.frac + beat.fraction = beat.frac + f - 0
      BY <1>1, <1>2
    <3> QED BY <2>3, <3>1, <3>2
  <2> QED BY <2>2, <2>3
<1>6. k \in Int /\ (ticks' - 1) * L = k + L
  <2> HIDE DEF L
  <2>1. ticks \in Int /\ L \in Int
    BY <1>1, <1>2
  <2>2. k \in Int /\ ticks * L = k + L
    BY <2>1, OneTickMore
  <2>3. ticks' - 1 = ticks
    BY <1>4, <2>1
  <2> QED BY <2>2, <2>3, Zenon
<1> HIDE DEF f, L, k
<1>7. beat.per_beat \in Nat
  BY <1>2, <1>3
<1>8. beat'.frac \in Int /\ elapsed' = 4 * beat'.frac + (ticks' - 1) * L
  <2>2. CASE NewBeat
    <3>1. elapsed' = elapsed + TickTime(denom) - 4 * beat.per_beat
      BY <1>4, <2>2
    <3>2. beat'.frac = beat.frac + f - beat.per_beat
      BY <1>5, <2>2
    <3> QED BY <1>1, <1>2, <1>6, <1>7, <3>1, <3>2
  <2>3. CASE ~NewBeat
    <3>1. elapsed' = elapsed + TickTime(denom) - 0
      BY <1>4, <2>3
    <3>2. beat'.frac = beat.frac + f - 0
      BY <1>5, <2>3
    <3> QED BY <1>1, <1>2, <1>6, <3>1, <3>2
  <2> QED BY <2>2, <2>3
<1>9. -f <= beat'.frac
  <2>1. CASE NewBeat
    BY <1>1, <1>2, <1>5, <1>7, <2>1 DEF NewBeat
  <2>2. CASE ~NewBeat
    BY <1>1, <1>2, <1>5, <2>2
  <2> QED BY <2>1, <2>2
<1>10. ASSUME \A t \in Tempos(song) : t >= Fraction
       PROVE  \E t \in Tempos(song) : beat'.frac < t
  <2>1. CASE NewBeat
    <3>1. PICK t \in Tempos(song) : beat.frac < t
      BY <1>2, <1>10
    <3>2. beat.per_beat >= f
      BY <1>1, <1>2, <1>7, <1>10
    <3>3. beat'.frac <= beat.frac
      BY <1>1, <1>2, <1>5, <1>7, <2>1, <3>2
    <3>4. beat'.frac < t
      BY <1>2, <1>3, <1>8, <3>1, <3>3
    <3> QED BY <3>4
  <2>2. CASE ~NewBeat
    <3>1. beat'.frac < beat.per_beat
      BY <1>1, <1>2, <1>5, <1>7, <2>2 DEF NewBeat
    <3> QED BY <1>2, <3>1
  <2> QED BY <2>1, <2>2
<1> QED BY <1>2, <1>4, <1>8, <1>9, <1>10 DEF L

LEMMA CheckBeatExact ==
  ASSUME MeterInv, check_beat, song' = song, song \in Songs
  PROVE  MeterInv'
<1>0. /\ base' = base /\ denom' = denom /\ Tempos(song') = Tempos(song)
      /\ beats' = IF NewBeat THEN beats + 1 ELSE beats
  BY DEF check_beat
<1>1. CASE ~NewBeat
  <2>1. beat' = [beat EXCEPT !.frac = @ + beat.fraction]
    BY <1>1 DEF check_beat, Advanced
  <2>2. /\ beat'.count = beat.count /\ beat'.measure = beat.measure /\ beat'.numer = beat.numer
        /\ beat'.fraction = beat.fraction /\ beat'.per_beat = beat.per_beat
        /\ DOMAIN beat' = DOMAIN beat
    BY <2>1 DEF MeterInv, MeterTyped
  <2>3. BeatsSince(beat', base') = beats' /\ beat'.count < beat'.numer
    BY <1>0, <1>1, <2>2, SameBeats DEF MeterInv, MeterExact
  <2>4. MeterTyped'
    BY <1>0, <1>1, <2>2, TickOnTime DEF MeterInv, MeterTyped
  <2>5. MeterExact'
    BY <1>0, <2>2, <2>3, TickOnTime DEF MeterExact
  <2> QED BY <2>4, <2>5 DEF MeterInv
<1>2. CASE NewBeat
  <2>2. /\ beat'.numer = beat.numer /\ DOMAIN beat' = DOMAIN beat
        /\ beat'.fraction = beat.fraction /\ beat'.per_beat = beat.per_beat
        /\ beat'.count = IF beat.count + 1 >= beat.numer THEN 0 ELSE beat.count + 1
        /\ beat'.measure = IF beat.count + 1 >= beat.numer THEN beat.measure + 1 ELSE beat.measure
    BY <1>2 DEF check_beat, Advanced, MeterInv, MeterTyped
  <2>3. BeatsSince(beat', base') = beats' /\ beat'.count < beat'.numer
    <3>1. CASE beat.count + 1 >= beat.numer
      <4>1. beat.count + 1 = beat.numer
        BY <3>1 DEF MeterInv, MeterTyped, MeterExact
      <4>2. /\ beat'.count = 0 /\ beat'.measure = beat.measure + 1 /\ beats' = beats + 1
        BY <1>0, <1>2, <2>2, <3>1
      <4>3. BeatsSince(beat', base') = beats'
        BY <1>0, <2>2, <4>1, <4>2, OneMeasure DEF MeterInv, MeterTyped, MeterExact
      <4> QED BY <2>2, <4>2, <4>3 DEF MeterInv, MeterTyped
    <3>2. CASE ~(beat.count + 1 >= beat.numer)
      <4>1. beat'.count = beat.count + 1 /\ beat'.measure = beat.measure /\ beats' = beats + 1
        BY <1>0, <1>2, <2>2, <3>2
      <4>2. BeatsSince(beat', base') = beats'
        BY <1>0, <2>2, <4>1, OneBeat DEF MeterInv, MeterTyped, MeterExact
      <4> QED BY <2>2, <3>2, <4>1, <4>2 DEF MeterInv, MeterTyped
    <3> QED BY <3>1, <3>2
  <2>4. MeterTyped'
    <3>1. beat'.count \in Int /\ beat'.measure \in Int /\ beats' \in Int
      BY <1>0, <2>2 DEF MeterInv, MeterTyped
    <3> QED BY <1>0, <2>2, <3>1, TickOnTime DEF MeterInv, MeterTyped
  <2>5. MeterExact'
    BY <1>0, <2>2, <2>3, TickOnTime DEF MeterExact
  <2> QED BY <2>4, <2>5 DEF MeterInv
<1> QED BY <1>1, <1>2

LEMMA InitMeter == Init => MeterInv
<1> SUFFICES ASSUME Init PROVE MeterInv
  OBVIOUS
<1>1. beat.count = 0 /\ beat.measure = -1 /\ beat.numer = Numerator
      /\ base = -1 /\ beats = 0 /\ denom = -1 /\ beat.per_beat = PerBeat
      /\ DOMAIN beat = {"count", "measure", "frac", "fraction", "per_beat", "numer"}
  BY DEF Init
<1>2. Numerator \in Int /\ Numerator > 0 /\ Numerator * (-1 - -1) = 0
  BY StreamAssumption DEF StreamAssumption
<1>3. BeatsSince(beat, base) = 0
  BY <1>1, <1>2 DEF BeatsSince
<1>4. PerBeat \in Tempos(song)
  BY DEF Tempos
<1> QED BY <1>1, <1>2, <1>3, <1>4 DEF MeterInv, MeterTyped, MeterExact

LEMMA SameMeter ==
  ASSUME MeterInv, UNCHANGED meter, song' = song
  PROVE  MeterInv'
  BY DEF MeterInv, MeterTyped, MeterExact, meter

LEMMA NextMeter == IInv /\ MeterInv /\ [Next]_vars => MeterInv'
<1> SUFFICES ASSUME IInv, MeterInv, [Next]_vars PROVE MeterInv'
  OBVIOUS
<1>0. song \in Songs
  BY DEF IInv, TypeOK
<1>1. CASE start_seq
  <2>1. beat' = [count |-> 0, measure |-> -1, frac |-> 0, fraction |-> 0,
                 per_beat |-> PerBeat, numer |-> Numerator] /\ NewMeter(-1, -1) /\ song' = song
    BY <1>1 DEF start_seq, rewind_seq, Call
  <2>2. Numerator \in Int /\ Numerator > 0
    BY StreamAssumption DEF StreamAssumption
  <2>3. PerBeat \in Tempos(song')
    BY DEF Tempos
  <2> QED BY <1>0, <2>1, <2>2, <2>3, NewMeterExact
<1>2. CASE stop_seq \/ resume_seq \/ branch_index
  BY <1>2, SameMeter DEF stop_seq, resume_seq, branch_index, Call
<1>3. CASE process_tick
  BY <1>0, <1>3, SameMeter, CheckBeatExact DEF process_tick
<1>4. CASE interval
  BY <1>0, <1>4, CheckBeatExact DEF interval
<1>5. CASE note_on \/ other_event \/ XMIDI_sysex \/ FOR_LOOP \/ NEXT_LOOP
             \/ CALLBACK_TRIG \/ callback_returns \/ end_of_track
  BY <1>5, SameMeter
  DEF note_on, other_event, XMIDI_sysex, FOR_LOOP, NEXT_LOOP, CALLBACK_TRIG,
      callback_returns, end_of_track, Stay
<1>6. CASE time_signature
  <2> DEFINE f == SignatureFraction(Event.denom)
             r == [beat EXCEPT !.numer = Event.val, !.fraction = f, !.frac = -f,
                               !.count = 0, !.measure = @ + 1]
  <2>1. beat' = r /\ NewMeter(beat.measure + 1, Event.denom) /\ song' = song
    BY <1>6 DEF time_signature, Stay
  <2>2. Event.val \in Int /\ Event.val > 0 /\ Event.denom \in Int
    <3>1. EVNT_ptr \in song.starts /\ Event.kind = "signature" /\ Song(song)
      BY <1>6, EventsStart, StreamAssumption
      DEF time_signature, At, InChunk, Event, IInv, TypeOK, StreamAssumption
    <3> QED BY <3>1 DEF Song, Event
  <2> HIDE DEF f
  <2>3. /\ DOMAIN r = {"count", "measure", "frac", "fraction", "per_beat", "numer"}
        /\ r.count = 0 /\ r.measure = beat.measure + 1 /\ r.numer = Event.val
        /\ r.fraction = f /\ r.frac = -f /\ r.per_beat = beat.per_beat
    BY DEF MeterInv, MeterTyped
  <2>4. beat.measure + 1 \in Int /\ beat.per_beat \in Tempos(song)
    BY DEF MeterInv, MeterTyped
  <2> HIDE DEF r
  <2>5. r.fraction = SignatureFraction(Event.denom) /\ r.frac = -SignatureFraction(Event.denom)
    BY <2>3 DEF f
  <2> QED BY <1>0, <2>1, <2>2, <2>3, <2>4, <2>5, NewMeterExact
<1>7. CASE set_tempo
  <2>1. /\ beat' = [beat EXCEPT !.per_beat = Event.val] /\ song' = song
        /\ UNCHANGED <<base, denom, beats, ticks, elapsed>>
    BY <1>7 DEF set_tempo, Stay
  <2>2. /\ DOMAIN beat' = DOMAIN beat /\ beat'.per_beat = Event.val
        /\ beat'.count = beat.count /\ beat'.numer = beat.numer /\ beat'.measure = beat.measure
        /\ beat'.frac = beat.frac /\ beat'.fraction = beat.fraction
    BY <2>1 DEF MeterInv, MeterTyped
  <2>3. Event.val \in Tempos(song)
    <3>1. EVNT_ptr \in song.starts /\ Event.kind = "tempo"
      BY <1>7, EventsStart DEF set_tempo, At, InChunk, Event, IInv, TypeOK
    <3> QED BY <3>1 DEF Tempos, Event
  <2>4. MeterTyped'
    BY <2>1, <2>2, <2>3 DEF MeterInv, MeterTyped
  <2>5. MeterExact'
    BY <2>1, <2>2, SameBeats DEF MeterInv, MeterExact
  <2> QED BY <2>4, <2>5 DEF MeterInv
<1>8. CASE CLEAR_BEAT_BAR
  <2> DEFINE r == [beat EXCEPT !.count = 0, !.measure = 0, !.frac = -beat.fraction]
  <2>1. beat' = r /\ NewMeter(0, denom) /\ song' = song
    BY <1>8 DEF CLEAR_BEAT_BAR, Stay
  <2>2. /\ DOMAIN r = {"count", "measure", "frac", "fraction", "per_beat", "numer"}
        /\ r.count = 0 /\ r.measure = 0 /\ r.frac = -beat.fraction /\ r.fraction = beat.fraction
        /\ r.numer \in Int /\ r.numer > 0 /\ r.per_beat = beat.per_beat
    BY DEF MeterInv, MeterTyped
  <2>3. /\ denom \in Int /\ beat.per_beat \in Tempos(song)
        /\ denom \in 0 .. 2 => beat.fraction = SignatureFraction(denom)
    BY DEF MeterInv, MeterTyped
  <2> HIDE DEF r
  <2> QED BY <1>0, <2>1, <2>2, <2>3, NewMeterExact
<1>9. CASE UNCHANGED vars
  BY <1>9, SameMeter DEF vars
<1> QED
  BY <1>1, <1>2, <1>3, <1>4, <1>5, <1>6, <1>7, <1>8, <1>9 DEF Next, Service

(* Measures and beats are the beats that went by, and in meters of whole,  *)
(* half and quarter notes the time of those notes, for any tempos and      *)
(* numbers of ticks.                                                       *)
THEOREM MeterExactAlways == Spec => []MeterExact
<1>1. Init => IInv /\ MeterInv
  BY InitIInv, InitMeter
<1>2. IInv /\ MeterInv /\ [Next]_vars => IInv' /\ MeterInv'
  BY NextIInv, NextMeter
<1>3. MeterInv => MeterExact
  BY DEF MeterInv
<1> QED BY <1>1, <1>2, <1>3, PTL DEF Spec
----------------------------------------------------------------------------
(* The text of a song. *)

Levels  == 0 .. FOR_NEST
Vals    == 0 .. 127
Music   == Seq(Vals)
Silence == <<>>

Join(x, y) == x \o y

LEMMA OneNote == \A v \in Vals : <<v>> \in Music
  BY DEF Music

LEMMA Sound ==
  /\ Silence \in Music
  /\ \A x, y \in Music : Join(x, y) \in Music
<1>1. Silence \in Music
  BY DEF Silence, Music
<1>3. \A x, y \in Music : Join(x, y) \in Music
  BY ConcatProperties DEF Music, Join
<1> QED BY <1>1, <1>3

LEMMA Joined ==
  /\ \A x \in Music : Join(x, Silence) = x /\ Join(Silence, x) = x
  /\ \A x, y, z \in Music : Join(Join(x, y), z) = Join(x, Join(y, z))
<1>2. \A x \in Music : Join(x, Silence) = x /\ Join(Silence, x) = x
  BY ConcatEmptySeq DEF Silence, Music, Join
<1>4. \A x, y, z \in Music : Join(Join(x, y), z) = Join(x, Join(y, z))
  BY ConcatAssociative DEF Music, Join
<1> QED BY <1>2, <1>4

LEMMA Regrouped ==
  ASSUME NEW w \in Music, NEW x \in Music, NEW y \in Music, NEW z \in Music
  PROVE  Join(Join(w, x), Join(y, z)) = Join(w, Join(Join(x, y), z))
<1>1. Join(y, z) \in Music
  BY Sound
<1>2. Join(Join(w, x), Join(y, z)) = Join(w, Join(x, Join(y, z)))
  BY <1>1, Joined
<1>3. Join(Join(x, y), z) = Join(x, Join(y, z))
  BY Joined
<1> QED BY <1>2, <1>3

LEMMA RegroupedAll ==
  ASSUME NEW w \in Music, NEW x \in Music, NEW y \in Music, NEW z \in Music
  PROVE  Join(Join(Join(w, x), y), z) = Join(w, Join(x, Join(y, z)))
<1>1. Join(w, x) \in Music /\ Join(y, z) \in Music
  BY Sound
<1>2. Join(Join(Join(w, x), y), z) = Join(Join(w, x), Join(y, z))
  BY <1>1, Joined
<1>3. Join(Join(w, x), Join(y, z)) = Join(w, Join(x, Join(y, z)))
  BY <1>1, Joined
<1> QED BY <1>2, <1>3

(* Repeat is the notes, then the notes once less. *)
LEMMA RepeatIs ==
  ASSUME NEW notes \in Music
  PROVE  /\ Repeat(0, notes) = Silence
         /\ \A n \in 1 .. 127 : Repeat(n, notes) = Join(notes, Repeat(n - 1, notes))
         /\ \A n \in 0 .. 127 : Repeat(n, notes) \in Music
<1> DEFINE g == CHOOSE g : g = [i \in 0 .. 127 |-> IF i = 0 THEN Silence ELSE Join(notes, g[i - 1])]
           F == [n \in 0 .. 126 |-> [x \in Music |-> Join(notes, x)]]
<1>1. \A n : Repeat(n, notes) = g[n]
  BY DEF Repeat, Silence, Join
<1>2. /\ F \in [0 .. 127 - 1 -> [Music -> Music]]
      /\ \A n \in 0 .. 126, x \in Music : F[n][x] = Join(notes, x)
  BY Sound
<1> HIDE DEF F
<1>3. PICK f : Loops(Music, Silence, 127, F, f)
  BY <1>2, Sound, LoopDefined
<1>4. /\ f \in [0 .. 127 -> Music] /\ f[0] = Silence
      /\ \A n \in 0 .. 127 - 1 : f[n + 1] = F[n][f[n]]
  BY <1>3 DEF Loops
<1>5. \A n \in 1 .. 127 : f[n] = Join(notes, f[n - 1])
  <2>1. SUFFICES ASSUME NEW n \in 1 .. 127 PROVE f[n] = Join(notes, f[n - 1])
    OBVIOUS
  <2>2. n - 1 \in 0 .. 127 - 1 /\ n - 1 \in 0 .. 126 /\ (n - 1) + 1 = n
    OBVIOUS
  <2>3. f[(n - 1) + 1] = F[n - 1][f[n - 1]]
    BY <1>4, <2>2
  <2>4. f[n] = F[n - 1][f[n - 1]]
    BY <2>2, <2>3, Zenon
  <2>5. f[n - 1] \in Music
    BY <1>4, <2>2
  <2> QED BY <1>2, <2>2, <2>4, <2>5
<1>6. f = [i \in 0 .. 127 |-> IF i = 0 THEN Silence ELSE Join(notes, f[i - 1])]
  <2>1. \A i \in 0 .. 127 : f[i] = IF i = 0 THEN Silence ELSE Join(notes, f[i - 1])
    BY <1>4, <1>5
  <2> QED BY <1>4, <2>1
<1>7. g = [i \in 0 .. 127 |-> IF i = 0 THEN Silence ELSE Join(notes, g[i - 1])]
  BY <1>6
<1> HIDE DEF g
<1>8. g[0] = Silence /\ \A n \in 1 .. 127 : g[n] = Join(notes, g[n - 1])
  BY <1>7
<1>9. \A n \in 0 .. 127 : g[n] \in Music
  <2> DEFINE G == {n \in 0 .. 127 : g[n] \in Music}
  <2>1. 0 \in G
    BY <1>8, Sound
  <2>2. ASSUME NEW n \in 0 .. 126, n \in G PROVE n + 1 \in G
    <3>1. n + 1 \in 1 .. 127 /\ (n + 1) - 1 = n /\ g[n] \in Music
      BY <2>2
    <3>2. g[n + 1] = Join(notes, g[n])
      BY <1>8, <3>1
    <3>3. g[n + 1] \in Music
      BY <3>1, <3>2, Sound
    <3> QED BY <3>1, <3>3
  <2>3. 0 .. 127 \subseteq G
    <3>1. \A n \in 0 .. 127 - 1 : n \in G => n + 1 \in G
      BY <2>2
    <3> HIDE DEF G
    <3> QED BY <2>1, <3>1, Upwards
  <2> QED BY <2>3
<1> QED BY <1>1, <1>8, <1>9

(* Where a loop open at q may be closed, and what is known of an entry of  *)
(* the text at q.                                                          *)
Beyond(s, q)  == {0} \cup {r \in s.starts : r >= q /\ s.cell[r].kind = "next"}
Fits(s, q, r) == \A d \in Levels : r[d].notes \in Music /\ r[d].close \in Beyond(s, q)

(* A NEXT that closes a loop, when d are open. *)
Closes(e, d) == e.kind = "next" /\ d > 0
Opens(e, d)  == e.kind = "for" /\ d < FOR_NEST

(* The entry for the text behind the event at q. *)
Behind(s, text, q, d) == text[q + s.cell[q].size][d]

(* The cases of TextAt, for an entry this. *)
Cases(s, text, p, d, this) ==
  LET e == s.cell[p]
      loop == Behind(s, text, p, d + 1)
      after == Behind(s, text, loop.close, d)
      rest == Behind(s, text, p, d)
  IN /\ e.kind = "end" => this.notes = Silence /\ this.close = 0
     /\ Closes(e, d) => this.notes = Silence /\ this.close = p
     /\ Opens(e, d) /\ loop.close = 0 => this = loop
     /\ Opens(e, d) /\ loop.close # 0 =>
          /\ this.notes = Join(Repeat(e.val, loop.notes), after.notes)
          /\ this.close = after.close
     /\ e.kind = "note" => this.notes = Join(<<e.val>>, rest.notes) /\ this.close = rest.close
     /\ e.kind \notin {"end", "note"} /\ ~Closes(e, d) /\ ~Opens(e, d) =>
          this.notes = Join(Silence, rest.notes) /\ this.close = rest.close

LEMMA TextCases ==
  ASSUME NEW s, NEW text, NEW p, NEW d \in Levels
  PROVE  Cases(s, text, p, d, TextAt(s, text, p)[d])
  BY DEF Cases, Behind, TextAt, Levels, Closes, Opens, Silence, Join

(* What the event at p adds to the entries after it fits. *)
LEMMA TextAtFits ==
  ASSUME NEW s \in Songs, NEW p \in s.starts, NEW text,
         \A q \in s.starts : q > p => Fits(s, q, text[q])
  PROVE  Fits(s, p, TextAt(s, text, p))
<1>1. /\ p \in Int /\ s.cell[p].size \in Nat \ {0}
      /\ \A q \in s.starts : q \in Nat \ {0} /\ s.cell[q].size \in Nat \ {0}
                             /\ (s.cell[q].kind # "end" => q + s.cell[q].size \in s.starts)
      /\ s.cell[p].kind \in {"note", "for"} => s.cell[p].val \in Vals
  <2>1. \A q \in s.starts : q \in Nat \ {0}
    BY StreamAssumption DEF StreamAssumption, Song
  <2> QED BY <2>1, EventFollows DEF Vals
<1>2. ASSUME NEW q \in s.starts, q >= p, s.cell[q].kind # "end", NEW d \in Levels
      PROVE  /\ Behind(s, text, q, d).notes \in Music
             /\ Behind(s, text, q, d).close \in Beyond(s, p)
  <2> DEFINE r == q + s.cell[q].size
  <2>1. r \in s.starts /\ r > p /\ r \in Int
    BY <1>1, <1>2
  <2>2. Fits(s, r, text[r])
    BY <2>1
  <2>3. Beyond(s, r) \subseteq Beyond(s, p)
    BY <1>1, <2>1 DEF Beyond
  <2>4. text[r][d].notes \in Music /\ text[r][d].close \in Beyond(s, p)
    <3> HIDE DEF r
    <3> QED BY <2>2, <2>3 DEF Fits
  <2> QED BY <2>4 DEF Behind
<1>3. ASSUME NEW d \in Levels, NEW this, Cases(s, text, p, d, this)
      PROVE  this.notes \in Music /\ this.close \in Beyond(s, p)
  <2> DEFINE e == s.cell[p]
             loop == Behind(s, text, p, d + 1)
             after == Behind(s, text, loop.close, d)
             rest == Behind(s, text, p, d)
  <2>1. CASE e.kind = "end" \/ Closes(e, d)
    <3>1. 0 \in Beyond(s, p) /\ (Closes(e, d) => p \in Beyond(s, p))
      BY <1>1 DEF Beyond, Closes
    <3>2. this.notes = Silence /\ this.close \in {0, p} /\ (this.close # 0 => Closes(e, d))
      BY <1>3, <2>1 DEF Cases
    <3> HIDE DEF e
    <3> QED BY <3>1, <3>2, Sound
  <2>2. CASE Opens(e, d)
    <3>1. d + 1 \in Levels /\ e.kind # "end"
      BY <2>2, StreamAssumption DEF Levels, StreamAssumption, Opens
    <3>2. loop.notes \in Music /\ loop.close \in Beyond(s, p)
      BY <1>1, <1>2, <3>1
    <3>3. CASE loop.close = 0
      BY <1>3, <2>2, <3>2, <3>3 DEF Cases
    <3>4. CASE loop.close # 0
      <4>1. this.notes = Join(Repeat(e.val, loop.notes), after.notes) /\ this.close = after.close
        BY <1>3, <2>2, <3>4 DEF Cases
      <4>2. loop.close \in s.starts /\ loop.close >= p /\ s.cell[loop.close].kind # "end"
        BY <3>2, <3>4 DEF Beyond
      <4>3. after.notes \in Music /\ after.close \in Beyond(s, p)
        BY <1>2, <4>2
      <4>4. e.val \in 0 .. 127
        BY <1>1, <2>2 DEF Vals, Opens
      <4> HIDE DEF e, loop, after
      <4>5. Repeat(e.val, loop.notes) \in Music
        BY <3>2, <4>4, RepeatIs
      <4>6. Join(Repeat(e.val, loop.notes), after.notes) \in Music
        BY <4>3, <4>5, Sound
      <4> QED BY <4>1, <4>3, <4>6
    <3> QED BY <3>3, <3>4
  <2>3. CASE e.kind # "end" /\ ~Closes(e, d) /\ ~Opens(e, d)
    <3>1. rest.notes \in Music /\ rest.close \in Beyond(s, p)
      BY <1>1, <1>2, <2>3
    <3>2. e.kind = "note" => <<e.val>> \in Music
      BY <1>1, OneNote
    <3>3. /\ \/ this.notes = Join(<<e.val>>, rest.notes) /\ e.kind = "note"
             \/ this.notes = Join(Silence, rest.notes)
          /\ this.close = rest.close
      BY <1>3, <2>3 DEF Cases
    <3> HIDE DEF e, rest
    <3>4. this.notes \in Music
      BY <3>1, <3>2, <3>3, Sound
    <3> QED BY <3>1, <3>3, <3>4
  <2> QED BY <2>1, <2>2, <2>3
<1>4. ASSUME NEW d \in Levels
      PROVE  TextAt(s, text, p)[d].notes \in Music /\ TextAt(s, text, p)[d].close \in Beyond(s, p)
  BY <1>3, TextCases
<1> QED BY <1>4 DEF Fits

(* An entry depends on the entries after it only. *)
LEMMA TextAtLocal ==
  ASSUME NEW s \in Songs, NEW p \in s.starts, NEW f, NEW g,
         \A q \in s.starts : q > p => g[q] = f[q] /\ Fits(s, q, f[q])
  PROVE  TextAt(s, g, p) = TextAt(s, f, p)
<1> DEFINE e == s.cell[p]
           r == p + e.size
<1>1. \A q \in s.starts : q \in Nat \ {0} /\ s.cell[q].size \in Nat \ {0}
                          /\ (s.cell[q].kind # "end" => q + s.cell[q].size \in s.starts)
  <2>1. \A q \in s.starts : q \in Nat \ {0}
    BY StreamAssumption DEF StreamAssumption, Song
  <2> QED BY <2>1, EventFollows
<1>2. CASE e.kind = "end"
  BY <1>2 DEF TextAt
<1>3. CASE e.kind # "end"
  <2>1. r \in s.starts /\ r > p /\ p \in Int /\ r \in Int
    BY <1>1, <1>3
  <2>2. g[r] = f[r] /\ Fits(s, r, f[r])
    BY <2>1
  <2>3. ASSUME NEW d \in Levels, f[r][d].close # 0
        PROVE  g[f[r][d].close + s.cell[f[r][d].close].size]
                 = f[f[r][d].close + s.cell[f[r][d].close].size]
    <3> DEFINE c == f[r][d].close
    <3>1. c \in s.starts /\ c >= r /\ s.cell[c].kind = "next"
      BY <2>2, <2>3 DEF Fits, Beyond
    <3> HIDE DEF c, r
    <3>2. c + s.cell[c].size \in s.starts /\ c + s.cell[c].size > p
      BY <1>1, <2>1, <3>1
    <3> QED BY <3>2 DEF c
  <2>4. \A d \in Levels : d < FOR_NEST => d + 1 \in Levels
    BY StreamAssumption DEF StreamAssumption, Levels
  <2>5. \A d \in Levels : TextAt(s, g, p)[d] = TextAt(s, f, p)[d]
    <3>1. SUFFICES ASSUME NEW d \in Levels PROVE TextAt(s, g, p)[d] = TextAt(s, f, p)[d]
      OBVIOUS
    <3>2. CASE Closes(e, d)
      BY <3>2 DEF TextAt, Levels, Closes
    <3>3. CASE ~Closes(e, d) /\ ~Opens(e, d)
      BY <1>3, <2>2, <3>3 DEF TextAt, Levels, Closes, Opens
    <3>4. CASE Opens(e, d) /\ f[r][d + 1].close = 0
      BY <2>2, <3>4 DEF TextAt, Levels, Opens
    <3>5. CASE Opens(e, d) /\ f[r][d + 1].close # 0
      <4> DEFINE c == f[r][d + 1].close
                 y == f[c + s.cell[c].size]
      <4>1. d + 1 \in Levels
        BY <2>4, <3>5 DEF Opens
      <4>2. g[c + s.cell[c].size] = y
        BY <2>3, <3>5, <4>1
      <4>3. g[r][d + 1] = f[r][d + 1]
        BY <2>2
      <4> QED BY <3>5, <4>2, <4>3 DEF TextAt, Levels, Opens
    <3> QED BY <3>2, <3>3, <3>4, <3>5
  <2>6. /\ TextAt(s, g, p) = [d \in Levels |-> TextAt(s, g, p)[d]]
        /\ TextAt(s, f, p) = [d \in Levels |-> TextAt(s, f, p)[d]]
    BY DEF TextAt, Levels
  <2> QED BY <2>5, <2>6, Zenon
<1> QED BY <1>2, <1>3

(* The events among the last n cells of a song. *)
Late(s, n) == {p \in s.starts : p > Len(s.cell) - n}

LEMMA LateIs ==
  ASSUME NEW s \in Songs, NEW n \in 0 .. Len(s.cell) - 1
  PROVE  /\ Len(s.cell) \in Nat /\ Len(s.cell) - n \in Nat
         /\ s.starts \subseteq Nat
         /\ Late(s, 0) = {}
         /\ Late(s, Len(s.cell)) = s.starts
         /\ Late(s, n) \subseteq Late(s, n + 1)
         /\ Len(s.cell) - n \notin Late(s, n)
         /\ Len(s.cell) - n \notin s.starts => Late(s, n + 1) = Late(s, n)
         /\ Len(s.cell) - n \in s.starts => Late(s, n + 1) = Late(s, n) \cup {Len(s.cell) - n}
         /\ \A p \in s.starts : (p > Len(s.cell) - n <=> p \in Late(s, n))
<1> DEFINE N == Len(s.cell)
<1>1. Song(s)
  BY StreamAssumption DEF StreamAssumption
<1>2. N \in Nat /\ n \in Nat /\ n < N
  <2>1. DOMAIN s.cell = 1 .. N /\ 1 \in s.starts /\ s.starts \subseteq DOMAIN s.cell
    BY <1>1 DEF Song
  <2> HIDE DEF N
  <2>2. Len(s.cell) \in Nat
    BY <1>1, <2>1 DEF Song
  <2>3. n \in 0 .. N - 1 /\ N \in Nat
    BY <2>2 DEF N
  <2> QED BY <2>1, <2>3
<1>3. s.starts \subseteq 1 .. N
  BY <1>1 DEF Song
<1> HIDE DEF N
<1>4. \A m : Late(s, m) = {p \in s.starts : p > N - m}
  BY DEF Late, N
<1>5. /\ Late(s, 0) = {p \in s.starts : p > N} /\ Late(s, N) = {p \in s.starts : p > 0}
      /\ Late(s, n + 1) = {p \in s.starts : p > N - (n + 1)}
      /\ Late(s, n) = {p \in s.starts : p > N - n}
  <2>1. N - 0 = N /\ N - N = 0
    BY <1>2
  <2> QED BY <1>4, <2>1
<1>6. Late(s, 0) = {} /\ Late(s, N) = s.starts /\ s.starts \subseteq Nat
  BY <1>2, <1>3, <1>5
<1>7. /\ Late(s, n) \subseteq Late(s, n + 1)
      /\ N - n \notin Late(s, n)
      /\ N - n \notin s.starts => Late(s, n + 1) = Late(s, n)
      /\ N - n \in s.starts => Late(s, n + 1) = Late(s, n) \cup {N - n}
      /\ \A p \in s.starts : (p > N - n <=> p \in Late(s, n))
  <2>1. \A p \in s.starts : p > N - (n + 1) <=> p > N - n \/ p = N - n
    BY <1>2, <1>3
  <2>2. ~(N - n > N - n)
    BY <1>2
  <2> QED BY <1>5, <2>1, <2>2
<1>8. N - n \in Nat
  BY <1>2
<1> QED BY <1>2, <1>6, <1>7, <1>8 DEF N

(* There is such a text, from the last event to the first. *)
LEMMA TextDefined ==
  ASSUME NEW s \in Songs
  PROVE  \E f : f = [p \in s.starts |-> TextAt(s, f, p)]
<1> DEFINE N == Len(s.cell)
           Upto(f, n) == /\ f = [p \in Late(s, n) |-> TextAt(s, f, p)]
                         /\ \A p \in Late(s, n) : Fits(s, p, f[p])
           G == {n \in 0 .. N : \E f : Upto(f, n)}
<1>0. N \in Nat /\ N > 0
  <2>1. DOMAIN s.cell = 1 .. N /\ 1 \in s.starts /\ s.starts \subseteq DOMAIN s.cell
    BY StreamAssumption DEF StreamAssumption, Song
  <2>2. Len(s.cell) \in Nat
    BY StreamAssumption, <2>1 DEF StreamAssumption, Song
  <2> HIDE DEF N
  <2> QED BY <2>1, <2>2 DEF N
<1>1. 0 \in G
  <2>1. Late(s, 0) = {}
    BY <1>0, LateIs
  <2> DEFINE f == [p \in {} |-> p]
  <2>2. f = [p \in {} |-> TextAt(s, f, p)]
    OBVIOUS
  <2>3. Upto(f, 0)
    <3> HIDE DEF f
    <3> QED BY <2>1, <2>2
  <2>4. \E h : Upto(h, 0)
    <3> HIDE DEF Upto
    <3> QED BY <2>3
  <2> QED BY <1>0, <2>4
<1>2. ASSUME NEW n \in 0 .. N - 1, n \in G PROVE n + 1 \in G
  <2>1. PICK f : Upto(f, n)
    BY <1>2
  <2> DEFINE p == N - n
  <2>2. n + 1 \in 0 .. N
    BY <1>0
  <2>3. CASE p \notin s.starts
    <3>1. Late(s, n + 1) = Late(s, n)
      BY <2>3, LateIs
    <3>2. Upto(f, n + 1)
      BY <2>1, <3>1
    <3> QED BY <2>2, <3>2
  <2>4. CASE p \in s.starts
    <3> DEFINE g == [q \in Late(s, n + 1) |-> IF q = p THEN TextAt(s, f, p) ELSE f[q]]
    <3>1. /\ Late(s, n + 1) = Late(s, n) \cup {p} /\ p \notin Late(s, n)
          /\ \A q \in s.starts : (q > p <=> q \in Late(s, n))
          /\ s.starts \subseteq Nat /\ p \in Nat
      BY <2>4, LateIs
    <3> HIDE DEF p
    <3>2. g[p] = TextAt(s, f, p) /\ \A q \in Late(s, n) : g[q] = f[q]
      BY <3>1
    <3>3. g = [q \in Late(s, n + 1) |-> g[q]]
      OBVIOUS
    <3> HIDE DEF g
    <3>4. \A q \in Late(s, n) : q \in s.starts /\ f[q] = TextAt(s, f, q) /\ Fits(s, q, f[q])
      BY <2>1 DEF Late
    <3>5. ASSUME NEW q \in s.starts, q >= p
          PROVE  TextAt(s, g, q) = TextAt(s, f, q)
      <4>1. \A r \in s.starts : r > q => g[r] = f[r] /\ Fits(s, r, f[r])
        BY <3>1, <3>2, <3>4, <3>5
      <4> QED BY <4>1, TextAtLocal
    <3>6. Fits(s, p, TextAt(s, f, p))
      <4>1. \A r \in s.starts : r > p => Fits(s, r, f[r])
        BY <3>1, <3>4
      <4> QED BY <2>4, <4>1, TextAtFits
    <3>7. \A q \in Late(s, n + 1) : g[q] = TextAt(s, g, q) /\ Fits(s, q, g[q])
      <4>1. g[p] = TextAt(s, g, p)
        BY <2>4, <3>1, <3>2, <3>5
      <4>2. \A q \in Late(s, n) : q >= p
        BY <3>1, <3>4
      <4>3. \A q \in Late(s, n) : g[q] = TextAt(s, g, q)
        BY <3>2, <3>4, <3>5, <4>2
      <4> QED BY <3>1, <3>2, <3>4, <3>6, <4>1, <4>3
    <3>8. g = [q \in Late(s, n + 1) |-> TextAt(s, g, q)]
      BY <3>3, <3>7
    <3>9. Upto(g, n + 1)
      BY <3>7, <3>8
    <3> QED BY <2>2, <3>9
  <2> QED BY <2>3, <2>4
<1>3. N \in G
  <2> HIDE DEF G, N
  <2>1. 0 .. N \subseteq G
    BY <1>0, <1>1, <1>2, Upwards
  <2> QED BY <1>0, <2>1
<1>4. PICK f : Upto(f, N)
  BY <1>3
<1>5. Late(s, N) = s.starts
  <2>1. 0 \in 0 .. N - 1
    BY <1>0
  <2> QED BY <2>1, LateIs
<1> QED BY <1>4, <1>5

(* The text is what TextAt makes of it, and fits everywhere. *)
LEMMA TextIs ==
  ASSUME NEW s \in Songs, NEW p \in s.starts
  PROVE  Text(s)[p] = TextAt(s, Text(s), p) /\ Fits(s, p, Text(s)[p])
<1> DEFINE N == Len(s.cell)
           T == CHOOSE f : f = [q \in s.starts |-> TextAt(s, f, q)]
           G == {n \in 0 .. N : \A q \in Late(s, n) : Fits(s, q, T[q])}
<1>1. Text(s) = T
  BY DEF Text
<1>2. T = [q \in s.starts |-> TextAt(s, T, q)]
  BY TextDefined
<1> HIDE DEF T
<1>0. N \in Nat /\ 0 \in 0 .. N - 1
  <2>1. DOMAIN s.cell = 1 .. N /\ 1 \in s.starts /\ s.starts \subseteq DOMAIN s.cell
    BY StreamAssumption DEF StreamAssumption, Song
  <2>2. Len(s.cell) \in Nat
    BY StreamAssumption, <2>1 DEF StreamAssumption, Song
  <2> HIDE DEF N
  <2> QED BY <2>1, <2>2 DEF N
<1>3. 0 \in G
  <2>1. Late(s, 0) = {}
    BY <1>0, LateIs
  <2> QED BY <1>0, <2>1
<1>4. ASSUME NEW n \in 0 .. N - 1, n \in G PROVE n + 1 \in G
  <2>0. n + 1 \in 0 .. N
    BY <1>0
  <2> DEFINE r == N - n
  <2>1. CASE r \notin s.starts
    <3>1. Late(s, n + 1) = Late(s, n)
      BY <2>1, LateIs
    <3> QED BY <1>4, <2>0, <3>1
  <2>2. CASE r \in s.starts
    <3>1. /\ Late(s, n + 1) = Late(s, n) \cup {r}
          /\ \A q \in s.starts : (q > r <=> q \in Late(s, n))
      BY <2>2, LateIs
    <3> HIDE DEF r
    <3>2. \A q \in s.starts : q > r => Fits(s, q, T[q])
      BY <1>4, <3>1
    <3>3. Fits(s, r, TextAt(s, T, r))
      BY <2>2, <3>2, TextAtFits
    <3>4. T[r] = TextAt(s, T, r)
      BY <1>2, <2>2
    <3> QED BY <1>4, <2>0, <3>1, <3>3, <3>4
  <2> QED BY <2>1, <2>2
<1>5. N \in G
  <2> HIDE DEF G, N
  <2>1. 0 .. N \subseteq G
    BY <1>0, <1>3, <1>4, Upwards
  <2> QED BY <1>0, <2>1
<1>6. Late(s, N) = s.starts
  BY <1>0, LateIs
<1> QED BY <1>1, <1>2, <1>5, <1>6

(* The notes from the event at p on, where d loops are open, the NEXT that *)
(* closes the innermost, and the place behind an event.                    *)
Notes(s, p, d) == Text(s)[p][d].notes
Close(s, p, d) == Text(s)[p][d].close
Past(s, p)     == p + s.cell[p].size

Sounds(e) == IF e.kind = "note" THEN <<e.val>> ELSE Silence

(* How the text at an event follows from the text after it. *)
LEMMA Reading ==
  ASSUME NEW s \in Songs, NEW p \in s.starts, NEW d \in Levels
  PROVE  LET e == s.cell[p]
             n == Past(s, p)
             c == Close(s, n, d + 1)
         IN /\ Notes(s, p, d) \in Music /\ Close(s, p, d) \in Beyond(s, p)
            /\ e.kind = "end" => Notes(s, p, d) = Silence /\ Close(s, p, d) = 0
            /\ Closes(e, d) => Notes(s, p, d) = Silence /\ Close(s, p, d) = p
            /\ Opens(e, d) /\ c = 0 =>
                 Notes(s, p, d) = Notes(s, n, d + 1) /\ Close(s, p, d) = 0
            /\ Opens(e, d) /\ c # 0 =>
                 /\ Notes(s, p, d) = Join(Repeat(e.val, Notes(s, n, d + 1)), Notes(s, Past(s, c), d))
                 /\ Close(s, p, d) = Close(s, Past(s, c), d)
            /\ e.kind # "end" /\ ~Closes(e, d) /\ ~Opens(e, d) =>
                 /\ Notes(s, p, d) = Join(Sounds(e), Notes(s, n, d))
                 /\ Close(s, p, d) = Close(s, n, d)
<1>1. Cases(s, Text(s), p, d, Text(s)[p][d])
  BY TextIs, TextCases
<1>2. Notes(s, p, d) \in Music /\ Close(s, p, d) \in Beyond(s, p)
  BY TextIs DEF Fits, Notes, Close
<1>3. s.cell[p].kind = "note" => ~Closes(s.cell[p], d) /\ ~Opens(s.cell[p], d)
  BY DEF Closes, Opens
<1>4. /\ \A q, k : Behind(s, Text(s), q, k).notes = Notes(s, Past(s, q), k)
      /\ \A q, k : Behind(s, Text(s), q, k).close = Close(s, Past(s, q), k)
      /\ Text(s)[p][d].notes = Notes(s, p, d) /\ Text(s)[p][d].close = Close(s, p, d)
  BY DEF Behind, Notes, Close, Past
<1>5. Opens(s.cell[p], d) /\ Close(s, Past(s, p), d + 1) = 0 =>
        Notes(s, p, d) = Notes(s, Past(s, p), d + 1) /\ Close(s, p, d) = 0
  <2>1. Opens(s.cell[p], d) /\ Behind(s, Text(s), p, d + 1).close = 0 =>
          Text(s)[p][d] = Behind(s, Text(s), p, d + 1)
    BY <1>1 DEF Cases
  <2> QED BY <2>1, <1>4
<1> QED BY <1>1, <1>2, <1>3, <1>4, <1>5 DEF Cases, Sounds

(* The story of a song s: at p, inside d loops, x has been heard since o,  *)
(* and tail[k] is what comes after the k-th open loop, its further rounds  *)
(* first.  Loop k is the one of slot k - 1; cnt and ptrs are the slots.    *)
(* It is closed where it was to be closed when it was opened, seen from    *)
(* within as from the loop inside it and from the pointer.                 *)
Left(n) == IF n <= 1 THEN 0 ELSE n - 1

Rest(s, cnt, ptrs, tail, k) ==
  LET body == Past(s, ptrs[k - 1])
      c == Close(s, body, k)
  IN IF c = 0 THEN Silence
     ELSE Join(Repeat(Left(cnt[k - 1]), Notes(s, body, k)),
               Join(Notes(s, Past(s, c), k - 1), tail[k - 1]))

Stack(s, cnt, ptrs, d, tail) ==
  /\ d \in Levels
  /\ cnt \in [Depths -> -1 .. 127]
  /\ \A k \in Depths : cnt[k] # -1 <=> k < d
  /\ \A k \in 0 .. d - 1 : ptrs[k] \in s.starts /\ s.cell[ptrs[k]].kind = "for"
  /\ \A k \in Levels : tail[k] \in Music
  /\ tail[0] = Silence
  /\ \A k \in 1 .. d : tail[k] = Rest(s, cnt, ptrs, tail, k)
  /\ \A k \in 1 .. d - 1 : Close(s, ptrs[k], k) = Close(s, Past(s, ptrs[k - 1]), k)

Within(s, ptrs, p, d) == d > 0 => Close(s, p, d) = Close(s, Past(s, ptrs[d - 1]), d)

Tale(s, cnt, ptrs, p, x, o, d, tail) ==
  /\ Stack(s, cnt, ptrs, d, tail)
  /\ Within(s, ptrs, p, d)
  /\ p \in s.starts /\ o \in s.starts /\ x \in Music
  /\ Notes(s, o, 0) = Join(x, Join(Notes(s, p, d), tail[d]))

(* Every tale begins with nothing heard and no loop open. *)
LEMMA TaleBegins ==
  ASSUME NEW s \in Songs, NEW p \in s.starts, NEW ptrs
  PROVE  \E d, tail : Tale(s, NoLoops, ptrs, p, Silence, p, d, tail)
<1> DEFINE tail == [k \in Levels |-> Silence]
<1>0. FOR_NEST \in Nat \ {0} /\ 0 \in Levels
  BY StreamAssumption DEF StreamAssumption, Levels
<1>1. tail[0] = Silence /\ \A k \in Levels : tail[k] \in Music
  BY <1>0, Sound
<1> HIDE DEF tail
<1>2. NoLoops \in [Depths -> -1 .. 127] /\ \A k \in Depths : NoLoops[k] = -1 /\ ~(k < 0)
  BY <1>0 DEF NoLoops, Depths
<1>3. Stack(s, NoLoops, ptrs, 0, tail)
  BY <1>0, <1>1, <1>2 DEF Stack
<1>4. Notes(s, p, 0) \in Music
  BY <1>0, Reading
<1>5. Notes(s, p, 0) = Join(Silence, Join(Notes(s, p, 0), tail[0]))
  BY <1>1, <1>4, Joined
<1>6. Tale(s, NoLoops, ptrs, p, Silence, p, 0, tail)
  BY <1>3, <1>5, Sound DEF Tale, Within
<1> QED BY <1>6

(* A step over an event that neither opens nor closes a loop. *)
LEMMA TaleGoesOn ==
  ASSUME NEW s \in Songs, NEW cnt, NEW ptrs, NEW p, NEW x, NEW o, NEW d, NEW tail,
         Tale(s, cnt, ptrs, p, x, o, d, tail),
         s.cell[p].kind # "end", ~Closes(s.cell[p], d), ~Opens(s.cell[p], d)
  PROVE  Tale(s, cnt, ptrs, Past(s, p), Join(x, Sounds(s.cell[p])), o, d, tail)
<1> DEFINE e == s.cell[p]
           n == Past(s, p)
<1>1. p \in s.starts /\ d \in Levels /\ x \in Music /\ tail[d] \in Music
  BY DEF Tale, Stack
<1>2. n \in s.starts
  BY <1>1, EventFollows DEF Past
<1>3. Sounds(e) \in Music
  BY <1>1, EventFollows, OneNote, Sound DEF Sounds, Vals
<1>4. /\ Notes(s, p, d) = Join(Sounds(e), Notes(s, n, d))
      /\ Close(s, p, d) = Close(s, n, d)
  BY <1>1, Reading
<1>5. Notes(s, n, d) \in Music
  BY <1>1, <1>2, Reading
<1> HIDE DEF e, n
<1>6. Join(Join(x, Sounds(e)), Join(Notes(s, n, d), tail[d]))
        = Join(x, Join(Join(Sounds(e), Notes(s, n, d)), tail[d]))
  BY <1>1, <1>3, <1>5, Regrouped
<1>7. Join(x, Sounds(e)) \in Music
  BY <1>1, <1>3, Sound
<1>8. Tale(s, cnt, ptrs, n, Join(x, Sounds(e)), o, d, tail)
  BY <1>2, <1>4, <1>6, <1>7 DEF Tale, Within
<1> QED BY <1>8 DEF e, n

(* A FOR with a slot left: its loop is the innermost from here on, and     *)
(* what comes after it, its other rounds first, is a tail of its own.      *)
LEMMA TaleOpens ==
  ASSUME NEW s \in Songs, NEW cnt, NEW ptrs, NEW p, NEW x, NEW o, NEW d, NEW tail,
         Tale(s, cnt, ptrs, p, x, o, d, tail), Opens(s.cell[p], d), PlainLoops(s),
         NEW cnt2, cnt2 = [cnt EXCEPT ![d] = s.cell[p].val],
         NEW ptrs2, ptrs2 = [ptrs EXCEPT ![d] = p], ptrs \in [Depths -> Int]
  PROVE  \E t : Tale(s, cnt2, ptrs2, Past(s, p), x, o, d + 1, t)
<1> DEFINE e == s.cell[p]
           n == Past(s, p)
           new == Rest(s, cnt2, ptrs2, tail, d + 1)
           t == [k \in Levels |-> IF k = d + 1 THEN new ELSE tail[k]]
           loop == Notes(s, n, d + 1)
           c == Close(s, n, d + 1)
           after == Notes(s, Past(s, c), d)
<1>0. FOR_NEST \in Nat \ {0} /\ d \in 0 .. FOR_NEST - 1 /\ d \in Levels /\ d \in Depths
      /\ d + 1 \in Levels /\ (d + 1) - 1 = d /\ d \in Nat
  BY StreamAssumption DEF StreamAssumption, Tale, Stack, Opens, Levels, Depths
<1>1. /\ p \in s.starts /\ x \in Music /\ e.kind = "for" /\ e.val \in 0 .. 127
      /\ n \in s.starts
  BY EventFollows DEF Tale, Opens, Past
<1>2. /\ cnt2[d] = e.val /\ ptrs2[d] = p
      /\ \A k \in Depths : k # d => cnt2[k] = cnt[k] /\ ptrs2[k] = ptrs[k]
      /\ cnt2 \in [Depths -> -1 .. 127]
  BY <1>0, <1>1 DEF Tale, Stack
<1>3. /\ loop \in Music /\ c \in Beyond(s, n)
      /\ c = 0 => Notes(s, p, d) = loop /\ Close(s, p, d) = 0
      /\ c # 0 => /\ Notes(s, p, d) = Join(Repeat(e.val, loop), after)
                  /\ Close(s, p, d) = Close(s, Past(s, c), d)
  BY <1>0, <1>1, Reading
<1>4. new = IF c = 0 THEN Silence
            ELSE Join(Repeat(Left(e.val), loop), Join(after, tail[d]))
  BY <1>0, <1>2 DEF Rest
<1>5. tail[d] \in Music /\ (\A k \in Levels : tail[k] \in Music) /\ tail[0] = Silence
      /\ \A k \in 1 .. d : tail[k] = Rest(s, cnt, ptrs, tail, k)
  BY <1>0 DEF Tale, Stack
<1>6. c # 0 => after \in Music
  <2>1. c # 0 => Past(s, c) \in s.starts
    BY <1>1, <1>3, EventFollows DEF Beyond, Past
  <2> QED BY <1>0, <2>1, Reading
<1>7. e.val \in 1 .. 127 /\ Left(e.val) \in 0 .. 126 /\ e.val - 1 = Left(e.val)
      /\ Left(e.val) \in 0 .. 127
  <2>1. e.val # 0
    BY <1>1 DEF PlainLoops
  <2> QED BY <1>1, <2>1 DEF Left
<1>8. c = 0 => tail[d] = Silence
  <2>1. CASE d = 0
    BY <1>5, <2>1
  <2>2. CASE d # 0
    <3>1. Close(s, p, d) = Close(s, Past(s, ptrs[d - 1]), d)
      BY <1>0, <2>2 DEF Tale, Within
    <3>2. tail[d] = Rest(s, cnt, ptrs, tail, d)
      BY <1>0, <1>5, <2>2
    <3> QED BY <1>3, <3>1, <3>2 DEF Rest
  <2> QED BY <2>1, <2>2
<1>9. new \in Music /\ Join(Notes(s, p, d), tail[d]) = Join(loop, new)
  <2>1. CASE c = 0
    <3> HIDE DEF c, loop, new, after
    <3> QED BY <1>3, <1>4, <1>8, <2>1, Sound
  <2>2. CASE c # 0
    <3> DEFINE more == Repeat(Left(e.val), loop)
    <3>1. more \in Music /\ Repeat(e.val, loop) = Join(loop, more)
      BY <1>3, <1>7, RepeatIs
    <3> HIDE DEF more, c, loop, after, e
    <3>2. new = Join(more, Join(after, tail[d]))
      BY <1>4, <2>2 DEF more
    <3>3. Notes(s, p, d) = Join(Join(loop, more), after)
      BY <1>3, <2>2, <3>1
    <3> HIDE DEF new
    <3>4. new \in Music
      BY <1>5, <1>6, <2>2, <3>1, <3>2, Sound
    <3>5. Join(Join(Join(loop, more), after), tail[d]) = Join(loop, Join(more, Join(after, tail[d])))
      BY <1>3, <1>5, <1>6, <2>2, <3>1, RegroupedAll
    <3> QED BY <3>2, <3>3, <3>4, <3>5
  <2> QED BY <2>1, <2>2
<1>10. t[d + 1] = new /\ (\A k \in 0 .. d : t[k] = tail[k]) /\ t[0] = Silence
       /\ \A k \in Levels : t[k] \in Music
  <2> HIDE DEF new
  <2>1. \A k \in 0 .. d : k \in Levels /\ k # d + 1
    BY <1>0 DEF Levels
  <2>2. 0 \in 0 .. d
    BY <1>0
  <2> QED BY <1>0, <1>5, <1>9, <2>1, <2>2
<1> HIDE DEF t
<1>11. \A k \in 1 .. d : Rest(s, cnt2, ptrs2, t, k) = Rest(s, cnt, ptrs, tail, k)
  <2>1. SUFFICES ASSUME NEW k \in 1 .. d
                 PROVE  Rest(s, cnt2, ptrs2, t, k) = Rest(s, cnt, ptrs, tail, k)
    OBVIOUS
  <2>2. k - 1 \in Depths /\ k - 1 # d /\ k - 1 \in 0 .. d
    BY <1>0 DEF Depths
  <2> QED BY <1>2, <1>10, <2>2 DEF Rest
<1>12. Rest(s, cnt2, ptrs2, t, d + 1) = new
  BY <1>0, <1>10 DEF Rest
<1>13. Stack(s, cnt2, ptrs2, d + 1, t)
  <2>1. \A k \in Depths : cnt2[k] # -1 <=> k < d + 1
    <3>1. \A k \in Depths : k \in Int /\ (cnt[k] # -1 <=> k < d)
      BY DEF Tale, Stack, Depths
    <3>2. cnt2[d] # -1 /\ d < d + 1
      BY <1>0, <1>1, <1>2
    <3>3. ASSUME NEW k \in Depths, k # d PROVE cnt2[k] # -1 <=> k < d + 1
      <4>1. k < d <=> k < d + 1
        BY <1>0, <3>1, <3>3
      <4> QED BY <1>2, <3>1, <3>3, <4>1
    <3> QED BY <3>2, <3>3
  <2>2. \A k \in 0 .. (d + 1) - 1 : ptrs2[k] \in s.starts /\ s.cell[ptrs2[k]].kind = "for"
    <3>1. \A k \in 0 .. d - 1 : ptrs[k] \in s.starts /\ s.cell[ptrs[k]].kind = "for"
      BY DEF Tale, Stack
    <3>2. \A k \in 0 .. (d + 1) - 1 : k = d \/ (k \in 0 .. d - 1 /\ k \in Depths /\ k # d)
      BY <1>0 DEF Depths
    <3> QED BY <1>1, <1>2, <3>1, <3>2
  <2>3. \A k \in 1 .. d + 1 : t[k] = Rest(s, cnt2, ptrs2, t, k)
    <3>1. \A k \in 1 .. d + 1 : k = d + 1 \/ (k \in 1 .. d /\ k \in 0 .. d)
      BY <1>0
    <3> HIDE DEF new
    <3> QED BY <1>5, <1>10, <1>11, <1>12, <3>1
  <2>4. \A k \in 1 .. (d + 1) - 1 : Close(s, ptrs2[k], k) = Close(s, Past(s, ptrs2[k - 1]), k)
    <3>1. SUFFICES ASSUME NEW k \in 1 .. (d + 1) - 1
                   PROVE  Close(s, ptrs2[k], k) = Close(s, Past(s, ptrs2[k - 1]), k)
      OBVIOUS
    <3>2. k - 1 \in Depths /\ k - 1 # d /\ k \in Depths
      BY <1>0 DEF Depths
    <3>3. CASE k = d
      <4>1. Close(s, p, d) = Close(s, Past(s, ptrs[d - 1]), d)
        BY <1>0, <3>3 DEF Tale, Within
      <4> QED BY <1>2, <3>2, <3>3, <4>1
    <3>4. CASE k # d
      <4>1. k \in 1 .. d - 1
        BY <1>0, <3>4
      <4>2. Close(s, ptrs[k], k) = Close(s, Past(s, ptrs[k - 1]), k)
        BY <4>1 DEF Tale, Stack
      <4> QED BY <1>2, <3>2, <3>4, <4>2
    <3> QED BY <3>3, <3>4
  <2> QED BY <1>0, <1>2, <1>10, <2>1, <2>2, <2>3, <2>4 DEF Stack
<1>14. Within(s, ptrs2, n, d + 1)
  BY <1>0, <1>2 DEF Within
<1>15. Notes(s, o, 0) = Join(x, Join(Notes(s, n, d + 1), t[d + 1])) /\ o \in s.starts
  BY <1>9, <1>10 DEF Tale
<1>16. Tale(s, cnt2, ptrs2, n, x, o, d + 1, t)
  BY <1>1, <1>13, <1>14, <1>15 DEF Tale
<1> QED BY <1>16

(* A NEXT that closes: it is where the innermost loop was to be closed, so *)
(* what is left is that loop's tail.                                       *)
LEMMA TaleAtNext ==
  ASSUME NEW s \in Songs, NEW cnt, NEW ptrs, NEW p, NEW x, NEW o, NEW d, NEW tail,
         Tale(s, cnt, ptrs, p, x, o, d, tail), Closes(s.cell[p], d)
  PROVE  LET f == ptrs[d - 1]
             body == Notes(s, Past(s, f), d)
             after == Notes(s, Past(s, p), d - 1)
         IN /\ d \in 1 .. FOR_NEST /\ d - 1 \in Depths /\ d - 1 \in Levels
            /\ f \in s.starts /\ s.cell[f].kind = "for" /\ Past(s, f) \in s.starts
            /\ Past(s, p) \in s.starts
            /\ cnt[d - 1] \in 0 .. 127
            /\ body \in Music /\ after \in Music /\ tail[d - 1] \in Music
            /\ Close(s, Past(s, f), d) = p /\ p # 0
            /\ Close(s, f, d - 1) = Close(s, Past(s, p), d - 1)
            /\ tail[d] = Join(Repeat(Left(cnt[d - 1]), body), Join(after, tail[d - 1]))
            /\ Notes(s, o, 0) = Join(x, tail[d])
<1> DEFINE f == ptrs[d - 1]
           body == Notes(s, Past(s, f), d)
           after == Notes(s, Past(s, p), d - 1)
<1>1. /\ d \in 1 .. FOR_NEST /\ d \in Levels /\ d - 1 \in Depths /\ d - 1 \in Levels
      /\ d - 1 < FOR_NEST /\ d - 1 \in 0 .. d - 1 /\ (d - 1) + 1 = d /\ d \in 1 .. d /\ d > 0
      /\ d \in Int
  BY StreamAssumption DEF StreamAssumption, Tale, Stack, Closes, Levels, Depths
<1>2. f \in s.starts /\ s.cell[f].kind = "for" /\ Past(s, f) \in s.starts
  <2>1. f \in s.starts /\ s.cell[f].kind = "for"
    BY <1>1 DEF Tale, Stack
  <2> QED BY <2>1, EventFollows DEF Past
<1>3. p \in s.starts /\ p # 0 /\ Past(s, p) \in s.starts
  <2>1. p \in s.starts /\ s.cell[p].kind = "next"
    BY DEF Tale, Closes
  <2>2. p # 0
    BY <2>1, StreamAssumption DEF StreamAssumption, Song
  <2> QED BY <2>1, <2>2, EventFollows DEF Past
<1>4. cnt[d - 1] \in 0 .. 127
  <2>1. cnt[d - 1] \in -1 .. 127 /\ (cnt[d - 1] # -1 <=> d - 1 < d)
    BY <1>1 DEF Tale, Stack
  <2> HIDE DEF f, body, after
  <2>2. d - 1 < d
    BY <1>1
  <2> QED BY <2>1, <2>2
<1>5. Notes(s, p, d) = Silence /\ Close(s, p, d) = p
  BY <1>1, <1>3, Reading
<1>6. Close(s, Past(s, f), d) = p
  BY <1>1, <1>5 DEF Tale, Within
<1>7. Close(s, f, d - 1) = Close(s, Past(s, p), d - 1)
  <2>1. Opens(s.cell[f], d - 1)
    BY <1>1, <1>2 DEF Opens
  <2> HIDE DEF f
  <2>2. Close(s, Past(s, f), (d - 1) + 1) = p
    BY <1>1, <1>6
  <2> QED BY <1>1, <1>2, <1>3, <2>1, <2>2, Reading
<1>8. body \in Music /\ after \in Music /\ tail[d - 1] \in Music /\ tail[d] \in Music /\ x \in Music
  BY <1>1, <1>2, <1>3, Reading DEF Tale, Stack
<1>9. tail[d] = Join(Repeat(Left(cnt[d - 1]), body), Join(after, tail[d - 1]))
  <2>1. tail[d] = Rest(s, cnt, ptrs, tail, d)
    BY <1>1 DEF Tale, Stack
  <2> QED BY <1>3, <1>6, <2>1 DEF Rest
<1>10. Notes(s, o, 0) = Join(x, tail[d])
  <2>1. Notes(s, o, 0) = Join(x, Join(Silence, tail[d]))
    BY <1>5 DEF Tale
  <2> QED BY <1>8, <2>1, Joined
<1> QED BY <1>1, <1>2, <1>3, <1>4, <1>6, <1>7, <1>8, <1>9, <1>10

(* The last round is over: what follows is the text behind the NEXT, with  *)
(* one loop less open.                                                     *)
LEMMA TaleCloses ==
  ASSUME NEW s \in Songs, NEW cnt, NEW ptrs, NEW p, NEW x, NEW o, NEW d, NEW tail,
         Tale(s, cnt, ptrs, p, x, o, d, tail), Closes(s.cell[p], d), cnt[d - 1] <= 1,
         NEW cnt2, cnt2 = [cnt EXCEPT ![d - 1] = -1]
  PROVE  Tale(s, cnt2, ptrs, Past(s, p), x, o, d - 1, tail)
<1> DEFINE f == ptrs[d - 1]
           n == Past(s, p)
           b == d - 1
           body == Notes(s, Past(s, f), d)
           after == Notes(s, n, b)
<1>1. /\ d \in 1 .. FOR_NEST /\ b \in Depths /\ b \in Levels
      /\ n \in s.starts /\ cnt[b] \in 0 .. 127
      /\ body \in Music /\ after \in Music /\ tail[b] \in Music
      /\ Close(s, f, b) = Close(s, n, b)
      /\ tail[d] = Join(Repeat(Left(cnt[b]), body), Join(after, tail[b]))
      /\ Notes(s, o, 0) = Join(x, tail[d])
  BY TaleAtNext
<1>2. b \in Int /\ b >= 0 /\ b + 1 = d /\ d \in Int /\ FOR_NEST \in Nat
  BY <1>1, StreamAssumption DEF StreamAssumption
<1>3. Join(after, tail[b]) \in Music
  <2> HIDE DEF after, b
  <2> QED BY <1>1, Sound
<1>4. Notes(s, o, 0) = Join(x, Join(after, tail[b]))
  <2>1. Left(cnt[b]) = 0
    BY DEF Left
  <2> HIDE DEF after, b, body
  <2>2. Repeat(0, body) = Silence
    BY <1>1, RepeatIs
  <2>3. tail[d] = Join(Silence, Join(after, tail[b]))
    BY <1>1, <2>1, <2>2
  <2> QED BY <1>1, <1>3, <2>3, Joined
<1>5. /\ cnt \in [Depths -> -1 .. 127]
      /\ \A k \in Depths : cnt[k] # -1 <=> k < d
      /\ \A k \in 0 .. d - 1 : ptrs[k] \in s.starts /\ s.cell[ptrs[k]].kind = "for"
      /\ \A k \in Levels : tail[k] \in Music
      /\ tail[0] = Silence
      /\ \A k \in 1 .. d : tail[k] = Rest(s, cnt, ptrs, tail, k)
      /\ \A k \in 1 .. d - 1 : Close(s, ptrs[k], k) = Close(s, Past(s, ptrs[k - 1]), k)
      /\ x \in Music /\ o \in s.starts
  BY DEF Tale, Stack
<1>6. /\ cnt2[b] = -1 /\ cnt2 \in [Depths -> -1 .. 127]
      /\ \A k \in Depths : k # b => cnt2[k] = cnt[k]
  BY <1>1, <1>5
<1> HIDE DEF b
<1>7. \A k \in Depths : cnt2[k] # -1 <=> k < b
  <2>1. SUFFICES ASSUME NEW k \in Depths PROVE cnt2[k] # -1 <=> k < b
    OBVIOUS
  <2>2. CASE k = b
    BY <1>2, <1>6, <2>2
  <2>3. CASE k # b
    <3>1. k < b <=> k < d
      BY <1>2, <2>3 DEF Depths
    <3> QED BY <1>5, <1>6, <2>3, <3>1
  <2> QED BY <2>2, <2>3
<1>8. \A k \in 1 .. b : tail[k] = Rest(s, cnt2, ptrs, tail, k)
  <2>1. SUFFICES ASSUME NEW k \in 1 .. b PROVE tail[k] = Rest(s, cnt2, ptrs, tail, k)
    OBVIOUS
  <2>2. k - 1 \in Depths /\ k - 1 # b /\ k \in 1 .. d
    BY <1>1, <1>2 DEF Depths
  <2>3. cnt2[k - 1] = cnt[k - 1]
    BY <1>6, <2>2
  <2>4. tail[k] = Rest(s, cnt, ptrs, tail, k)
    BY <1>5, <2>2
  <2> QED BY <2>3, <2>4 DEF Rest
<1>9. Stack(s, cnt2, ptrs, b, tail)
  <2>1. \A k \in 0 .. b - 1 : k \in 0 .. d - 1
    BY <1>2
  <2>2. \A k \in 1 .. b - 1 : k \in 1 .. d - 1
    BY <1>2
  <2> QED BY <1>1, <1>5, <1>6, <1>7, <1>8, <2>1, <2>2 DEF Stack
<1>10. Within(s, ptrs, n, b)
  <2>1. SUFFICES ASSUME b > 0 PROVE Close(s, n, b) = Close(s, Past(s, ptrs[b - 1]), b)
    BY DEF Within
  <2>2. b \in 1 .. d - 1 /\ b = d - 1
    BY <1>2, <2>1 DEF b
  <2>3. Close(s, ptrs[b], b) = Close(s, Past(s, ptrs[b - 1]), b)
    BY <1>5, <2>2
  <2> QED BY <1>1, <2>2, <2>3
<1>11. Tale(s, cnt2, ptrs, n, x, o, b, tail)
  BY <1>1, <1>4, <1>5, <1>9, <1>10 DEF Tale
<1> QED BY <1>11 DEF b

(* Another round: the text of the body again, and its tail a round less.   *)
LEMMA TaleAgain ==
  ASSUME NEW s \in Songs, NEW cnt, NEW ptrs, NEW p, NEW x, NEW o, NEW d, NEW tail,
         Tale(s, cnt, ptrs, p, x, o, d, tail), Closes(s.cell[p], d), cnt[d - 1] > 1,
         NEW cnt2, cnt2 = [cnt EXCEPT ![d - 1] = cnt[d - 1] - 1]
  PROVE  \E t : Tale(s, cnt2, ptrs, Past(s, ptrs[d - 1]), x, o, d, t)
<1> DEFINE b == d - 1
           f == ptrs[b]
           n == Past(s, f)
           body == Notes(s, n, d)
           after == Notes(s, Past(s, p), b)
           new == Rest(s, cnt2, ptrs, tail, d)
           t == [k \in Levels |-> IF k = d THEN new ELSE tail[k]]
           more == Repeat(cnt[b] - 2, body)
           A == Join(after, tail[b])
<1>1. /\ d \in 1 .. FOR_NEST /\ b \in Depths /\ b \in Levels
      /\ n \in s.starts /\ cnt[b] \in 0 .. 127
      /\ body \in Music /\ after \in Music /\ tail[b] \in Music
      /\ Close(s, n, d) = p /\ p # 0
      /\ tail[d] = Join(Repeat(Left(cnt[b]), body), Join(after, tail[b]))
      /\ Notes(s, o, 0) = Join(x, tail[d])
  BY TaleAtNext
<1>2. b \in Int /\ b >= 0 /\ b + 1 = d /\ d \in Int /\ FOR_NEST \in Nat /\ d \in Levels /\ d # 0
      /\ b < d
  BY <1>1, StreamAssumption DEF StreamAssumption, Levels
<1>3. /\ cnt \in [Depths -> -1 .. 127]
      /\ \A k \in Depths : cnt[k] # -1 <=> k < d
      /\ \A k \in 0 .. d - 1 : ptrs[k] \in s.starts /\ s.cell[ptrs[k]].kind = "for"
      /\ \A k \in Levels : tail[k] \in Music
      /\ tail[0] = Silence
      /\ \A k \in 1 .. d : tail[k] = Rest(s, cnt, ptrs, tail, k)
      /\ \A k \in 1 .. d - 1 : Close(s, ptrs[k], k) = Close(s, Past(s, ptrs[k - 1]), k)
      /\ x \in Music /\ o \in s.starts
  BY DEF Tale, Stack
<1>4. /\ cnt[b] \in 2 .. 127 /\ Left(cnt[b]) = cnt[b] - 1 /\ Left(cnt[b] - 1) = cnt[b] - 2
      /\ cnt[b] - 1 \in 1 .. 127 /\ cnt[b] - 2 \in 0 .. 127 /\ (cnt[b] - 1) - 1 = cnt[b] - 2
      /\ cnt[b] - 1 \in -1 .. 127
  <2>1. cnt[b] > 1 /\ cnt[b] \in 0 .. 127
    BY <1>1
  <2> HIDE DEF b
  <2> QED BY <2>1 DEF Left
<1>5. /\ cnt2[b] = cnt[b] - 1 /\ cnt2 \in [Depths -> -1 .. 127]
      /\ \A k \in Depths : k # b => cnt2[k] = cnt[k]
  BY <1>1, <1>3, <1>4
<1>6. new = Join(more, A)
  <2>1. Close(s, Past(s, ptrs[d - 1]), d) # 0 /\ Close(s, Past(s, ptrs[d - 1]), d) = p
    BY <1>1
  <2>2. Left(cnt2[d - 1]) = cnt[b] - 2
    BY <1>4, <1>5
  <2> QED BY <2>1, <2>2 DEF Rest
<1>7. more \in Music /\ Repeat(cnt[b] - 1, body) = Join(body, more)
  <2> HIDE DEF body, b
  <2> QED BY <1>1, <1>4, RepeatIs
<1>8. A \in Music
  <2> HIDE DEF after, b
  <2> QED BY <1>1, Sound
<1>9. tail[d] = Join(body, new) /\ new \in Music
  <2>1. tail[d] = Join(Join(body, more), A)
    BY <1>1, <1>4, <1>7
  <2> HIDE DEF body, more, A, new
  <2>2. Join(Join(body, more), A) = Join(body, Join(more, A))
    BY <1>1, <1>7, <1>8, Joined
  <2>3. Join(more, A) \in Music
    BY <1>7, <1>8, Sound
  <2> QED BY <1>6, <2>1, <2>2, <2>3
<1>10. t[d] = new /\ (\A k \in 0 .. d - 1 : t[k] = tail[k]) /\ t[0] = Silence
       /\ \A k \in Levels : t[k] \in Music
  <2> HIDE DEF new
  <2>1. \A k \in 0 .. d - 1 : k \in Levels /\ k # d
    BY <1>1, <1>2 DEF Levels
  <2>2. 0 \in 0 .. d - 1
    BY <1>1, <1>2
  <2> QED BY <1>2, <1>3, <1>9, <2>1, <2>2
<1> HIDE DEF t, b
<1>11. \A k \in Depths : cnt2[k] # -1 <=> k < d
  <2>1. cnt2[b] # -1
    BY <1>4, <1>5
  <2> QED BY <1>2, <1>3, <1>5, <2>1
<1>12. \A k \in 1 .. d : t[k] = Rest(s, cnt2, ptrs, t, k)
  <2>1. SUFFICES ASSUME NEW k \in 1 .. d PROVE t[k] = Rest(s, cnt2, ptrs, t, k)
    OBVIOUS
  <2>2. k - 1 \in 0 .. d - 1
    BY <1>2
  <2>3. t[k - 1] = tail[k - 1]
    BY <1>10, <2>2
  <2>4. CASE k = d
    <3>1. Rest(s, cnt2, ptrs, t, d) = new
      BY <2>3, <2>4 DEF Rest
    <3> HIDE DEF new
    <3> QED BY <1>10, <2>4, <3>1
  <2>5. CASE k # d
    <3>1. k \in 0 .. d - 1 /\ k - 1 \in Depths /\ k - 1 # b
      BY <1>1, <1>2, <2>5 DEF Depths
    <3>2. t[k] = tail[k] /\ cnt2[k - 1] = cnt[k - 1]
      BY <1>5, <1>10, <3>1
    <3>3. tail[k] = Rest(s, cnt, ptrs, tail, k)
      BY <1>3
    <3> QED BY <2>3, <3>2, <3>3 DEF Rest
  <2> QED BY <2>4, <2>5
<1>13. Stack(s, cnt2, ptrs, d, t)
  BY <1>2, <1>3, <1>5, <1>10, <1>11, <1>12 DEF Stack
<1>14. Within(s, ptrs, n, d)
  BY DEF Within, b
<1>15. Notes(s, o, 0) = Join(x, Join(Notes(s, n, d), t[d]))
  <2> HIDE DEF new
  <2> QED BY <1>1, <1>9, <1>10
<1>16. Tale(s, cnt2, ptrs, n, x, o, d, t)
  BY <1>1, <1>3, <1>13, <1>14, <1>15 DEF Tale
<1> QED BY <1>16 DEF b

(* At the end of the track no loop is to be closed: all has been heard. *)
LEMMA TaleEnds ==
  ASSUME NEW s \in Songs, NEW cnt, NEW ptrs, NEW p, NEW x, NEW o, NEW d, NEW tail,
         Tale(s, cnt, ptrs, p, x, o, d, tail), s.cell[p].kind = "end"
  PROVE  Notes(s, o, 0) = x
<1>1. /\ p \in s.starts /\ d \in Levels /\ x \in Music
      /\ Notes(s, o, 0) = Join(x, Join(Notes(s, p, d), tail[d]))
  BY DEF Tale, Stack
<1>2. Notes(s, p, d) = Silence /\ Close(s, p, d) = 0
  BY <1>1, Reading
<1>3. tail[d] = Silence
  <2>1. CASE d = 0
    BY <2>1 DEF Tale, Stack
  <2>2. CASE d # 0
    <3>1. d > 0 /\ d \in 1 .. d
      BY <1>1, <2>2, StreamAssumption DEF StreamAssumption, Levels
    <3>2. Close(s, Past(s, ptrs[d - 1]), d) = 0
      BY <1>2, <3>1 DEF Tale, Within
    <3>3. tail[d] = Rest(s, cnt, ptrs, tail, d)
      BY <3>1 DEF Tale, Stack
    <3> QED BY <3>2, <3>3 DEF Rest
  <2> QED BY <2>1, <2>2
<1> QED BY <1>1, <1>2, <1>3, Joined, Sound

LEMMA PrefixOfJoin ==
  ASSUME NEW x \in Music, NEW y \in Music
  PROVE  IsPrefix(x, Join(x, y))
<1>1. x \in Seq(Vals) /\ y \in Seq(Vals)
  BY DEF Music
<1>2. /\ x \o y \in Seq(Vals) /\ Len(x \o y) = Len(x) + Len(y)
      /\ \A i \in 1 .. Len(x) + Len(y) : (x \o y)[i] = IF i <= Len(x) THEN x[i] ELSE y[i - Len(x)]
  BY <1>1, ConcatProperties
<1>3. SubSeq(x, 1, Len(x)) = SubSeq(x \o y, 1, Len(x))
  BY <1>1, <1>2
<1>4. Len(x) <= Len(x \o y)
  BY <1>1, <1>2
<1> QED BY <1>3, <1>4 DEF IsPrefix, Join

----------------------------------------------------------------------------
(* What is heard.  PlaysUnrolled alone says nothing of what is to come:    *)
(* HeardInv adds the rest of the text and the tails of the loops in use.   *)
(* Breaks and loops of no rounds have no text.                             *)

Told == \E d, tail : Tale(song, FOR_loop_cnt, FOR_ptrs, EVNT_ptr, played, origin, d, tail)

HeardInv ==
  PlainLoops(song) /\ ~strayed =>
    /\ Told \/ (status = "done" /\ ~InChunk /\ played = Notes(song, origin, 0))
    /\ (pc = "callback" /\ Moved) => played = Silence /\ FOR_loop_cnt = NoLoops

LEMMA HeardPlays == IInv /\ HeardInv => PlaysUnrolled
<1> SUFFICES ASSUME IInv, HeardInv, PlainLoops(song), ~strayed, pc # "callback"
             PROVE  /\ IsPrefix(played, Unrolled(origin))
                    /\ ~InChunk => played = Unrolled(origin)
  BY DEF PlaysUnrolled
<1>0. song \in Songs
  BY DEF IInv, TypeOK
<1>1. Unrolled(origin) = Notes(song, origin, 0)
  BY DEF Unrolled, Notes
<1>2. CASE Told
  <2>1. PICK d, tail : Tale(song, FOR_loop_cnt, FOR_ptrs, EVNT_ptr, played, origin, d, tail)
    BY <1>2 DEF Told
  <2>2. /\ EVNT_ptr \in song.starts /\ d \in Levels /\ tail[d] \in Music /\ played \in Music
        /\ Unrolled(origin) = Join(played, Join(Notes(song, EVNT_ptr, d), tail[d]))
    BY <1>1, <2>1 DEF Tale, Stack
  <2>3. Join(Notes(song, EVNT_ptr, d), tail[d]) \in Music
    BY <1>0, <2>2, Reading, Sound
  <2>4. InChunk
    BY <1>0, <2>2, EventFollows DEF InChunk
  <2> QED BY <2>2, <2>3, <2>4, PrefixOfJoin
<1>3. CASE status = "done" /\ ~InChunk /\ played = Notes(song, origin, 0)
  BY <1>1, <1>3 DEF IsPrefix
<1> QED BY <1>2, <1>3 DEF HeardInv

(* A history that begins anew. *)
LEMMA Begun ==
  ASSUME NEW p \in song.starts, song \in Songs, song' = song,
         FOR_loop_cnt' = NoLoops, played' = Silence, EVNT_ptr' = p, origin' = p
  PROVE  HeardInv'
<1>1. \E d, tail : Tale(song, NoLoops, FOR_ptrs', p, Silence, p, d, tail)
  BY TaleBegins
<1>2. Told'
  BY <1>1 DEF Told
<1> QED BY <1>2 DEF HeardInv

LEMMA InitHeard == Init => HeardInv
<1> SUFFICES ASSUME Init PROVE HeardInv
  OBVIOUS
<1>1. /\ song \in Songs /\ FOR_loop_cnt = NoLoops /\ played = Silence
      /\ EVNT_ptr = 1 /\ origin = 1 /\ pc = "idle"
  BY DEF Init, Silence
<1>2. 1 \in song.starts
  BY <1>1, Targets
<1>3. \E d, tail : Tale(song, NoLoops, FOR_ptrs, 1, Silence, 1, d, tail)
  BY <1>1, <1>2, TaleBegins
<1>4. Told
  BY <1>1, <1>3 DEF Told
<1> QED BY <1>1, <1>4 DEF HeardInv

LEMMA CallsHeard ==
  ASSUME IInv, HeardInv, start_seq \/ stop_seq \/ resume_seq \/ branch_index
  PROVE  HeardInv'
<1>0. song \in Songs
  BY DEF IInv, TypeOK
<1>1. CASE start_seq
  <2>1. /\ song' = song /\ FOR_loop_cnt' = NoLoops /\ played' = Silence
        /\ EVNT_ptr' = 1 /\ origin' = 1
    BY <1>1 DEF start_seq, Call, rewind_seq, MoveTo, Silence
  <2>2. 1 \in song.starts
    BY <1>0, Targets
  <2> QED BY <1>0, <2>1, <2>2, Begun
<1>2. CASE stop_seq \/ resume_seq
  <2>1. /\ UNCHANGED <<song, FOR_loop_cnt, FOR_ptrs, EVNT_ptr, played, origin, strayed, pc>>
        /\ status # "done"
    BY <1>2 DEF stop_seq, resume_seq, Call, place, loops, history
  <2> QED BY <2>1 DEF HeardInv, Told, Moved, Event
<1>3. CASE branch_index
  <2>1. PICK m \in DOMAIN song.marks : MoveTo(song.marks[m])
    BY <1>3 DEF branch_index
  <2>2. song.marks[m] \in song.starts
    BY <1>0, Targets
  <2>3. /\ song' = song /\ FOR_loop_cnt' = NoLoops /\ played' = Silence
        /\ EVNT_ptr' = song.marks[m] /\ origin' = song.marks[m]
    BY <1>3, <2>1 DEF branch_index, Call, MoveTo, Silence
  <2> QED BY <1>0, <2>2, <2>3, Begun
<1> QED BY <1>1, <1>2, <1>3

(* A step over an event that is no loop to the sequence: a FOR with every  *)
(* slot in use, and a NEXT that breaks or finds no slot in use, are none.  *)
LEMMA SkipHeard ==
  ASSUME IInv, HeardInv, pc = "events", InChunk, Event.kind # "end", Skip,
         UNCHANGED <<song, loops, origin, strayed>>, pc' # "callback",
         played' = IF Event.kind = "note" THEN Append(played, Event.val) ELSE played,
         Event.kind = "for" => Unused = {},
         Event.kind = "next" => Event.val < 64 \/ Unused = Depths
  PROVE  HeardInv'
<1>0. song \in Songs /\ status = "playing" /\ UNCHANGED <<FOR_loop_cnt, FOR_ptrs>>
  BY DEF IInv, TypeOK, loops
<1>1. SUFFICES ASSUME PlainLoops(song), ~strayed PROVE Told'
  BY DEF HeardInv
<1>2. PICK d, tail : Tale(song, FOR_loop_cnt, FOR_ptrs, EVNT_ptr, played, origin, d, tail)
  BY <1>0, <1>1 DEF HeardInv, Told
<1>3. /\ d \in 0 .. FOR_NEST /\ played \in Music /\ EVNT_ptr \in song.starts
      /\ \A k \in Depths : FOR_loop_cnt[k] # -1 <=> k < d
      /\ FOR_NEST \in Nat \ {0}
  BY <1>2, StreamAssumption DEF StreamAssumption, Tale, Stack, Levels
<1>4. ~Opens(Event, d)
  <2>1. SUFFICES ASSUME Event.kind = "for", d < FOR_NEST PROVE FALSE
    BY DEF Opens
  <2>2. d \in Depths /\ ~(d < d)
    BY <1>3, <2>1 DEF Depths
  <2>3. d \in Unused
    BY <1>3, <2>2 DEF Unused
  <2> QED BY <2>1, <2>3
<1>5. ~Closes(Event, d)
  <2>1. SUFFICES ASSUME Event.kind = "next", d > 0 PROVE FALSE
    BY DEF Closes
  <2>2. Event.val \in Int /\ Event.val >= 64
    BY <1>0, <1>1, <1>3, <2>1, EventFollows DEF Event, PlainLoops
  <2>3. Unused = Depths
    BY <2>1, <2>2
  <2>4. 0 \in Depths /\ 0 < d
    BY <1>3, <2>1 DEF Depths
  <2> QED BY <1>3, <2>3, <2>4 DEF Unused
<1>6. Tale(song, FOR_loop_cnt, FOR_ptrs, Past(song, EVNT_ptr), Join(played, Sounds(Event)),
           origin, d, tail)
  BY <1>0, <1>2, <1>4, <1>5, TaleGoesOn DEF Event
<1>7. played' = Join(played, Sounds(Event))
  <2>1. CASE Event.kind = "note"
    <3>1. Event.val \in Vals
      BY <1>0, <1>3, <2>1, EventFollows DEF Event, Vals
    <3>2. Append(played, Event.val) = played \o <<Event.val>>
      BY <1>3, <3>1, AppendIsConcat DEF Music
    <3> QED BY <2>1, <3>2 DEF Sounds, Join
  <2>2. CASE Event.kind # "note"
    BY <1>3, <2>2, Joined DEF Sounds
  <2> QED BY <2>1, <2>2
<1>8. EVNT_ptr' = Past(song, EVNT_ptr)
  BY DEF Skip, Past, Event
<1>9. Tale(song', FOR_loop_cnt', FOR_ptrs', EVNT_ptr', played', origin', d, tail)
  BY <1>0, <1>6, <1>7, <1>8
<1> QED BY <1>9 DEF Told

LEMMA PlainHeard ==
  ASSUME IInv, HeardInv,
         \/ interval \/ note_on \/ other_event
         \/ time_signature \/ set_tempo \/ CLEAR_BEAT_BAR
  PROVE  HeardInv'
<1>1. CASE interval
  BY <1>1, SkipHeard DEF interval, At, history
<1>2. CASE note_on
  BY <1>2, SkipHeard DEF note_on, At, Stay
<1>3. CASE other_event
  BY <1>3, SkipHeard DEF other_event, At, Stay
<1>4. CASE time_signature
  BY <1>4, SkipHeard DEF time_signature, At, Stay
<1>5. CASE set_tempo
  BY <1>5, SkipHeard DEF set_tempo, At, Stay
<1>6. CASE CLEAR_BEAT_BAR
  BY <1>6, SkipHeard DEF CLEAR_BEAT_BAR, At, Stay
<1> QED BY <1>1, <1>2, <1>3, <1>4, <1>5, <1>6

LEMMA ForHeard == ASSUME IInv, HeardInv, FOR_LOOP PROVE HeardInv'
<1>0. song \in Songs /\ pc = "events" /\ status = "playing" /\ InChunk /\ Event.kind = "for"
      /\ Skip /\ UNCHANGED <<song, origin, strayed, pc, played>>
  BY DEF IInv, TypeOK, FOR_LOOP, At, Stay
<1>1. CASE Unused = {} /\ UNCHANGED loops
  BY <1>0, <1>1, SkipHeard
<1>2. ASSUME NEW m \in Unused, \A f \in Unused : m <= f,
             FOR_loop_cnt' = [FOR_loop_cnt EXCEPT ![m] = Event.val],
             FOR_ptrs' = [FOR_ptrs EXCEPT ![m] = EVNT_ptr]
      PROVE  HeardInv'
  <2>1. SUFFICES ASSUME PlainLoops(song), ~strayed PROVE Told'
    BY <1>0 DEF HeardInv
  <2>2. PICK d, tail : Tale(song, FOR_loop_cnt, FOR_ptrs, EVNT_ptr, played, origin, d, tail)
    BY <1>0, <2>1 DEF HeardInv, Told
  <2>3. /\ d \in 0 .. FOR_NEST /\ FOR_NEST \in Nat \ {0}
        /\ \A k \in Depths : FOR_loop_cnt[k] # -1 <=> k < d
    BY <2>2, StreamAssumption DEF StreamAssumption, Tale, Stack, Levels
  <2>4. m = d /\ d < FOR_NEST
    <3>1. m \in Depths /\ m \in 0 .. FOR_NEST - 1 /\ ~(m < d)
      BY <1>2, <2>3 DEF Unused, Depths
    <3>2. d \in Depths /\ ~(d < d)
      BY <2>3, <3>1 DEF Depths
    <3>3. d \in Unused
      BY <2>3, <3>2 DEF Unused
    <3> QED BY <1>2, <2>3, <3>1, <3>3
  <2>5. Opens(song.cell[EVNT_ptr], d)
    BY <1>0, <2>4 DEF Opens, Event
  <2>6. /\ FOR_loop_cnt' = [FOR_loop_cnt EXCEPT ![d] = song.cell[EVNT_ptr].val]
        /\ FOR_ptrs' = [FOR_ptrs EXCEPT ![d] = EVNT_ptr] /\ FOR_ptrs \in [Depths -> Int]
    BY <1>2, <2>4 DEF Event, IInv, TypeOK
  <2>7. \E t : Tale(song, FOR_loop_cnt', FOR_ptrs', Past(song, EVNT_ptr), played, origin, d + 1, t)
    BY <1>0, <2>1, <2>2, <2>5, <2>6, TaleOpens
  <2>8. EVNT_ptr' = Past(song, EVNT_ptr)
    BY <1>0 DEF Skip, Past, Event
  <2>9. \E t : Tale(song', FOR_loop_cnt', FOR_ptrs', EVNT_ptr', played', origin', d + 1, t)
    BY <1>0, <2>7, <2>8
  <2> QED BY <2>9 DEF Told
<1> QED BY <1>1, <1>2 DEF FOR_LOOP

LEMMA NextLoopHeard == ASSUME IInv, HeardInv, NEXT_LOOP PROVE HeardInv'
<1>0. song \in Songs /\ pc = "events" /\ status = "playing" /\ InChunk /\ Event.kind = "next"
      /\ UNCHANGED <<song, origin, strayed, pc, played, FOR_ptrs>>
  BY DEF IInv, TypeOK, NEXT_LOOP, At, Stay
<1>1. CASE (Event.val < 64 \/ Unused = Depths) /\ Skip /\ UNCHANGED FOR_loop_cnt
  BY <1>0, <1>1, SkipHeard DEF loops
<1>2. ASSUME Event.val >= 64,
             NEW m \in Depths \ Unused, \A f \in Depths \ Unused : m >= f,
             \/ /\ FOR_loop_cnt[m] <= 1
                /\ FOR_loop_cnt' = [FOR_loop_cnt EXCEPT ![m] = -1]
                /\ Skip
             \/ /\ FOR_loop_cnt[m] > 1
                /\ FOR_loop_cnt' = [FOR_loop_cnt EXCEPT ![m] = @ - 1]
                /\ EVNT_ptr' = FOR_ptrs[m] + Event.size
      PROVE  HeardInv'
  <2>1. SUFFICES ASSUME PlainLoops(song), ~strayed PROVE Told'
    BY <1>0 DEF HeardInv
  <2>2. PICK d, tail : Tale(song, FOR_loop_cnt, FOR_ptrs, EVNT_ptr, played, origin, d, tail)
    BY <1>0, <2>1 DEF HeardInv, Told
  <2>3. /\ d \in 0 .. FOR_NEST /\ FOR_NEST \in Nat \ {0}
        /\ \A k \in Depths : FOR_loop_cnt[k] # -1 <=> k < d
        /\ \A k \in 0 .. d - 1 : FOR_ptrs[k] \in song.starts /\ song.cell[FOR_ptrs[k]].kind = "for"
        /\ EVNT_ptr \in song.starts
    BY <2>2, StreamAssumption DEF StreamAssumption, Tale, Stack, Levels
  <2>4. m = d - 1 /\ d > 0 /\ m \in 0 .. d - 1
    <3>1. m \in Depths /\ m \in 0 .. FOR_NEST - 1 /\ m < d
      BY <1>2, <2>3 DEF Unused, Depths
    <3>2. d - 1 \in Depths /\ d - 1 < d
      BY <2>3, <3>1 DEF Depths
    <3>3. d - 1 \in Depths \ Unused
      BY <2>3, <3>2 DEF Unused
    <3> QED BY <1>2, <2>3, <3>1, <3>3
  <2>5. Closes(song.cell[EVNT_ptr], d)
    BY <1>0, <1>2, <2>4 DEF Closes, Event
  <2>6. CASE /\ FOR_loop_cnt[m] <= 1
             /\ FOR_loop_cnt' = [FOR_loop_cnt EXCEPT ![m] = -1]
             /\ Skip
    <3>1. Tale(song, FOR_loop_cnt', FOR_ptrs, Past(song, EVNT_ptr), played, origin, d - 1, tail)
      BY <1>0, <2>2, <2>4, <2>5, <2>6, TaleCloses
    <3>2. EVNT_ptr' = Past(song, EVNT_ptr)
      BY <2>6 DEF Skip, Past, Event
    <3>3. Tale(song', FOR_loop_cnt', FOR_ptrs', EVNT_ptr', played', origin', d - 1, tail)
      BY <1>0, <3>1, <3>2
    <3> QED BY <3>3 DEF Told
  <2>7. CASE /\ FOR_loop_cnt[m] > 1
             /\ FOR_loop_cnt' = [FOR_loop_cnt EXCEPT ![m] = @ - 1]
             /\ EVNT_ptr' = FOR_ptrs[m] + Event.size
    <3>1. \E t : Tale(song, FOR_loop_cnt', FOR_ptrs, Past(song, FOR_ptrs[d - 1]), played, origin, d, t)
      <4>1. FOR_loop_cnt' = [FOR_loop_cnt EXCEPT ![d - 1] = FOR_loop_cnt[d - 1] - 1]
        BY <2>4, <2>7
      <4> QED BY <1>0, <2>2, <2>4, <2>5, <2>7, <4>1, TaleAgain
    <3>2. EVNT_ptr' = Past(song, FOR_ptrs[d - 1])
      <4>1. Event.size = 3 /\ song.cell[FOR_ptrs[m]].size = 3
        BY <1>0, <2>3, <2>4, EventFollows DEF Event
      <4> QED BY <2>4, <2>7, <4>1 DEF Past
    <3>3. \E t : Tale(song', FOR_loop_cnt', FOR_ptrs', EVNT_ptr', played', origin', d, t)
      BY <1>0, <3>1, <3>2
    <3> QED BY <3>3 DEF Told
  <2> QED BY <1>2, <2>6, <2>7
<1> QED BY <1>1, <1>2 DEF NEXT_LOOP

LEMMA CallbackHeard ==
  ASSUME IInv, HeardInv, CALLBACK_TRIG \/ callback_returns
  PROVE  HeardInv'
<1>0. song \in Songs
  BY DEF IInv, TypeOK
<1>1. CASE CALLBACK_TRIG
  <2>1. UNCHANGED <<song, EVNT_ptr, FOR_loop_cnt, FOR_ptrs, played, origin, strayed, status>>
        /\ Event.kind = "callback"
    BY <1>1 DEF CALLBACK_TRIG, At, place, loops, history
  <2> QED BY <2>1 DEF HeardInv, Told, InChunk, Moved, Event
<1>2. CASE callback_returns
  <2>1. SUFFICES ASSUME PlainLoops(song), ~strayed' PROVE Told' /\ pc' # "callback"
    <3>1. song' = song
      BY <1>2 DEF callback_returns
    <3> QED BY <3>1 DEF HeardInv
  <2>2. /\ pc = "callback" /\ ~strayed /\ Event.size = 3
        /\ EVNT_ptr' = EVNT_ptr + 3 /\ pc' # "callback"
        /\ origin' = IF Moved THEN EVNT_ptr + 3 ELSE origin
        /\ UNCHANGED <<song, FOR_loop_cnt, FOR_ptrs, played>>
    BY <1>2, <2>1 DEF callback_returns, loops
  <2>3. EVNT_ptr' = Past(song, EVNT_ptr)
    BY <2>2 DEF Past, Event
  <2>4. status # "done" /\ Event.kind # "end" /\ EVNT_ptr \in song.starts
    BY <2>2 DEF IInv, Position, Event
  <2>5. CASE Moved
    <3>1. EVNT_ptr' \in song.starts
      BY <1>0, <2>3, <2>4, EventFollows DEF Past, Event
    <3>2. FOR_loop_cnt' = NoLoops /\ played' = Silence /\ origin' = EVNT_ptr'
      BY <2>1, <2>2, <2>5 DEF HeardInv
    <3>3. \E d, tail : Tale(song, NoLoops, FOR_ptrs', EVNT_ptr', Silence, EVNT_ptr', d, tail)
      BY <1>0, <3>1, TaleBegins
    <3>4. Told'
      BY <2>2, <3>2, <3>3 DEF Told
    <3> QED BY <2>2, <3>4
  <2>6. CASE ~Moved
    <3>1. PICK d, tail : Tale(song, FOR_loop_cnt, FOR_ptrs, EVNT_ptr, played, origin, d, tail)
      BY <2>1, <2>2, <2>4 DEF HeardInv, Told
    <3>2. Event.kind = "callback" /\ ~Opens(Event, d) /\ ~Closes(Event, d)
      BY <2>6 DEF Moved, Opens, Closes
    <3>3. Tale(song, FOR_loop_cnt, FOR_ptrs, EVNT_ptr', Join(played, Sounds(Event)), origin, d, tail)
      BY <1>0, <2>3, <3>1, <3>2, TaleGoesOn DEF Event
    <3>4. Join(played, Sounds(Event)) = played
      BY <3>1, <3>2, Joined DEF Sounds, Tale
    <3>5. Tale(song', FOR_loop_cnt', FOR_ptrs', EVNT_ptr', played', origin', d, tail)
      BY <2>2, <2>6, <3>3, <3>4
    <3> QED BY <2>2, <3>5 DEF Told
  <2> QED BY <2>5, <2>6
<1> QED BY <1>1, <1>2

LEMMA EndHeard == ASSUME IInv, HeardInv, end_of_track PROVE HeardInv'
<1>0. song \in Songs /\ status = "playing" /\ Event.kind = "end" /\ InChunk
      /\ EVNT_ptr' = EVNT_ptr + Event.size /\ status' = "done" /\ pc' = "idle"
      /\ UNCHANGED <<song, played, origin, strayed>>
  BY DEF IInv, TypeOK, end_of_track, At, Skip, history
<1>1. SUFFICES ASSUME PlainLoops(song), ~strayed PROVE ~InChunk' /\ played = Notes(song, origin, 0)
  BY <1>0 DEF HeardInv
<1>2. PICK d, tail : Tale(song, FOR_loop_cnt, FOR_ptrs, EVNT_ptr, played, origin, d, tail)
  BY <1>0, <1>1 DEF HeardInv, Told
<1>3. played = Notes(song, origin, 0)
  BY <1>0, <1>2, TaleEnds DEF Event
<1>4. ~InChunk'
  <2>1. EVNT_ptr \in song.starts /\ Song(song)
    BY <1>0, <1>2, StreamAssumption DEF StreamAssumption, Tale
  <2>2. /\ EVNT_ptr + Event.size = Len(song.cell) + 1
        /\ DOMAIN song.cell = 1 .. Len(song.cell)
    BY <1>0, <2>1 DEF Song, Event
  <2>3. Len(song.cell) \in Nat
    BY <2>1 DEF Song
  <2>4. ~(Len(song.cell) + 1 \in 1 .. Len(song.cell))
    BY <2>3
  <2> QED BY <1>0, <2>2, <2>4 DEF InChunk
<1> QED BY <1>3, <1>4

LEMMA NextHeard == ASSUME IInv, HeardInv, [Next]_vars PROVE HeardInv'
<1>1. CASE process_tick
  <2>1. /\ UNCHANGED <<song, EVNT_ptr, FOR_loop_cnt, FOR_ptrs, played, origin, strayed, status>>
        /\ pc' # "callback"
    BY <1>1 DEF process_tick, loops, history
  <2> QED BY <2>1 DEF HeardInv, Told, InChunk
<1>2. CASE XMIDI_sysex
  BY <1>2 DEF XMIDI_sysex, HeardInv
<1>3. CASE UNCHANGED vars
  <2>1. UNCHANGED <<song, EVNT_ptr, FOR_loop_cnt, FOR_ptrs, played, origin, strayed, status, pc>>
    BY <1>3 DEF vars, place, loops, history
  <2> QED BY <2>1 DEF HeardInv, Told, InChunk, Moved, Event
<1> QED
  BY <1>1, <1>2, <1>3, CallsHeard, PlainHeard, ForHeard, NextLoopHeard, CallbackHeard, EndHeard
  DEF Next, Service

(* Whatever is heard since the last start or branch is the song with its   *)
(* loops written out, as far as it has come, and all of it at the end: for *)
(* every song, however deep its loops, and with loops that are never       *)
(* closed, broken, or left by a branch or a start from a callback.         *)
THEOREM PlaysUnrolledAlways == Spec => []PlaysUnrolled
<1>1. Init => IInv /\ HeardInv
  BY InitIInv, InitHeard
<1>2. IInv /\ HeardInv /\ [Next]_vars => IInv' /\ HeardInv'
  BY NextIInv, NextHeard
<1>3. IInv /\ HeardInv => PlaysUnrolled
  BY HeardPlays
<1> QED BY <1>1, <1>2, <1>3, PTL DEF Spec
=============================================================================
