-------------------------- MODULE SequencerProofs --------------------------
(***************************************************************************)
(* The sequencer for every number of handles, channels, note slots and     *)
(* blocks, whatever events the songs contain and whatever the application  *)
(* calls between services and in callbacks: registration stays consistent, *)
(* no event is read from a sequence that does not play, and note_count     *)
(* never says more than the queue holds.                                   *)
(*                                                                         *)
(* Further on, for the songs and calls that PlainSongs, SteadySong and     *)
(* FairLocks describe, outside of which the code does lose notes, counts   *)
(* and locks: no note is stuck, the counts are exact, and the locks agree  *)
(* with who uses the channels.                                             *)
(***************************************************************************)
EXTENDS Sequencer, FiniteSetTheorems, WellFoundedInduction, TLAPS

----------------------------------------------------------------------------
(* Registration. *)

InUse == {h \in Handles : sequence_states[h] # Null}

RegistryTypes ==
  /\ sequence_states \in [Handles -> Blocks \cup {Null}]
  /\ seq_handle \in [Blocks -> Handles]
  /\ status \in [Blocks -> {"stopped", "playing", "done"}]
  /\ phase \in {"idle", "scan", "event", "callback"}
  /\ seq \in Handles
  /\ st \in Blocks \cup {Null}
  /\ phase \in {"event", "callback"} <=> st # Null

(* The service reads events only of a sequence that plays. *)
EventPlays == phase = "event" => status[st] = "playing"

Carried == \A h \in Handles : sequence_states[h] # Null => seq_handle[sequence_states[h]] = h

RegistryInv ==
  /\ RegistryTypes
  /\ sequence_count = Cardinality(InUse)
  /\ Carried
  /\ PlayingRegistered
  /\ EventPlays

(* The least member of a set of numbers, by the well-founded order. *)
LEMMA LowestMember ==
  ASSUME NEW S \in SUBSET Nat, S # {}
  PROVE  Lowest(S) \in S /\ \A t \in S : Lowest(S) <= t
<1> DEFINE R == {ss \in Nat \X Nat : ss[1] < ss[2]}
<1>1. IsWellFoundedOn(R, Nat)
  BY NatLessThanWellFounded DEF OpToRel
<1>2. \E x \in S : \A y \in S : ~ (<<y, x>> \in R)
  <2> HIDE DEF R
  <2> QED BY <1>1, WFMin
<1>3. PICK x \in S : \A y \in S : ~ (<<y, x>> \in R)
  BY <1>2
<1>4. ASSUME NEW y \in S PROVE x <= y
  <2>1. ~ (<<y, x>> \in R) /\ x \in Nat /\ y \in Nat
    BY <1>3
  <2> QED BY <2>1
<1> QED BY <1>4 DEF Lowest

LEMMA HandlesFinite ==
  ASSUME SequencerAssumption
  PROVE  IsFiniteSet(Handles) /\ IsFiniteSet(InUse) /\ IsFiniteSet(InUse')
<1>1. IsFiniteSet(Handles)
  BY FS_Interval DEF Handles, SequencerAssumption
<1>2. InUse \subseteq Handles /\ InUse' \subseteq Handles
  BY DEF InUse
<1> QED BY <1>1, <1>2, FS_Subset

LEMMA RegistryInit == ASSUME SequencerAssumption, Init PROVE RegistryInv
<1>1. InUse = {}
  BY DEF Init, InUse
<1>2. sequence_count = Cardinality(InUse)
  BY <1>1, FS_EmptySet DEF Init
<1>3. RegistryTypes
  BY DEF Init, RegistryTypes, SequencerAssumption, Handles
<1>4. Carried /\ PlayingRegistered /\ EventPlays
  BY DEF Init, Carried, PlayingRegistered, EventPlays
<1> QED BY <1>2, <1>3, <1>4 DEF RegistryInv

(* What a step may do to the registry, one lemma for each way. *)

(* A block is put under a free handle. *)
LEMMA RegisterKeeps ==
  ASSUME SequencerAssumption, RegistryInv, register_seq
  PROVE  RegistryInv'
<1> DEFINE free == {h \in Handles : sequence_states[h] = Null}
           g == Lowest(free)
<1>1. PICK b \in Blocks \ Registered :
        /\ free # {}
        /\ sequence_states' = [sequence_states EXCEPT ![g] = b]
        /\ seq_handle' = [seq_handle EXCEPT ![b] = g]
        /\ status' = [status EXCEPT ![b] = "stopped"]
        /\ sequence_count' = sequence_count + 1
  BY DEF register_seq
<1>2. UNCHANGED <<phase, seq, st>> /\ phase # "event"
  BY DEF register_seq, CanCall, service
<1>3. g \in Handles /\ sequence_states[g] = Null
  <2>1. free \subseteq Nat
    BY DEF Handles
  <2>2. g \in free
    <3> HIDE DEF free
    <3> QED BY <1>1, <2>1, LowestMember
  <2> QED BY <2>2
<1> HIDE DEF free, g
<1>4. b # Null
  BY <1>1 DEF SequencerAssumption
<1>5. RegistryTypes'
  <2>1. sequence_states' \in [Handles -> Blocks \cup {Null}]
    BY <1>1, <1>3 DEF RegistryInv, RegistryTypes
  <2>2. seq_handle' \in [Blocks -> Handles]
    BY <1>1, <1>3 DEF RegistryInv, RegistryTypes
  <2>3. status' \in [Blocks -> {"stopped", "playing", "done"}]
    BY <1>1 DEF RegistryInv, RegistryTypes
  <2> QED BY <1>2, <2>1, <2>2, <2>3 DEF RegistryInv, RegistryTypes
<1>6. (sequence_count = Cardinality(InUse))'
  <2>1. InUse' = InUse \cup {g} /\ g \notin InUse
    BY <1>1, <1>3, <1>4 DEF InUse, RegistryInv, RegistryTypes
  <2>2. Cardinality(InUse') = Cardinality(InUse) + 1
    BY <2>1, HandlesFinite, FS_AddElement
  <2> QED BY <1>1, <2>2 DEF RegistryInv
<1>7. Carried'
  <2>1. \A h \in Handles : sequence_states[h] # Null => sequence_states[h] # b
    BY <1>1 DEF Registered
  <2> QED BY <1>1, <1>3, <2>1 DEF Carried, RegistryInv, RegistryTypes
<1>8. PlayingRegistered'
  <2>1. ASSUME NEW c \in Blocks, status'[c] = "playing" PROVE c \in Registered'
    <3>1. c # b /\ status[c] = "playing"
      BY <1>1, <2>1 DEF RegistryInv, RegistryTypes
    <3>2. PICK h \in Handles : sequence_states[h] = c /\ c # Null
      BY <3>1 DEF RegistryInv, PlayingRegistered, Registered
    <3>3. sequence_states'[h] = c
      BY <1>1, <1>3, <3>2 DEF RegistryInv, RegistryTypes
    <3> QED BY <3>2, <3>3 DEF Registered
  <2> QED BY <2>1 DEF PlayingRegistered
<1> QED BY <1>2, <1>5, <1>6, <1>7, <1>8 DEF RegistryInv, EventPlays

(* A handle whose block does not play, or does not play any more, is       *)
(* freed.                                                                  *)
LEMMA FreeKeeps ==
  ASSUME SequencerAssumption, RegistryInv, NEW h \in Handles, FreeHandle(h),
         sequence_states[h] # Null,
         status' \in [Blocks -> {"stopped", "playing", "done"}],
         status'[sequence_states[h]] # "playing",
         \A b \in Blocks : status'[b] = "playing" => status[b] = "playing"
  PROVE  /\ sequence_states' \in [Handles -> Blocks \cup {Null}]
         /\ seq_handle' = seq_handle
         /\ (sequence_count = Cardinality(InUse))'
         /\ Carried' /\ PlayingRegistered'
<1>1. /\ sequence_states' = [sequence_states EXCEPT ![h] = Null]
      /\ sequence_count' = sequence_count - 1
      /\ seq_handle' = seq_handle
  BY DEF FreeHandle
<1>2. sequence_states \in [Handles -> Blocks \cup {Null}]
  BY DEF RegistryInv, RegistryTypes
<1>3. (sequence_count = Cardinality(InUse))'
  <2>1. InUse' = InUse \ {h} /\ h \in InUse
    BY <1>1, <1>2 DEF InUse
  <2>2. Cardinality(InUse') = Cardinality(InUse) - 1
    BY <2>1, HandlesFinite, FS_RemoveElement
  <2> QED BY <1>1, <2>2 DEF RegistryInv
<1>4. Carried'
  BY <1>1, <1>2 DEF Carried, RegistryInv
<1>5. PlayingRegistered'
  <2>1. ASSUME NEW c \in Blocks, status'[c] = "playing" PROVE c \in Registered'
    <3>1. PICK i \in Handles : sequence_states[i] = c /\ c # Null
      BY <2>1 DEF RegistryInv, PlayingRegistered, Registered
    <3>2. i # h
      BY <2>1, <3>1
    <3>3. sequence_states'[i] = c
      BY <1>1, <1>2, <3>1, <3>2
    <3> QED BY <3>1, <3>3 DEF Registered
  <2> QED BY <2>1 DEF PlayingRegistered
<1> QED BY <1>1, <1>2, <1>3, <1>4, <1>5

(* The registry stays, and statuses change only between playing and not    *)
(* while no event is read, for registered blocks.                          *)
LEMMA StatusKeeps ==
  ASSUME RegistryInv, UNCHANGED registry, UNCHANGED service, phase # "event",
         NEW b \in Registered, NEW s \in {"stopped", "playing", "done"},
         status' = [status EXCEPT ![b] = s]
  PROVE  RegistryInv'
<1>1. UNCHANGED <<sequence_states, sequence_count, seq_handle, phase, seq, st>>
  BY DEF registry, service
<1>2. RegistryTypes'
  BY <1>1 DEF RegistryInv, RegistryTypes
<1>3. InUse' = InUse /\ Registered' = Registered /\ Carried'
  BY <1>1 DEF InUse, Registered, Carried, RegistryInv
<1>4. PlayingRegistered'
  BY <1>3 DEF PlayingRegistered, RegistryInv, RegistryTypes
<1> QED BY <1>1, <1>2, <1>3, <1>4 DEF RegistryInv, EventPlays

(* Neither the registry nor a status changes, and the service goes on.     *)
LEMMA ServiceKeeps ==
  ASSUME RegistryInv, UNCHANGED registry, UNCHANGED status,
         phase' \in {"idle", "scan", "event", "callback"}, seq' \in Handles,
         st' \in Blocks \cup {Null},
         phase' \in {"event", "callback"} <=> st' # Null,
         phase' = "event" => status[st'] = "playing"
  PROVE  RegistryInv'
<1>1. UNCHANGED <<sequence_states, sequence_count, seq_handle, status>>
  BY DEF registry
<1>2. RegistryTypes'
  BY <1>1 DEF RegistryInv, RegistryTypes
<1>3. InUse' = InUse /\ Registered' = Registered /\ Carried'
  BY <1>1 DEF InUse, Registered, Carried, RegistryInv
<1>4. PlayingRegistered'
  BY <1>1, <1>3 DEF PlayingRegistered, RegistryInv
<1> QED BY <1>1, <1>2, <1>3, <1>4 DEF RegistryInv, EventPlays

LEMMA LeaveTyped ==
  ASSUME SequencerAssumption, seq \in Handles, LeaveSequence
  PROVE  phase' \in {"idle", "scan"} /\ seq' \in Handles /\ st' = Null
BY DEF LeaveSequence, Handles, SequencerAssumption

LEMMA RegistryAppCall ==
  ASSUME SequencerAssumption, RegistryInv, AppCall
  PROVE  RegistryInv'
<1>1. CASE register_seq
  BY <1>1, RegisterKeeps
<1>2. CASE start_seq
  <2>1. PICK b \in Registered : status' = [status EXCEPT ![b] = "playing"]
    BY <1>2 DEF start_seq
  <2> QED BY <1>2, <2>1, StatusKeeps DEF start_seq, CanCall
<1>3. CASE stop_seq
  <2>1. PICK b \in Registered : status' = [status EXCEPT ![b] = "stopped"]
    BY <1>3 DEF stop_seq
  <2> QED BY <1>3, <2>1, StatusKeeps DEF stop_seq, CanCall
<1>4. CASE resume_seq
  <2>1. PICK b \in Registered : status' = [status EXCEPT ![b] = "playing"]
    BY <1>4 DEF resume_seq
  <2> QED BY <1>4, <2>1, StatusKeeps DEF resume_seq, CanCall
<1>5. CASE release_seq
  <2>1. PICK h \in Handles :
          /\ sequence_states[h] # Null
          /\ \/ UNCHANGED registry
             \/ status[sequence_states[h]] # "playing" /\ FreeHandle(h)
    BY <1>5 DEF release_seq
  <2>2. UNCHANGED status /\ UNCHANGED service
    BY <1>5 DEF release_seq
  <2>3. CASE UNCHANGED registry
    BY <2>2, <2>3, ServiceKeeps DEF RegistryInv, RegistryTypes, EventPlays, service
  <2>4. CASE status[sequence_states[h]] # "playing" /\ FreeHandle(h)
    <3>1. /\ sequence_states' \in [Handles -> Blocks \cup {Null}]
          /\ seq_handle' = seq_handle
          /\ (sequence_count = Cardinality(InUse))'
          /\ Carried' /\ PlayingRegistered'
      BY <2>1, <2>2, <2>4, FreeKeeps DEF RegistryInv, RegistryTypes
    <3>2. RegistryTypes' /\ EventPlays'
      BY <2>2, <3>1 DEF RegistryInv, RegistryTypes, EventPlays, service
    <3> QED BY <3>1, <3>2 DEF RegistryInv
  <2> QED BY <2>1, <2>3, <2>4
<1>6. CASE branch_index \/ map_seq_channel \/ app_lock_channel
           \/ app_release_channel \/ set_control_val
  <2>1. UNCHANGED registry /\ UNCHANGED status /\ UNCHANGED service
    BY <1>6 DEF branch_index, map_seq_channel, app_lock_channel,
                app_release_channel, set_control_val, life
  <2> QED BY <2>1, ServiceKeeps DEF RegistryInv, RegistryTypes, EventPlays, service
<1> QED BY <1>1, <1>2, <1>3, <1>4, <1>5, <1>6 DEF AppCall

(* The end of a track frees the handle under which the application let go  *)
(* of the sequence while it played.                                        *)
LEMMA RegistryEnd ==
  ASSUME SequencerAssumption, RegistryInv, end_of_track
  PROVE  RegistryInv'
<1>1. /\ phase = "event" /\ status' = [status EXCEPT ![st] = "done"]
      /\ FreeHandle(seq_handle[st]) \/ UNCHANGED registry
      /\ LeaveSequence
  BY DEF end_of_track
<1>2. st \in Blocks /\ status[st] = "playing"
  BY <1>1 DEF RegistryInv, RegistryTypes, EventPlays
<1>3. st \in Registered
  BY <1>2 DEF RegistryInv, PlayingRegistered
<1>4. PICK h \in Handles : sequence_states[h] = st /\ st # Null /\ seq_handle[st] = h
  BY <1>3 DEF Registered, RegistryInv, Carried
<1>5. phase' \in {"idle", "scan"} /\ seq' \in Handles /\ st' = Null
  BY <1>1, LeaveTyped DEF RegistryInv, RegistryTypes
<1>6. status' \in [Blocks -> {"stopped", "playing", "done"}]
      /\ status'[st] # "playing"
      /\ \A b \in Blocks : status'[b] = "playing" => status[b] = "playing"
  BY <1>1, <1>2 DEF RegistryInv, RegistryTypes
<1>7. /\ sequence_states' \in [Handles -> Blocks \cup {Null}]
      /\ seq_handle' = seq_handle
      /\ (sequence_count = Cardinality(InUse))'
      /\ Carried' /\ PlayingRegistered'
  <2>1. CASE FreeHandle(seq_handle[st])
    BY <1>4, <1>6, <2>1, FreeKeeps
  <2>2. CASE UNCHANGED registry
    <3>1. UNCHANGED <<sequence_states, sequence_count, seq_handle>>
      BY <2>2 DEF registry
    <3>2. InUse' = InUse /\ Registered' = Registered /\ Carried'
      BY <3>1 DEF InUse, Registered, Carried, RegistryInv
    <3>3. PlayingRegistered'
      BY <1>6, <3>2 DEF PlayingRegistered, RegistryInv
    <3> QED BY <3>1, <3>2, <3>3 DEF RegistryInv, RegistryTypes
  <2> QED BY <1>1, <2>1, <2>2
<1>8. RegistryTypes' /\ EventPlays'
  BY <1>5, <1>6, <1>7 DEF RegistryInv, RegistryTypes, EventPlays
<1> QED BY <1>7, <1>8 DEF RegistryInv

LEMMA RegistryService ==
  ASSUME SequencerAssumption, RegistryInv, Service
  PROVE  RegistryInv'
<1>1. CASE serve
  <2>1. UNCHANGED registry /\ UNCHANGED status /\ phase' = "scan" /\ seq' = 0 /\ st' = st
        /\ phase = "idle"
    BY <1>1 DEF serve, life
  <2>2. 0 \in Handles
    BY DEF Handles, SequencerAssumption
  <2> QED BY <2>1, <2>2, ServiceKeeps DEF RegistryInv, RegistryTypes
<1>2. CASE pass_sequence
  <2>1. UNCHANGED registry /\ UNCHANGED status /\ LeaveSequence
    BY <1>2 DEF pass_sequence, life
  <2> QED BY <2>1, LeaveTyped, ServiceKeeps DEF RegistryInv, RegistryTypes
<1>3. CASE process_tick
  <2>1. /\ UNCHANGED registry /\ UNCHANGED status /\ seq' = seq /\ Ready /\ phase = "scan"
        /\ \/ phase' = "event" /\ st' = sequence_states[seq]
           \/ UNCHANGED <<phase, st>>
    BY <1>3 DEF process_tick, life
  <2>2. sequence_states[seq] \in Blocks /\ sequence_states[seq] # Null
        /\ status[sequence_states[seq]] = "playing"
    BY <2>1 DEF Ready, RegistryInv, RegistryTypes
  <2> QED BY <2>1, <2>2, ServiceKeeps DEF RegistryInv, RegistryTypes
<1>4. CASE note_on \/ note_on_overflow \/ note_off \/ control
  <2>1. UNCHANGED registry /\ UNCHANGED status /\ UNCHANGED service
    BY <1>4 DEF note_on, note_on_overflow, note_off, control, InLoop, life
  <2> QED BY <2>1, ServiceKeeps DEF RegistryInv, RegistryTypes, EventPlays, service
<1>5. CASE delay
  <2>1. UNCHANGED registry /\ UNCHANGED status /\ phase' = "scan" /\ st' = Null /\ seq' = seq
    BY <1>5 DEF delay, life
  <2> QED BY <2>1, ServiceKeeps DEF RegistryInv, RegistryTypes
<1>6. CASE end_of_track
  BY <1>6, RegistryEnd
<1>7. CASE callback_trigger
  <2>1. UNCHANGED registry /\ UNCHANGED status /\ phase = "event" /\ phase' = "callback"
        /\ seq' = seq /\ st' = st
    BY <1>7 DEF callback_trigger, life
  <2> QED BY <2>1, ServiceKeeps DEF RegistryInv, RegistryTypes
<1>8. CASE return_callback
  <2>1. UNCHANGED registry /\ UNCHANGED status /\ phase = "callback"
        /\ (\/ status[st] = "playing" /\ phase' = "event" /\ seq' = seq /\ st' = st
            \/ LeaveSequence)
    BY <1>8 DEF return_callback, life
  <2>2. CASE LeaveSequence
    BY <2>1, <2>2, LeaveTyped, ServiceKeeps DEF RegistryInv, RegistryTypes
  <2>3. CASE status[st] = "playing" /\ phase' = "event" /\ seq' = seq /\ st' = st
    BY <2>1, <2>3, ServiceKeeps DEF RegistryInv, RegistryTypes
  <2> QED BY <2>1, <2>2, <2>3
<1> QED BY <1>1, <1>2, <1>3, <1>4, <1>5, <1>6, <1>7, <1>8 DEF Service, Event

LEMMA RegistryNext ==
  ASSUME SequencerAssumption, RegistryInv, [Next]_vars
  PROVE  RegistryInv'
<1>1. CASE UNCHANGED vars
  <2>1. UNCHANGED registry /\ UNCHANGED status /\ UNCHANGED service
    BY <1>1 DEF vars, life
  <2> QED BY <2>1, ServiceKeeps DEF RegistryInv, RegistryTypes, EventPlays, service
<1> QED BY <1>1, RegistryAppCall, RegistryService DEF Next

(* The tables of handles, blocks and the service's place keep their types  *)
(* and say the same of which block is registered.                          *)
THEOREM RegistryAlways == Spec => []RegistryInv
BY RegistryInit, RegistryNext, SequencerAssumption, PTL DEF Spec

(* However releases, ends of track and callbacks interleave, sequence_count *)
(* counts the handles in use, each block carries its handle, and a sequence *)
(* that plays is registered.                                               *)
THEOREM HandlesConsistentAlways == Spec => []HandlesConsistent
<1>1. RegistryInv => HandlesConsistent
  BY DEF RegistryInv, HandlesConsistent, Carried, InUse
<1> QED BY <1>1, RegistryAlways, PTL

(* The service never reads events of a sequence that was stopped, or of a  *)
(* block whose handle was given back, in a callback.                       *)
THEOREM EventOnLiveAlways == Spec => []EventOnLive
<1>1. ASSUME RegistryInv, phase = "event"
      PROVE  status[st] = "playing" /\ sequence_states[seq_handle[st]] = st
  <2>1. st \in Blocks /\ status[st] = "playing"
    BY <1>1 DEF RegistryInv, RegistryTypes, EventPlays
  <2>2. PICK h \in Handles : sequence_states[h] = st /\ st # Null
    BY <1>1, <2>1 DEF RegistryInv, PlayingRegistered, Registered
  <2> QED BY <1>1, <2>1, <2>2 DEF RegistryInv, Carried
<1>2. RegistryInv => EventOnLive
  BY <1>1 DEF EventOnLive
<1> QED BY <1>2, RegistryAlways, PTL
----------------------------------------------------------------------------
(* The counts of notes. *)

(* k is a record with the fields of perf. *)
IsPerf(k) ==
  k = [queue |-> k.queue, count |-> k.count, map |-> k.map, active |-> k.active,
       locked |-> k.locked, protected |-> k.protected, sounding |-> k.sounding]

Wrapped(x) == x % CountMod
NeverOver(k, b) ==
  \E d \in 0 .. MAX_NOTES : k.count[b] = Wrapped(Cardinality(Occupied(k, b)) - d)

NotesOK(k) ==
  /\ IsPerf(k)
  /\ k.queue \in [Blocks -> [Slots -> Entry \cup {Free}]]
  /\ k.count \in [Blocks -> Int]
  /\ \A b \in Blocks : NeverOver(k, b)

(* Numbers of at most twice the slots wrap at most once. *)
LEMMA WrapOnce ==
  ASSUME SequencerAssumption
  PROVE  /\ \A x \in 0 .. CountMod - 1 : Wrapped(x) = x
         /\ \A x \in 1 - CountMod .. -1 : Wrapped(x) = x + CountMod
         /\ Wrapped(CountMod) = 0
<1>1. CountMod \in Nat \ {0}
  BY DEF SequencerAssumption
<1>2. \A x \in 0 .. CountMod - 1 : x % CountMod = x
  BY <1>1
<1>3. \A x \in 1 - CountMod .. -1 : x % CountMod = x + CountMod
  BY <1>1
<1>4. CountMod % CountMod = 0
  BY <1>1
<1> QED BY <1>2, <1>3, <1>4 DEF Wrapped

(* A count and a queue that change by the same number keep their distance. *)
LEMMA CountStep ==
  ASSUME SequencerAssumption, NEW n \in 0 .. MAX_NOTES, NEW d \in 0 .. MAX_NOTES,
         NEW c, c = Wrapped(n - d),
         NEW e \in -n .. 1, n + e <= MAX_NOTES
  PROVE  Wrapped(c + e) = Wrapped(n + e - d)
<1> DEFINE x == n - d
<1>1. CountMod \in Nat /\ MAX_NOTES \in Nat /\ CountMod > 2 * MAX_NOTES
  BY DEF SequencerAssumption
<1>2. x \in -MAX_NOTES .. MAX_NOTES /\ x + e \in -2 * MAX_NOTES .. MAX_NOTES
      /\ n + e - d = x + e
  BY <1>1
<1> HIDE DEF x
<1>3. CASE x >= 0
  <2>1. c = x
    BY <1>1, <1>2, <1>3, WrapOnce DEF x
  <2> QED BY <1>2, <2>1
<1>4. CASE x < 0 /\ x + e < 0
  <2>1. c = x + CountMod /\ Wrapped(x + e) = x + e + CountMod
    BY <1>1, <1>2, <1>4, WrapOnce DEF x
  <2>2. c + e \in 0 .. CountMod - 1
    BY <1>1, <1>2, <1>4, <2>1
  <2>3. Wrapped(c + e) = c + e
    BY <2>2, WrapOnce
  <2> QED BY <1>1, <1>2, <2>1, <2>3
<1>5. CASE x < 0 /\ x + e >= 0
  <2>1. x = -1 /\ e = 1
    BY <1>2, <1>5
  <2>2. c = CountMod - 1
    BY <1>1, <1>2, <2>1, WrapOnce DEF x
  <2>3. c + e = CountMod /\ x + e = 0
    BY <1>1, <2>1, <2>2
  <2>4. Wrapped(CountMod) = 0 /\ Wrapped(0) = 0
    BY <1>1, WrapOnce
  <2> QED BY <1>2, <2>3, <2>4
<1> QED BY <1>2, <1>3, <1>4, <1>5

LEMMA OccupiedBounds ==
  ASSUME SequencerAssumption, NEW k, NEW b
  PROVE  IsFiniteSet(Occupied(k, b)) /\ Cardinality(Occupied(k, b)) \in 0 .. MAX_NOTES
<1>1. MAX_NOTES \in Nat /\ IsFiniteSet(Slots) /\ Cardinality(Slots) = MAX_NOTES
  BY FS_Interval DEF Slots, SequencerAssumption
<1>2. Occupied(k, b) \in SUBSET Slots
  BY DEF Occupied
<1>3. IsFiniteSet(Occupied(k, b)) /\ Cardinality(Occupied(k, b)) <= MAX_NOTES
  BY <1>1, <1>2, FS_Subset
<1> QED BY <1>1, <1>3, FS_CardinalityType

(* Counts that became 0 are never over. *)
LEMMA ZeroNeverOver ==
  ASSUME SequencerAssumption, NEW k, NEW b, k.count[b] = 0
  PROVE  NeverOver(k, b)
<1> DEFINE n == Cardinality(Occupied(k, b))
<1>1. n \in 0 .. MAX_NOTES /\ CountMod \in Nat \ {0}
  BY OccupiedBounds DEF SequencerAssumption
<1>2. Wrapped(n - n) = 0
  BY <1>1, WrapOnce
<1> QED BY <1>1, <1>2 DEF NeverOver

(* Nor those whose queue and count stayed. *)
LEMMA SameNeverOver ==
  ASSUME NEW k, NEW m, NEW b, NeverOver(k, b),
         m.count[b] = k.count[b], Occupied(m, b) = Occupied(k, b)
  PROVE  NeverOver(m, b)
BY DEF NeverOver

(* Nor those that lost e entries and were decremented e times, or gained   *)
(* one and were incremented.                                               *)
LEMMA StepNeverOver ==
  ASSUME SequencerAssumption, NEW k, NEW m, NEW b, NeverOver(k, b), NEW e \in Int,
         Cardinality(Occupied(m, b)) = Cardinality(Occupied(k, b)) + e,
         e <= 1, m.count[b] = Wrapped(k.count[b] + e)
  PROVE  NeverOver(m, b)
<1> DEFINE n == Cardinality(Occupied(k, b))
<1>1. n \in 0 .. MAX_NOTES /\ n + e \in 0 .. MAX_NOTES /\ MAX_NOTES \in Nat
  BY OccupiedBounds DEF SequencerAssumption
<1>2. PICK d \in 0 .. MAX_NOTES : k.count[b] = Wrapped(n - d)
  BY DEF NeverOver
<1>3. e \in -n .. 1 /\ n + e <= MAX_NOTES
  BY <1>1
<1>4. m.count[b] = Wrapped(n + e - d)
  BY <1>1, <1>2, <1>3, CountStep
<1>5. Cardinality(Occupied(m, b)) - d = n + e - d
  BY <1>1
<1> HIDE DEF n
<1> QED BY <1>4, <1>5 DEF NeverOver

(* What NoteOffs leaves. *)
LEMMA NoteOffsLeaves ==
  ASSUME NEW k, IsPerf(k), NEW D
  PROVE  /\ IsPerf(NoteOffs(k, D))
         /\ NoteOffs(k, D).queue =
              [b \in Blocks |-> [s \in Slots |-> IF <<b, s>> \in D THEN Free ELSE k.queue[b][s]]]
         /\ NoteOffs(k, D).count = k.count
<1> DEFINE q == [b \in Blocks |-> [s \in Slots |-> IF <<b, s>> \in D THEN Free ELSE k.queue[b][s]]]
           a == [p \in Chans |->
                  (k.active[p] - Cardinality({d \in D : Phys(k, d[1], d[2]) = p})) % ActiveMod]
           o == k.sounding \ {<<Phys(k, d[1], d[2]), k.queue[d[1]][d[2]].num>> : d \in D}
<1>1. NoteOffs(k, D) = [[[k EXCEPT !.queue = q] EXCEPT !.active = a] EXCEPT !.sounding = o]
  BY DEF NoteOffs
<1> HIDE DEF q, a, o
<1>2. NoteOffs(k, D) = [queue |-> q, count |-> k.count, map |-> k.map, active |-> a,
                        locked |-> k.locked, protected |-> k.protected, sounding |-> o]
  BY <1>1 DEF IsPerf
<1>3. IsPerf(NoteOffs(k, D)) /\ NoteOffs(k, D).queue = q /\ NoteOffs(k, D).count = k.count
  BY <1>2 DEF IsPerf
<1> QED BY <1>3 DEF q

LEMMA NoteOffsTyped ==
  ASSUME NEW k, IsPerf(k), k.queue \in [Blocks -> [Slots -> Entry \cup {Free}]], NEW D
  PROVE  NoteOffs(k, D).queue \in [Blocks -> [Slots -> Entry \cup {Free}]]
<1>1. NoteOffs(k, D).queue =
        [b \in Blocks |-> [s \in Slots |-> IF <<b, s>> \in D THEN Free ELSE k.queue[b][s]]]
  BY NoteOffsLeaves
<1> QED BY <1>1

(* The slots that stay occupied. *)
LEMMA NoteOffsOccupied ==
  ASSUME NEW k, IsPerf(k), NEW D, NEW b \in Blocks
  PROVE  Occupied(NoteOffs(k, D), b) = {s \in Occupied(k, b) : <<b, s>> \notin D}
<1>0. NoteOffs(k, D).queue =
        [c \in Blocks |-> [s \in Slots |-> IF <<c, s>> \in D THEN Free ELSE k.queue[c][s]]]
  BY NoteOffsLeaves
<1>1. \A s \in Slots : NoteOffs(k, D).queue[b][s] = IF <<b, s>> \in D THEN Free ELSE k.queue[b][s]
  BY <1>0
<1> QED BY <1>1 DEF Occupied

LEMMA FlushQueueOK ==
  ASSUME SequencerAssumption, NEW k, NotesOK(k), NEW b \in Blocks
  PROVE  NotesOK(flush_note_queue(k, b))
<1> DEFINE D == {b} \X Occupied(k, b)
           m == NoteOffs(k, D)
           r == flush_note_queue(k, b)
<1>0. \A c \in Blocks, s \in Slots : <<c, s>> \in D <=> c = b /\ s \in Occupied(k, b)
  BY DEF Occupied
<1> HIDE DEF D
<1>1. IsPerf(m) /\ m.queue \in [Blocks -> [Slots -> Entry \cup {Free}]] /\ m.count = k.count
  BY NoteOffsLeaves, NoteOffsTyped DEF NotesOK
<1>2. \A c \in Blocks : c # b => Occupied(m, c) = Occupied(k, c)
  <2>1. \A c \in Blocks : Occupied(m, c) = {s \in Occupied(k, c) : <<c, s>> \notin D}
    BY NoteOffsOccupied DEF NotesOK
  <2>2. \A c \in Blocks : Occupied(k, c) \subseteq Slots
    BY DEF Occupied
  <2> HIDE DEF m
  <2> QED BY <1>0, <2>1, <2>2
<1>3. r = [m EXCEPT !.count = [m.count EXCEPT ![b] = 0]]
  BY DEF flush_note_queue, D
<1> HIDE DEF m, r
<1>4. IsPerf(r) /\ r.queue = m.queue /\ r.count = [k.count EXCEPT ![b] = 0]
  BY <1>1, <1>3 DEF IsPerf
<1>5. r.count \in [Blocks -> Int] /\ r.count[b] = 0 /\ \A c \in Blocks : c # b => r.count[c] = k.count[c]
  BY <1>4 DEF NotesOK
<1>6. \A c \in Blocks : Occupied(r, c) = Occupied(m, c)
  BY <1>4 DEF Occupied
<1>7. ASSUME NEW c \in Blocks PROVE NeverOver(r, c)
  <2>1. CASE c = b
    BY <1>5, <2>1, ZeroNeverOver
  <2>2. CASE c # b
    BY <1>2, <1>5, <1>6, <2>2, SameNeverOver DEF NotesOK
  <2> QED BY <2>1, <2>2
<1> QED BY <1>1, <1>4, <1>5, <1>7 DEF NotesOK, r

LEMMA FlushChannelOK ==
  ASSUME SequencerAssumption, NEW k, NotesOK(k), NEW p
  PROVE  NotesOK(flush_channel_notes(k, p))
<1> DEFINE B == {b \in Registered : k.count[b] # 0}
           D == {d \in B \X Slots : /\ k.queue[d[1]][d[2]] # Free
                                    /\ k.queue[d[1]][d[2]].chan = p}
           m == NoteOffs(k, D)
           r == flush_channel_notes(k, p)
           count == [b \in Blocks |-> IF b \in B THEN 0 ELSE k.count[b]]
<1>0. \A c \in Blocks, s \in Slots : c \notin B => <<c, s>> \notin D
  OBVIOUS
<1> HIDE DEF D
<1>1. IsPerf(m) /\ m.queue \in [Blocks -> [Slots -> Entry \cup {Free}]] /\ m.count = k.count
  BY NoteOffsLeaves, NoteOffsTyped DEF NotesOK
<1>2. \A c \in Blocks : c \notin B => Occupied(m, c) = Occupied(k, c)
  <2>2. \A c \in Blocks : Occupied(m, c) = {s \in Occupied(k, c) : <<c, s>> \notin D}
    BY NoteOffsOccupied DEF NotesOK
  <2>3. \A c \in Blocks : Occupied(k, c) \subseteq Slots
    BY DEF Occupied
  <2> HIDE DEF B, m
  <2> QED BY <1>0, <2>2, <2>3
<1>3. r = [m EXCEPT !.count = [b \in Blocks |-> IF b \in B THEN 0 ELSE m.count[b]]]
  BY DEF flush_channel_notes, D
<1> HIDE DEF B, m, r
<1>4. IsPerf(r) /\ r.queue = m.queue /\ r.count = count
  BY <1>1, <1>3 DEF IsPerf
<1>5. r.count \in [Blocks -> Int]
  BY <1>4 DEF NotesOK
<1>6. \A c \in Blocks : Occupied(r, c) = Occupied(m, c)
  BY <1>4 DEF Occupied
<1>7. ASSUME NEW c \in Blocks PROVE NeverOver(r, c)
  <2>1. CASE c \in B
    BY <1>4, <2>1, ZeroNeverOver
  <2>2. CASE c \notin B
    BY <1>2, <1>4, <1>6, <2>2, SameNeverOver DEF NotesOK
  <2> QED BY <2>1, <2>2
<1> QED BY <1>1, <1>4, <1>5, <1>7 DEF NotesOK, r

(* Whatever changes other fields only. *)
LEMMA OtherFieldsOK ==
  ASSUME NEW k, NotesOK(k), NEW m, IsPerf(m), m.queue = k.queue, m.count = k.count
  PROVE  NotesOK(m)
<1>1. \A b \in Blocks : Occupied(m, b) = Occupied(k, b)
  BY DEF Occupied
<1>2. \A b \in Blocks : NeverOver(m, b)
  BY <1>1, SameNeverOver DEF NotesOK
<1> QED BY <1>2 DEF NotesOK

LEMMA MapOK ==
  ASSUME NEW k, NotesOK(k), NEW b, NEW x
  PROVE  NotesOK([k EXCEPT !.map[b] = x])
<1>1. IsPerf([k EXCEPT !.map[b] = x])
      /\ [k EXCEPT !.map[b] = x].queue = k.queue
      /\ [k EXCEPT !.map[b] = x].count = k.count
  BY DEF NotesOK, IsPerf
<1> QED BY <1>1, OtherFieldsOK

LEMMA MapChannelOK ==
  ASSUME NEW k, NotesOK(k), NEW b, NEW c, NEW x
  PROVE  NotesOK([k EXCEPT !.map[b][c] = x])
<1>1. IsPerf([k EXCEPT !.map[b][c] = x])
      /\ [k EXCEPT !.map[b][c] = x].queue = k.queue
      /\ [k EXCEPT !.map[b][c] = x].count = k.count
  BY DEF NotesOK, IsPerf
<1> QED BY <1>1, OtherFieldsOK

LEMMA ProtectedOK ==
  ASSUME NEW k, NotesOK(k), NEW x
  PROVE  NotesOK([k EXCEPT !.protected = x])
<1>1. IsPerf([k EXCEPT !.protected = x])
      /\ [k EXCEPT !.protected = x].queue = k.queue
      /\ [k EXCEPT !.protected = x].count = k.count
  BY DEF NotesOK, IsPerf
<1> QED BY <1>1, OtherFieldsOK

LEMMA ActiveOK ==
  ASSUME NEW k, NotesOK(k), NEW x
  PROVE  NotesOK([k EXCEPT !.active = x])
<1>1. IsPerf([k EXCEPT !.active = x])
      /\ [k EXCEPT !.active = x].queue = k.queue
      /\ [k EXCEPT !.active = x].count = k.count
  BY DEF NotesOK, IsPerf
<1> QED BY <1>1, OtherFieldsOK

LEMMA LockedOK ==
  ASSUME NEW k, NotesOK(k), NEW x
  PROVE  NotesOK([k EXCEPT !.locked = x])
<1>1. IsPerf([k EXCEPT !.locked = x])
      /\ [k EXCEPT !.locked = x].queue = k.queue
      /\ [k EXCEPT !.locked = x].count = k.count
  BY DEF NotesOK, IsPerf
<1> QED BY <1>1, OtherFieldsOK

LEMMA LockChannelOK ==
  ASSUME SequencerAssumption, NEW k, NotesOK(k), NEW p
  PROVE  NotesOK(lock_channel(k, p))
<1> DEFINE f == flush_channel_notes(k, p)
           g == [[f EXCEPT !.active = [f.active EXCEPT ![p] = 0]] EXCEPT !.locked = f.locked \cup {p}]
<1>1. lock_channel(k, p) = IF p = NoChan THEN k ELSE g
  BY DEF lock_channel
<1>2. NotesOK(f)
  BY FlushChannelOK
<1>3. NotesOK(g)
  <2> HIDE DEF f
  <2> DEFINE a == [f EXCEPT !.active = [f.active EXCEPT ![p] = 0]]
  <2>1. NotesOK(a)
    BY <1>2, ActiveOK
  <2> HIDE DEF a
  <2>2. NotesOK([a EXCEPT !.locked = f.locked \cup {p}])
    BY <2>1, LockedOK
  <2> QED BY <2>2 DEF a
<1> QED BY <1>1, <1>3

LEMMA ReleaseOK ==
  ASSUME NEW k, NotesOK(k), NEW R
  PROVE  NotesOK(release_channels(k, R))
<1> DEFINE L == R \cap k.locked
           a == [p \in Chans |-> IF p \in L THEN 0 ELSE k.active[p]]
           m == release_channels(k, R)
<1>1. m = [[[k EXCEPT !.locked = k.locked \ L] EXCEPT !.active = a]
             EXCEPT !.sounding = k.sounding \ (L \X Notes)]
  BY DEF release_channels
<1> HIDE DEF L, a, m
<1>2. IsPerf(m) /\ m.queue = k.queue /\ m.count = k.count
  BY <1>1 DEF NotesOK, IsPerf
<1> QED BY <1>2, OtherFieldsOK DEF m

LEMMA ResetOK ==
  ASSUME SequencerAssumption, NEW k, NotesOK(k), NEW b
  PROVE  NotesOK(reset_sequence(k, b))
<1> DEFINE r == release_channels(flush_channel_notes(k, 0), {k.map[b][c] : c \in Chans})
<1>1. NotesOK(r)
  BY FlushChannelOK, ReleaseOK
<1>2. reset_sequence(k, b) = [[r EXCEPT !.map[b] = Identity] EXCEPT !.protected = {}]
  BY DEF reset_sequence
<1> HIDE DEF r
<1> DEFINE u == [r EXCEPT !.map[b] = Identity]
<1>3. NotesOK(u)
  BY <1>1, MapOK
<1> HIDE DEF u
<1>4. NotesOK([u EXCEPT !.protected = {}])
  BY <1>3, ProtectedOK
<1> QED BY <1>2, <1>4 DEF u

LEMMA RewindOK ==
  ASSUME SequencerAssumption, NEW k, NotesOK(k), NEW b \in Blocks
  PROVE  NotesOK(rewind_seq(k, b))
<1> DEFINE none == [s \in Slots |-> Free]
           r == rewind_seq(k, b)
<1>1. r = [[[k EXCEPT !.map = [k.map EXCEPT ![b] = Identity]]
                EXCEPT !.queue = [k.queue EXCEPT ![b] = none]]
                EXCEPT !.count = [k.count EXCEPT ![b] = 0]]
  BY DEF rewind_seq
<1>2. none \in [Slots -> Entry \cup {Free}]
  OBVIOUS
<1> HIDE DEF none, r
<1>3. IsPerf(r) /\ r.queue = [k.queue EXCEPT ![b] = none] /\ r.count = [k.count EXCEPT ![b] = 0]
  BY <1>1 DEF NotesOK, IsPerf
<1>4. r.queue \in [Blocks -> [Slots -> Entry \cup {Free}]] /\ r.count \in [Blocks -> Int]
      /\ r.count[b] = 0
      /\ \A c \in Blocks : c # b => r.count[c] = k.count[c] /\ r.queue[c] = k.queue[c]
  BY <1>2, <1>3 DEF NotesOK
<1>5. ASSUME NEW c \in Blocks PROVE NeverOver(r, c)
  <2>1. CASE c = b
    BY <1>4, <2>1, ZeroNeverOver
  <2>2. CASE c # b
    <3>1. Occupied(r, c) = Occupied(k, c)
      BY <1>4, <2>2 DEF Occupied
    <3> QED BY <1>4, <2>2, <3>1, SameNeverOver DEF NotesOK
  <2> QED BY <2>1, <2>2
<1> QED BY <1>3, <1>4, <1>5 DEF NotesOK, r

LEMMA QueueSet ==
  ASSUME NEW k, IsPerf(k), NEW x
  PROVE  /\ IsPerf([k EXCEPT !.queue = x])
         /\ [k EXCEPT !.queue = x].queue = x
         /\ [k EXCEPT !.queue = x].count = k.count
BY DEF IsPerf

(* The notes whose time is up: as many entries go as the count loses. *)
LEMMA ExpiredOK ==
  ASSUME SequencerAssumption, NEW k, NotesOK(k), NEW b \in Blocks
  PROVE  NotesOK(Expired(k, b))
<1> DEFINE older(x) == IF x = Free THEN Free ELSE [x EXCEPT !.time = @ - 1]
           old == Older(k.queue[b])
           aged == [k EXCEPT !.queue = [k.queue EXCEPT ![b] = old]]
           due == Due(k, b)
           D == {b} \X due
           m == NoteOffs(aged, D)
           e == -Cardinality(due)
           r == Expired(k, b)
<1>1. \A s \in Slots : old[s] = older(k.queue[b][s])
  BY DEF Older
<1>2. r = [m EXCEPT !.count = [m.count EXCEPT ![b] = (m.count[b] - Cardinality(due)) % CountMod]]
  BY DEF Expired
<1>3. \A c \in Blocks, s \in Slots : <<c, s>> \in D <=> c = b /\ s \in due
  OBVIOUS
<1>4. due = {s \in Occupied(k, b) : k.queue[b][s].time = 0}
  BY DEF Due
<1>5. \A x \in Entry : x.time # 0 => older(x) \in Entry
  BY DEF Entry
<1>6. Free \notin Entry
  BY DEF SequencerAssumption, Entry, Chans
<1>7. older(Free) = Free
  OBVIOUS
<1> HIDE DEF older, old, due, D, m, e, r
<1>8. IsPerf(aged) /\ aged.queue = [k.queue EXCEPT ![b] = old] /\ aged.count = k.count
  BY QueueSet DEF NotesOK
<1> HIDE DEF aged
<1>9. /\ IsPerf(m)
      /\ m.queue = [c \in Blocks |-> [s \in Slots |-> IF <<c, s>> \in D THEN Free ELSE aged.queue[c][s]]]
      /\ m.count = k.count
  BY <1>8, NoteOffsLeaves DEF m
<1>10. IsPerf(r) /\ r.queue = m.queue
       /\ r.count = [k.count EXCEPT ![b] = (k.count[b] - Cardinality(due)) % CountMod]
  BY <1>2, <1>9 DEF IsPerf
<1>11. \A s \in Slots : r.queue[b][s] = IF s \in due THEN Free ELSE older(k.queue[b][s])
  BY <1>1, <1>3, <1>8, <1>9, <1>10 DEF NotesOK
<1>12. \A c \in Blocks, s \in Slots : c # b => r.queue[c][s] = k.queue[c][s]
  BY <1>3, <1>8, <1>9, <1>10 DEF NotesOK
<1>13. ASSUME NEW s \in Slots
       PROVE  /\ r.queue[b][s] \in Entry \cup {Free}
              /\ r.queue[b][s] = Free <=> s \notin Occupied(k, b) \ due
  <2>1. k.queue[b][s] \in Entry \cup {Free}
    BY DEF NotesOK
  <2>2. CASE s \in due
    BY <1>11, <2>2
  <2>3. CASE s \notin due /\ k.queue[b][s] = Free
    BY <1>7, <1>11, <2>3 DEF Occupied
  <2>4. CASE s \notin due /\ k.queue[b][s] # Free
    <3>1. s \in Occupied(k, b) /\ k.queue[b][s].time # 0
      BY <1>4, <2>4 DEF Occupied
    <3>2. older(k.queue[b][s]) \in Entry
      BY <1>5, <2>1, <2>4, <3>1
    <3> QED BY <1>6, <1>11, <2>4, <3>1, <3>2
  <2> QED BY <2>2, <2>3, <2>4
<1>14. r.queue \in [Blocks -> [Slots -> Entry \cup {Free}]]
  <2>1. r.queue = [c \in Blocks |-> [s \in Slots |-> r.queue[c][s]]]
    BY <1>9, <1>10
  <2>2. \A c \in Blocks, s \in Slots : r.queue[c][s] \in Entry \cup {Free}
    BY <1>12, <1>13 DEF NotesOK
  <2> QED BY <2>1, <2>2
<1>15. Occupied(r, b) = Occupied(k, b) \ due
  BY <1>13 DEF Occupied
<1>16. due \subseteq Occupied(k, b) /\ IsFiniteSet(due) /\ Cardinality(due) \in Nat
  <2>1. due \in SUBSET Occupied(k, b)
    BY <1>4
  <2>2. IsFiniteSet(due)
    BY <2>1, OccupiedBounds, FS_Subset
  <2> QED BY <2>1, <2>2, FS_CardinalityType
<1>17. Cardinality(Occupied(r, b)) = Cardinality(Occupied(k, b)) + e
  <2>1. IsFiniteSet(Occupied(k, b)) /\ Cardinality(Occupied(k, b)) \in Nat
    BY OccupiedBounds DEF SequencerAssumption
  <2>2. Cardinality(Occupied(k, b)) = Cardinality(Occupied(r, b)) + Cardinality(due)
    <3>1. Cardinality(Occupied(k, b) \ due)
            = Cardinality(Occupied(k, b)) - Cardinality(Occupied(k, b) \cap due)
      BY <2>1, FS_Difference
    <3>2. Occupied(k, b) \cap due = due
      BY <1>16
    <3>3. Cardinality(Occupied(r, b)) = Cardinality(Occupied(k, b)) - Cardinality(due)
      BY <1>15, <3>1, <3>2, Zenon
    <3> QED BY <1>16, <2>1, <3>3
  <2>3. Cardinality(Occupied(r, b)) \in Nat
    BY <1>15, <1>16, <2>1, FS_Difference, FS_CardinalityType
  <2> QED BY <1>16, <2>1, <2>2, <2>3 DEF e
<1>18. r.count \in [Blocks -> Int]
  <2>1. (k.count[b] - Cardinality(due)) % CountMod \in Int
    BY <1>16 DEF NotesOK, SequencerAssumption
  <2> QED BY <1>10, <2>1 DEF NotesOK
<1>19. ASSUME NEW c \in Blocks PROVE NeverOver(r, c)
  <2>1. CASE c = b
    <3>1. r.count[b] = Wrapped(k.count[b] + e) /\ e \in Int /\ e <= 1
      BY <1>10, <1>16 DEF NotesOK, Wrapped, e
    <3>2. NeverOver(r, b)
      BY <1>17, <3>1, StepNeverOver DEF NotesOK
    <3> QED BY <2>1, <3>2
  <2>2. CASE c # b
    <3>1. Occupied(r, c) = Occupied(k, c) /\ r.count[c] = k.count[c]
      BY <1>10, <1>12, <2>2 DEF Occupied, NotesOK
    <3> QED BY <3>1, SameNeverOver DEF NotesOK
  <2> QED BY <2>1, <2>2
<1> QED BY <1>10, <1>14, <1>18, <1>19 DEF NotesOK, r

(* One block's entries and count move together by e, which is at most 1,   *)
(* and nothing else moves.                                                 *)
LEMMA BlockSteps ==
  ASSUME SequencerAssumption, NEW k, NotesOK(k), NEW b \in Blocks, NEW e \in Int, e <= 1,
         NEW m, IsPerf(m), m.count = k.count,
         m.queue \in [Blocks -> [Slots -> Entry \cup {Free}]],
         \A c \in Blocks : c # b => Occupied(m, c) = Occupied(k, c),
         Cardinality(Occupied(m, b)) = Cardinality(Occupied(k, b)) + e
  PROVE  NotesOK([m EXCEPT !.count[b] = (k.count[b] + e) % CountMod])
<1> DEFINE x == (k.count[b] + e) % CountMod
           r == [m EXCEPT !.count[b] = x]
<1>1. x = Wrapped(k.count[b] + e)
  BY DEF Wrapped
<1>2. x \in Int
  BY DEF NotesOK, SequencerAssumption
<1> HIDE DEF x
<1>3. IsPerf(r) /\ r.queue = m.queue /\ r.count = [k.count EXCEPT ![b] = x]
  <2>1. r = [m EXCEPT !.count = [k.count EXCEPT ![b] = x]]
    OBVIOUS
  <2> HIDE DEF r
  <2> QED BY <2>1 DEF IsPerf
<1> HIDE DEF r
<1>4. r.count \in [Blocks -> Int]
  BY <1>2, <1>3 DEF NotesOK
<1>5. \A c \in Blocks : Occupied(r, c) = Occupied(m, c)
  BY <1>3 DEF Occupied
<1>6. ASSUME NEW c \in Blocks PROVE NeverOver(r, c)
  <2>1. CASE c = b
    <3>1. r.count[b] = Wrapped(k.count[b] + e)
      BY <1>1, <1>3 DEF NotesOK
    <3>2. NeverOver(r, b)
      BY <1>5, <3>1, StepNeverOver DEF NotesOK
    <3> QED BY <2>1, <3>2
  <2>2. CASE c # b
    <3>1. Occupied(r, c) = Occupied(k, c) /\ r.count[c] = k.count[c]
      BY <1>3, <1>5, <2>2 DEF NotesOK
    <3> QED BY <3>1, SameNeverOver DEF NotesOK
  <2> QED BY <2>1, <2>2
<1> QED BY <1>3, <1>4, <1>6 DEF NotesOK, r, x

(* A note enters the slot s. *)
LEMMA SoundedLeaves ==
  ASSUME SequencerAssumption, NEW k, NotesOK(k), NEW b \in Blocks, NEW s \in Slots,
         NEW c \in Chans, NEW n \in Notes, NEW d \in Durations
  PROVE  /\ IsPerf(Sounded(k, b, s, c, n, d))
         /\ Sounded(k, b, s, c, n, d).count = k.count
         /\ Sounded(k, b, s, c, n, d).queue \in [Blocks -> [Slots -> Entry \cup {Free}]]
         /\ Occupied(Sounded(k, b, s, c, n, d), b) = Occupied(k, b) \cup {s}
         /\ \A f \in Blocks : f # b =>
              Occupied(Sounded(k, b, s, c, n, d), f) = Occupied(k, f)
<1> DEFINE entry == [chan |-> c, num |-> n, time |-> d - 1]
           p == k.map[b][c]
           q == [k EXCEPT !.queue = [k.queue EXCEPT ![b] = [k.queue[b] EXCEPT ![s] = entry]]]
           a == [k.active EXCEPT ![p] = (k.active[p] + 1) % ActiveMod]
           o == k.sounding \cup {<<p, n>>}
           r == Sounded(k, b, s, c, n, d)
<1>1. entry \in Entry /\ entry # Free
  BY DEF Entry, SequencerAssumption, Chans
<1>2. r = [[q EXCEPT !.active = a] EXCEPT !.sounding = o]
  BY DEF Sounded
<1> HIDE DEF entry, a, o, p
<1>3. IsPerf(q) /\ q.count = k.count
      /\ q.queue = [k.queue EXCEPT ![b] = [k.queue[b] EXCEPT ![s] = entry]]
  BY QueueSet DEF NotesOK
<1> HIDE DEF q, r
<1>4. IsPerf(r) /\ r.count = k.count /\ r.queue = q.queue
  BY <1>2, <1>3 DEF IsPerf
<1>5. r.queue \in [Blocks -> [Slots -> Entry \cup {Free}]]
  BY <1>1, <1>3, <1>4 DEF NotesOK
<1>6. \A f \in Blocks, t \in Slots :
        r.queue[f][t] = IF f = b /\ t = s THEN entry ELSE k.queue[f][t]
  BY <1>3, <1>4 DEF NotesOK
<1>7. Occupied(r, b) = Occupied(k, b) \cup {s}
  BY <1>1, <1>6 DEF Occupied
<1>8. \A f \in Blocks : f # b => Occupied(r, f) = Occupied(k, f)
  BY <1>6 DEF Occupied
<1> QED BY <1>4, <1>5, <1>7, <1>8 DEF r

LEMMA NoteOnOK ==
  ASSUME SequencerAssumption, NotesOK(perf), st \in Blocks, note_on
  PROVE  NotesOK(perf')
<1>1. PICK c \in Chans, n \in Notes, d \in Durations :
        /\ FreeSlots(perf, st) # {}
        /\ perf' = [Sounded(perf, st, Lowest(FreeSlots(perf, st)), c, n, d)
                      EXCEPT !.count[st] = (@ + 1) % CountMod]
  BY DEF note_on
<1> DEFINE s == Lowest(FreeSlots(perf, st))
           m == Sounded(perf, st, s, c, n, d)
<1>2. s \in Slots /\ s \notin Occupied(perf, st)
  <2>1. FreeSlots(perf, st) \subseteq Nat
    BY DEF FreeSlots, Slots
  <2>2. s \in FreeSlots(perf, st)
    BY <1>1, <2>1, LowestMember
  <2> HIDE DEF s
  <2> QED BY <2>2 DEF FreeSlots
<1> HIDE DEF s
<1>3. /\ IsPerf(m) /\ m.count = perf.count
      /\ m.queue \in [Blocks -> [Slots -> Entry \cup {Free}]]
      /\ Occupied(m, st) = Occupied(perf, st) \cup {s}
      /\ \A f \in Blocks : f # st => Occupied(m, f) = Occupied(perf, f)
  BY <1>2, SoundedLeaves
<1> HIDE DEF m
<1>4. Cardinality(Occupied(m, st)) = Cardinality(Occupied(perf, st)) + 1
  BY <1>2, <1>3, OccupiedBounds, FS_AddElement
<1>5. perf' = [m EXCEPT !.count[st] = (perf.count[st] + 1) % CountMod]
  BY <1>1, <1>3 DEF m, s
<1>6. 1 \in Int /\ 1 <= 1
  OBVIOUS
<1>7. NotesOK([m EXCEPT !.count[st] = (perf.count[st] + 1) % CountMod])
  BY <1>3, <1>4, <1>6, BlockSteps, Zenon
<1> QED BY <1>5, <1>7

(* The first slot is overwritten: it stays occupied. *)
LEMMA OverflowOK ==
  ASSUME SequencerAssumption, NotesOK(perf), st \in Blocks, note_on_overflow
  PROVE  NotesOK(perf')
<1>1. PICK c \in Chans, n \in Notes, d \in Durations :
        /\ FreeSlots(perf, st) = {}
        /\ perf' = Sounded(perf, st, 1, c, n, d)
  BY DEF note_on_overflow
<1>2. 1 \in Slots /\ 1 \in Occupied(perf, st)
  BY <1>1 DEF FreeSlots, Slots, SequencerAssumption
<1> DEFINE m == Sounded(perf, st, 1, c, n, d)
<1>3. /\ IsPerf(m) /\ m.count = perf.count
      /\ m.queue \in [Blocks -> [Slots -> Entry \cup {Free}]]
      /\ Occupied(m, st) = Occupied(perf, st) \cup {1}
      /\ \A f \in Blocks : f # st => Occupied(m, f) = Occupied(perf, f)
  BY <1>2, SoundedLeaves
<1> HIDE DEF m
<1>4. ASSUME NEW b \in Blocks PROVE NeverOver(m, b)
  <2>1. Occupied(m, b) = Occupied(perf, b)
    BY <1>2, <1>3
  <2> QED BY <1>3, <2>1, SameNeverOver DEF NotesOK
<1>5. NotesOK(m)
  BY <1>3, <1>4 DEF NotesOK
<1> QED BY <1>1, <1>5 DEF m

LEMMA NoteOffOK ==
  ASSUME SequencerAssumption, NotesOK(perf), st \in Blocks, note_off
  PROVE  NotesOK(perf')
<1>1. PICK c \in Chans, n \in Notes :
        LET hits == {s \in Occupied(perf, st) : /\ perf.queue[st][s].chan = c
                                                /\ perf.queue[st][s].num = n} IN
        /\ hits # {}
        /\ perf' = [NoteOffs(perf, {<<st, Lowest(hits)>>})
                      EXCEPT !.count[st] = (@ - 1) % CountMod]
  BY DEF note_off
<1> DEFINE hits == {s \in Occupied(perf, st) : /\ perf.queue[st][s].chan = c
                                               /\ perf.queue[st][s].num = n}
           s == Lowest(hits)
           D == {<<st, s>>}
           m == NoteOffs(perf, D)
<1>2. s \in Occupied(perf, st)
  <2>1. hits \subseteq Nat /\ hits # {} /\ hits \subseteq Occupied(perf, st)
    <3>1. hits # {}
      BY <1>1
    <3>2. Occupied(perf, st) \subseteq Nat
      BY DEF Occupied, Slots
    <3>3. hits \subseteq Occupied(perf, st)
      OBVIOUS
    <3> HIDE DEF hits
    <3> QED BY <3>1, <3>2, <3>3
  <2>2. s \in hits
    <3> HIDE DEF hits
    <3> QED BY <2>1, LowestMember
  <2> HIDE DEF hits, s
  <2> QED BY <2>1, <2>2
<1>3. perf' = [m EXCEPT !.count[st] = (m.count[st] - 1) % CountMod]
  BY <1>1
<1> HIDE DEF hits, s
<1>4. \A f \in Blocks, t \in Slots : <<f, t>> \in D <=> f = st /\ t = s
  OBVIOUS
<1> HIDE DEF D
<1>5. IsPerf(m) /\ m.count = perf.count
      /\ m.queue \in [Blocks -> [Slots -> Entry \cup {Free}]]
  BY NoteOffsLeaves, NoteOffsTyped DEF NotesOK
<1>6. \A f \in Blocks : Occupied(m, f) = {t \in Occupied(perf, f) : <<f, t>> \notin D}
  BY NoteOffsOccupied DEF NotesOK
<1> HIDE DEF m
<1>7. \A f \in Blocks : Occupied(perf, f) \subseteq Slots
  BY DEF Occupied
<1>8. \A f \in Blocks : f # st => Occupied(m, f) = Occupied(perf, f)
  BY <1>4, <1>6, <1>7
<1>9. Occupied(m, st) = Occupied(perf, st) \ {s}
  BY <1>2, <1>4, <1>6, <1>7
<1>10. Cardinality(Occupied(m, st)) = Cardinality(Occupied(perf, st)) + (-1)
  <2>1. Cardinality(Occupied(m, st)) = Cardinality(Occupied(perf, st)) - 1
    <3>1. IsFiniteSet(Occupied(perf, st))
      BY OccupiedBounds
    <3>2. Cardinality(Occupied(perf, st) \ {s}) = Cardinality(Occupied(perf, st)) - 1
      BY <1>2, <3>1, FS_RemoveElement
    <3> QED BY <1>9, <3>2, Zenon
  <2>2. Cardinality(Occupied(perf, st)) \in Int
    BY OccupiedBounds DEF SequencerAssumption
  <2> QED BY <2>1, <2>2
<1>11. perf' = [m EXCEPT !.count[st] = (perf.count[st] + (-1)) % CountMod]
  <2>1. perf.count[st] - 1 = perf.count[st] + (-1)
    BY DEF NotesOK
  <2> QED BY <1>3, <1>5, <2>1
<1> QED BY <1>5, <1>8, <1>10, <1>11, BlockSteps

(* Controllers that lock, unlock and protect channels. *)
LEMMA ControlOK ==
  ASSUME SequencerAssumption, NotesOK(perf), NEW b, XMIDI_control(b)
  PROVE  NotesOK(perf')
<1>1. ASSUME NEW c \in Chans, CHAN_LOCK_on(b, c) PROVE NotesOK(perf')
  <2> DEFINE p == Candidate(perf)
             m == lock_channel(perf, p)
             to == IF p = NoChan THEN c ELSE p
  <2>1. NotesOK(m)
    BY LockChannelOK
  <2>2. perf' = [m EXCEPT !.map[b][c] = to]
    BY <1>1 DEF CHAN_LOCK_on
  <2> HIDE DEF m, to
  <2> QED BY <2>1, <2>2, MapChannelOK
<1>2. ASSUME NEW c \in Chans, CHAN_LOCK_off(b, c) PROVE NotesOK(perf')
  <2> DEFINE m == release_channels(flush_channel_notes(perf, c), {perf.map[b][c]})
  <2>1. NotesOK(m)
    BY FlushChannelOK, ReleaseOK
  <2>2. perf' = [m EXCEPT !.map[b][c] = c]
    BY <1>2 DEF CHAN_LOCK_off
  <2> HIDE DEF m
  <2> QED BY <2>1, <2>2, MapChannelOK
<1>3. ASSUME NEW c \in Chans, CHAN_PROTECT(c) PROVE NotesOK(perf')
  <2>1. PICK x : perf' = [perf EXCEPT !.protected = x]
    BY <1>3 DEF CHAN_PROTECT
  <2> QED BY <2>1, ProtectedOK
<1> QED BY <1>1, <1>2, <1>3 DEF XMIDI_control

LEMMA NotesAppCall ==
  ASSUME SequencerAssumption, RegistryInv, NotesOK(perf), AppCall
  PROVE  NotesOK(perf')
<1>0. Registered \subseteq Blocks
  BY DEF Registered, RegistryInv, RegistryTypes
<1>1. CASE register_seq
  <2>1. PICK b \in Blocks : perf' = rewind_seq(perf, b)
    BY <1>1 DEF register_seq
  <2> QED BY <2>1, RewindOK
<1>2. CASE start_seq
  <2>1. PICK b \in Blocks :
          perf' = rewind_seq(IF status[b] = "playing" THEN Stopped(perf, b) ELSE perf, b)
    BY <1>0, <1>2 DEF start_seq
  <2>2. NotesOK(Stopped(perf, b))
    BY FlushQueueOK, ResetOK DEF Stopped
  <2>3. CASE status[b] = "playing"
    BY <2>1, <2>2, <2>3, RewindOK
  <2>4. CASE status[b] # "playing"
    BY <2>1, <2>4, RewindOK
  <2> QED BY <2>3, <2>4
<1>3. CASE stop_seq
  <2>1. PICK b \in Blocks : perf' = Stopped(perf, b)
    BY <1>0, <1>3 DEF stop_seq
  <2> QED BY <2>1, FlushQueueOK, ResetOK DEF Stopped
<1>4. CASE resume_seq \/ release_seq
  BY <1>4 DEF resume_seq, release_seq
<1>5. CASE branch_index
  <2>1. PICK b \in Blocks : perf' = flush_note_queue(perf, b)
    BY <1>0, <1>5 DEF branch_index
  <2> QED BY <2>1, FlushQueueOK
<1>6. CASE map_seq_channel
  <2>1. PICK b \in Blocks, c \in Chans, p \in Chans : perf' = [perf EXCEPT !.map[b][c] = p]
    BY <1>0, <1>6 DEF map_seq_channel
  <2> QED BY <2>1, MapChannelOK
<1>7. CASE app_lock_channel
  BY <1>7, LockChannelOK DEF app_lock_channel
<1>8. CASE app_release_channel
  <2>1. PICK p \in Chans : perf' = release_channels(perf, {p})
    BY <1>8 DEF app_release_channel
  <2> QED BY <2>1, ReleaseOK
<1>9. CASE set_control_val
  BY <1>9, ControlOK DEF set_control_val
<1> QED BY <1>1, <1>2, <1>3, <1>4, <1>5, <1>6, <1>7, <1>8, <1>9 DEF AppCall

LEMMA NotesService ==
  ASSUME SequencerAssumption, RegistryInv, NotesOK(perf), Service
  PROVE  NotesOK(perf')
<1>1. CASE serve \/ pass_sequence \/ delay \/ callback_trigger \/ return_callback
  BY <1>1 DEF serve, pass_sequence, delay, callback_trigger, return_callback
<1>2. CASE process_tick
  <2>1. sequence_states[seq] \in Blocks
    BY <1>2 DEF process_tick, Ready, RegistryInv, RegistryTypes
  <2>2. perf' = perf \/ perf' = Expired(perf, sequence_states[seq])
    BY <1>2 DEF process_tick
  <2> QED BY <2>1, <2>2, ExpiredOK
<1>3. CASE note_on \/ note_on_overflow \/ note_off \/ control \/ end_of_track
  <2>1. st \in Blocks
    BY <1>3 DEF note_on, note_on_overflow, note_off, control, end_of_track, InLoop,
                RegistryInv, RegistryTypes
  <2>2. CASE end_of_track
    BY <2>2, ResetOK DEF end_of_track
  <2>3. CASE control
    BY <2>3, ControlOK DEF control
  <2> QED BY <1>3, <2>1, <2>2, <2>3, NoteOnOK, OverflowOK, NoteOffOK
<1> QED BY <1>1, <1>2, <1>3 DEF Service, Event

LEMMA NotesInit == ASSUME SequencerAssumption, Init PROVE NotesOK(perf)
<1> DEFINE free == [s \in Slots |-> Free]
<1>1. perf = [queue |-> [b \in Blocks |-> free], count |-> [b \in Blocks |-> 0],
              map |-> [b \in Blocks |-> Identity], active |-> [p \in Chans |-> 0],
              locked |-> {}, protected |-> {}, sounding |-> {}]
  BY DEF Init
<1>2. free \in [Slots -> Entry \cup {Free}]
  OBVIOUS
<1> HIDE DEF free
<1>3. IsPerf(perf) /\ perf.queue = [b \in Blocks |-> free] /\ perf.count = [b \in Blocks |-> 0]
  BY <1>1 DEF IsPerf
<1>4. \A b \in Blocks : NeverOver(perf, b)
  BY <1>3, ZeroNeverOver
<1>5. perf.queue \in [Blocks -> [Slots -> Entry \cup {Free}]] /\ perf.count \in [Blocks -> Int]
  BY <1>2, <1>3
<1> QED BY <1>3, <1>4, <1>5 DEF NotesOK

(* note_count, read as a signed number, never says more than the queue     *)
(* holds and never lags by more than the slots there are, for every length *)
(* of the queue and whatever overflows, flushes and wraps.                 *)
THEOREM CountNeverOverAlways == Spec => []CountNeverOver
<1> DEFINE OK == NotesOK(perf)
<1>1. Init => OK
  BY NotesInit, SequencerAssumption
<1>2. RegistryInv /\ OK /\ [Next]_vars => OK'
  <2>1. CASE UNCHANGED vars
    BY <2>1 DEF vars
  <2>2. ASSUME RegistryInv, OK, Next PROVE OK'
    BY <2>2, NotesAppCall, NotesService, SequencerAssumption DEF Next
  <2> QED BY <2>1, <2>2
<1>3. OK => CountNeverOver
  BY DEF NotesOK, NeverOver, Wrapped, CountNeverOver
<1> HIDE DEF OK
<1> QED BY <1>1, <1>2, <1>3, RegistryAlways, PTL DEF Spec
----------------------------------------------------------------------------
(* Notes that sound.  The hypotheses name what does leave a note hanging:  *)
(* an overflow forgets the overwritten note, a locked channel moves notes  *)
(* that sound, and so does a mapping by the application; the end of a      *)
(* track flushes channel 0 only.                                           *)

(* Songs neither overflow a queue, lock a channel nor reach their end, and *)
(* the application maps no channel.                                        *)
PlainSongs ==
  /\ Events \cap {"overflow", "lock", "relock", "end"} = {}
  /\ "map" \notin Calls

(* Every note that sounds in k is queued, on a channel mapped to itself.   *)
Covered(k) ==
  \A key \in k.sounding : \E b \in Blocks, s \in Slots :
    /\ k.queue[b][s] # Free
    /\ k.queue[b][s].chan = key[1]
    /\ k.queue[b][s].num = key[2]

Unmapped(k) == k.map = [b \in Blocks |-> Identity]

Quiet(k) ==
  /\ IsPerf(k)
  /\ k.queue \in [Blocks -> [Slots -> Entry \cup {Free}]]
  /\ k.sounding \subseteq Chans \X Notes
  /\ Unmapped(k)
  /\ Covered(k)

(* No note waits in the queue of a sequence that does not play.            *)
StoppedEmpty == \A b \in Blocks : status[b] # "playing" => Occupied(perf, b) = {}

(* The whole of what NoteOffs leaves, channels mapped to themselves.       *)
LEMMA NoteOffsSounding ==
  ASSUME NEW k, IsPerf(k), NEW D
  PROVE  /\ NoteOffs(k, D).map = k.map
         /\ NoteOffs(k, D).locked = k.locked
         /\ NoteOffs(k, D).active =
              [p \in Chans |->
                (k.active[p] - Cardinality({d \in D : Phys(k, d[1], d[2]) = p})) % ActiveMod]
         /\ NoteOffs(k, D).sounding =
              k.sounding \ {<<Phys(k, d[1], d[2]), k.queue[d[1]][d[2]].num>> : d \in D}
<1> DEFINE q == [b \in Blocks |-> [s \in Slots |-> IF <<b, s>> \in D THEN Free ELSE k.queue[b][s]]]
           a == [p \in Chans |->
                  (k.active[p] - Cardinality({d \in D : Phys(k, d[1], d[2]) = p})) % ActiveMod]
           o == k.sounding \ {<<Phys(k, d[1], d[2]), k.queue[d[1]][d[2]].num>> : d \in D}
<1>1. NoteOffs(k, D) = [[[k EXCEPT !.queue = q] EXCEPT !.active = a] EXCEPT !.sounding = o]
  BY DEF NoteOffs
<1> HIDE DEF q, a, o
<1>2. /\ NoteOffs(k, D).map = k.map /\ NoteOffs(k, D).locked = k.locked
      /\ NoteOffs(k, D).active = a /\ NoteOffs(k, D).sounding = o
  BY <1>1 DEF IsPerf
<1> QED BY <1>2 DEF a, o

(* Note-offs for whichever entries leave every note that sounds queued.    *)
LEMMA NoteOffsQuiet ==
  ASSUME NEW k, Quiet(k), NEW D
  PROVE  Quiet(NoteOffs(k, D))
<1> DEFINE m == NoteOffs(k, D)
<1>1. IsPerf(m) /\ m.queue \in [Blocks -> [Slots -> Entry \cup {Free}]]
  BY NoteOffsLeaves, NoteOffsTyped DEF Quiet
<1>2. \A b \in Blocks, s \in Slots : m.queue[b][s] = IF <<b, s>> \in D THEN Free ELSE k.queue[b][s]
  <2>1. m.queue = [b \in Blocks |-> [s \in Slots |-> IF <<b, s>> \in D THEN Free ELSE k.queue[b][s]]]
    BY NoteOffsLeaves DEF Quiet
  <2> QED BY <2>1
<1>3. /\ m.map = k.map
      /\ m.sounding = k.sounding \ {<<Phys(k, d[1], d[2]), k.queue[d[1]][d[2]].num>> : d \in D}
  BY NoteOffsSounding DEF Quiet
<1> HIDE DEF m
<1>4. ASSUME NEW key \in m.sounding
      PROVE  \E b \in Blocks, s \in Slots : /\ m.queue[b][s] # Free
                                            /\ m.queue[b][s].chan = key[1]
                                            /\ m.queue[b][s].num = key[2]
  <2>1. key \in k.sounding
    BY <1>3
  <2>2. PICK b \in Blocks, s \in Slots :
          k.queue[b][s] # Free /\ k.queue[b][s].chan = key[1] /\ k.queue[b][s].num = key[2]
    BY <2>1 DEF Quiet, Covered
  <2>3. <<b, s>> \notin D
    <3> SUFFICES ASSUME <<b, s>> \in D PROVE FALSE
      OBVIOUS
    <3>1. k.queue[b][s] \in Entry
      BY <2>2 DEF Quiet
    <3>2. Phys(k, b, s) = key[1]
      BY <2>2, <3>1 DEF Phys, Quiet, Unmapped, Identity, Entry
    <3>3. <<Phys(k, b, s), k.queue[b][s].num>> \notin m.sounding
      BY <1>3
    <3>4. key = <<key[1], key[2]>>
      BY <2>1 DEF Quiet
    <3> QED BY <2>2, <3>2, <3>3, <3>4
  <2> QED BY <1>2, <2>2, <2>3
<1> QED BY <1>1, <1>3, <1>4 DEF Quiet, Covered, Unmapped, m

(* Whatever changes neither queue nor mapping and makes nothing sound.     *)
LEMMA OtherFieldsQuiet ==
  ASSUME NEW k, Quiet(k), NEW m, IsPerf(m), m.queue = k.queue, m.map = k.map,
         m.sounding \subseteq k.sounding
  PROVE  Quiet(m)
BY DEF Quiet, Covered, Unmapped

LEMMA CountQuiet ==
  ASSUME NEW k, Quiet(k), NEW x
  PROVE  Quiet([k EXCEPT !.count = x])
<1> DEFINE m == [k EXCEPT !.count = x]
<1>1. IsPerf(m) /\ m.queue = k.queue /\ m.map = k.map /\ m.sounding = k.sounding
  BY DEF Quiet, IsPerf
<1> HIDE DEF m
<1>2. Quiet(m)
  BY <1>1, OtherFieldsQuiet
<1> QED BY <1>2 DEF m

LEMMA FlushQueueQuiet ==
  ASSUME NEW k, Quiet(k), NEW b \in Blocks
  PROVE  /\ Quiet(flush_note_queue(k, b))
         /\ Occupied(flush_note_queue(k, b), b) = {}
         /\ \A c \in Blocks : Occupied(flush_note_queue(k, b), c) \subseteq Occupied(k, c)
<1> DEFINE D == {b} \X Occupied(k, b)
           m == NoteOffs(k, D)
           r == flush_note_queue(k, b)
<1>1. Quiet(m) /\ IsPerf(k)
  BY NoteOffsQuiet DEF Quiet
<1>2. \A c \in Blocks : Occupied(m, c) = {s \in Occupied(k, c) : <<c, s>> \notin D}
  BY <1>1, NoteOffsOccupied
<1>3. r = [m EXCEPT !.count = [m.count EXCEPT ![b] = 0]]
  BY DEF flush_note_queue
<1>4. \A s \in Occupied(k, b) : <<b, s>> \in D
  OBVIOUS
<1> HIDE DEF D, m, r
<1>5. Quiet(r)
  BY <1>1, <1>3, CountQuiet
<1>6. r.queue = m.queue
  BY <1>1, <1>3 DEF Quiet, IsPerf
<1>7. \A c \in Blocks : Occupied(r, c) = Occupied(m, c)
  BY <1>6 DEF Occupied
<1>8. Occupied(r, b) = {} /\ \A c \in Blocks : Occupied(r, c) \subseteq Occupied(k, c)
  BY <1>2, <1>4, <1>7
<1> QED BY <1>5, <1>8 DEF r

LEMMA FlushChannelQuiet ==
  ASSUME NEW k, Quiet(k), NEW p
  PROVE  /\ Quiet(flush_channel_notes(k, p))
         /\ \A c \in Blocks : Occupied(flush_channel_notes(k, p), c) \subseteq Occupied(k, c)
<1> DEFINE B == {b \in Registered : k.count[b] # 0}
           D == {d \in B \X Slots : /\ k.queue[d[1]][d[2]] # Free
                                    /\ k.queue[d[1]][d[2]].chan = p}
           m == NoteOffs(k, D)
           r == flush_channel_notes(k, p)
<1>1. Quiet(m) /\ IsPerf(k)
  BY NoteOffsQuiet DEF Quiet
<1>2. \A c \in Blocks : Occupied(m, c) = {s \in Occupied(k, c) : <<c, s>> \notin D}
  BY <1>1, NoteOffsOccupied
<1>3. r = [m EXCEPT !.count = [b \in Blocks |-> IF b \in B THEN 0 ELSE m.count[b]]]
  BY DEF flush_channel_notes
<1> HIDE DEF B, D, m, r
<1>4. Quiet(r)
  BY <1>1, <1>3, CountQuiet
<1>5. r.queue = m.queue
  BY <1>1, <1>3 DEF Quiet, IsPerf
<1>6. \A c \in Blocks : Occupied(r, c) \subseteq Occupied(k, c)
  BY <1>2, <1>5 DEF Occupied
<1> QED BY <1>4, <1>6 DEF r

LEMMA ReleaseQuiet ==
  ASSUME NEW k, Quiet(k), NEW R
  PROVE  /\ Quiet(release_channels(k, R))
         /\ release_channels(k, R).queue = k.queue
<1> DEFINE L == R \cap k.locked
           a == [p \in Chans |-> IF p \in L THEN 0 ELSE k.active[p]]
           m == release_channels(k, R)
<1>1. m = [[[k EXCEPT !.locked = k.locked \ L] EXCEPT !.active = a]
             EXCEPT !.sounding = k.sounding \ (L \X Notes)]
  BY DEF release_channels
<1> HIDE DEF L, a, m
<1>2. IsPerf(m) /\ m.queue = k.queue /\ m.map = k.map /\ m.sounding \subseteq k.sounding
  BY <1>1 DEF Quiet, IsPerf
<1> QED BY <1>2, OtherFieldsQuiet DEF m

LEMMA ResetQuiet ==
  ASSUME NEW k, Quiet(k), NEW b \in Blocks
  PROVE  /\ Quiet(reset_sequence(k, b))
         /\ \A c \in Blocks : Occupied(reset_sequence(k, b), c) \subseteq Occupied(k, c)
<1> DEFINE f == flush_channel_notes(k, 0)
           r == release_channels(f, {k.map[b][c] : c \in Chans})
           m == reset_sequence(k, b)
<1>1. Quiet(f) /\ \A c \in Blocks : Occupied(f, c) \subseteq Occupied(k, c)
  BY FlushChannelQuiet
<1>2. Quiet(r) /\ r.queue = f.queue
  <2> HIDE DEF f
  <2> QED BY <1>1, ReleaseQuiet
<1>3. m = [[r EXCEPT !.map = [r.map EXCEPT ![b] = Identity]] EXCEPT !.protected = {}]
  BY DEF reset_sequence
<1> HIDE DEF f, r, m
<1>4. [r.map EXCEPT ![b] = Identity] = r.map
  BY <1>2 DEF Quiet, Unmapped
<1>5. IsPerf(m) /\ m.queue = r.queue /\ m.map = r.map /\ m.sounding = r.sounding
  BY <1>2, <1>3, <1>4 DEF Quiet, IsPerf
<1>6. Quiet(m)
  BY <1>2, <1>5, OtherFieldsQuiet
<1>7. \A c \in Blocks : Occupied(m, c) = Occupied(f, c)
  BY <1>2, <1>5 DEF Occupied
<1> QED BY <1>1, <1>6, <1>7 DEF m

LEMMA StoppedQuiet ==
  ASSUME NEW k, Quiet(k), NEW b \in Blocks
  PROVE  /\ Quiet(Stopped(k, b))
         /\ Occupied(Stopped(k, b), b) = {}
         /\ \A c \in Blocks : Occupied(Stopped(k, b), c) \subseteq Occupied(k, c)
<1> DEFINE f == flush_note_queue(k, b)
<1>1. Quiet(f) /\ Occupied(f, b) = {} /\ \A c \in Blocks : Occupied(f, c) \subseteq Occupied(k, c)
  BY FlushQueueQuiet
<1> HIDE DEF f
<1>2. /\ Quiet(reset_sequence(f, b))
      /\ \A c \in Blocks : Occupied(reset_sequence(f, b), c) \subseteq Occupied(f, c)
  BY <1>1, ResetQuiet
<1>3. Stopped(k, b) = reset_sequence(f, b)
  BY DEF Stopped, f
<1> HIDE DEF f
<1> QED BY <1>1, <1>2, <1>3

(* A rewind forgets nothing when the queue is empty.                       *)
LEMMA RewindQuiet ==
  ASSUME NEW k, Quiet(k), NEW b \in Blocks, Occupied(k, b) = {}
  PROVE  /\ Quiet(rewind_seq(k, b))
         /\ \A c \in Blocks : Occupied(rewind_seq(k, b), c) = Occupied(k, c)
<1> DEFINE none == [s \in Slots |-> Free]
           m == rewind_seq(k, b)
<1>1. m = [[[k EXCEPT !.map = [k.map EXCEPT ![b] = Identity]]
                EXCEPT !.queue = [k.queue EXCEPT ![b] = none]]
                EXCEPT !.count = [k.count EXCEPT ![b] = 0]]
  BY DEF rewind_seq
<1>2. k.queue[b] = none
  <2>1. k.queue[b] \in [Slots -> Entry \cup {Free}]
    BY DEF Quiet
  <2>2. \A s \in Slots : k.queue[b][s] = Free
    BY DEF Occupied
  <2> QED BY <2>1, <2>2
<1> HIDE DEF none, m
<1>3. [k.queue EXCEPT ![b] = none] = k.queue /\ [k.map EXCEPT ![b] = Identity] = k.map
  BY <1>2 DEF Quiet, Unmapped
<1>4. IsPerf(m) /\ m.queue = k.queue /\ m.map = k.map /\ m.sounding = k.sounding
  BY <1>1, <1>3 DEF Quiet, IsPerf
<1>5. Quiet(m)
  BY <1>4, OtherFieldsQuiet
<1>6. \A c \in Blocks : Occupied(m, c) = Occupied(k, c)
  BY <1>4 DEF Occupied
<1> QED BY <1>5, <1>6 DEF m

LEMMA LockChannelQuiet ==
  ASSUME NEW k, Quiet(k), NEW p
  PROVE  /\ Quiet(lock_channel(k, p))
         /\ \A c \in Blocks : Occupied(lock_channel(k, p), c) \subseteq Occupied(k, c)
<1> DEFINE f == flush_channel_notes(k, p)
           a == [f.active EXCEPT ![p] = 0]
           l == f.locked \cup {p}
           m == [[f EXCEPT !.active = a] EXCEPT !.locked = l]
<1>1. Quiet(f) /\ \A c \in Blocks : Occupied(f, c) \subseteq Occupied(k, c)
  BY FlushChannelQuiet
<1>2. lock_channel(k, p) = IF p = NoChan THEN k ELSE m
  BY DEF lock_channel
<1>3. IsPerf(m) /\ m.queue = f.queue /\ m.map = f.map /\ m.sounding = f.sounding
  <2>1. IsPerf(f) /\ m = [[f EXCEPT !.active = a] EXCEPT !.locked = l]
    BY <1>1 DEF Quiet
  <2> HIDE DEF f, a, l, m
  <2> QED BY <2>1 DEF IsPerf
<1> HIDE DEF f, m
<1>4. Quiet(m)
  BY <1>1, <1>3, OtherFieldsQuiet
<1>5. \A c \in Blocks : Occupied(m, c) = Occupied(f, c)
  BY <1>3 DEF Occupied
<1> QED BY <1>1, <1>2, <1>4, <1>5

(* A note that enters a free slot, on a channel mapped to itself.          *)
LEMMA SoundedQuiet ==
  ASSUME SequencerAssumption, NEW k, Quiet(k), NEW b \in Blocks,
         NEW s \in Slots, s \notin Occupied(k, b),
         NEW c \in Chans, NEW n \in Notes, NEW d \in Durations
  PROVE  /\ Quiet(Sounded(k, b, s, c, n, d))
         /\ \A f \in Blocks : f # b =>
              Occupied(Sounded(k, b, s, c, n, d), f) = Occupied(k, f)
<1> DEFINE entry == [chan |-> c, num |-> n, time |-> d - 1]
           q == [k.queue EXCEPT ![b] = [k.queue[b] EXCEPT ![s] = entry]]
           p == k.map[b][c]
           a == [k.active EXCEPT ![p] = (k.active[p] + 1) % ActiveMod]
           o == k.sounding \cup {<<p, n>>}
           m == Sounded(k, b, s, c, n, d)
<1>1. entry \in Entry /\ entry # Free /\ entry.chan = c /\ entry.num = n
  BY DEF Entry, SequencerAssumption, Chans
<1>2. m = [[[k EXCEPT !.queue = q] EXCEPT !.active = a] EXCEPT !.sounding = o]
  BY DEF Sounded
<1>3. p = c
  BY DEF Quiet, Unmapped, Identity
<1> HIDE DEF entry, a, o, m, p
<1>4. /\ q \in [Blocks -> [Slots -> Entry \cup {Free}]]
      /\ \A f \in Blocks, t \in Slots :
           q[f][t] = IF f = b /\ t = s THEN entry ELSE k.queue[f][t]
  BY <1>1 DEF Quiet
<1> HIDE DEF q
<1>5. IsPerf(m) /\ m.queue = q /\ m.map = k.map /\ m.sounding = o
  BY <1>2 DEF Quiet, IsPerf
<1>6. Covered(m)
  <2>1. ASSUME NEW key \in o
        PROVE  \E f \in Blocks, t \in Slots :
                 q[f][t] # Free /\ q[f][t].chan = key[1] /\ q[f][t].num = key[2]
    <3>1. CASE key = <<p, n>>
      <4>1. q[b][s] = entry
        BY <1>4
      <4>2. q[b][s] # Free /\ q[b][s].chan = key[1] /\ q[b][s].num = key[2]
        BY <1>1, <1>3, <3>1, <4>1
      <4> QED BY <4>2
    <3>2. CASE key \in k.sounding
      <4>1. PICK f \in Blocks, t \in Slots : /\ k.queue[f][t] # Free
                                             /\ k.queue[f][t].chan = key[1]
                                             /\ k.queue[f][t].num = key[2]
        BY <3>2 DEF Quiet, Covered
      <4>2. ~ (f = b /\ t = s)
        BY <4>1 DEF Occupied
      <4> QED BY <1>4, <4>1, <4>2
    <3> QED BY <3>1, <3>2 DEF o
  <2> QED BY <1>5, <2>1 DEF Covered
<1>7. o \subseteq Chans \X Notes
  BY <1>3 DEF o, Quiet
<1>8. Quiet(m)
  BY <1>4, <1>5, <1>6, <1>7 DEF Quiet, Unmapped
<1>9. \A f \in Blocks : f # b => Occupied(m, f) = Occupied(k, f)
  BY <1>4, <1>5 DEF Occupied
<1> QED BY <1>8, <1>9 DEF m

(* An entry grows older by a tick.                                         *)
LEMMA OlderEntry ==
  ASSUME NEW x \in Entry
  PROVE  /\ [x EXCEPT !.time = @ - 1].chan = x.chan
         /\ [x EXCEPT !.time = @ - 1].num = x.num
         /\ x.time # 0 => [x EXCEPT !.time = @ - 1] \in Entry
BY DEF Entry

(* What a tick of b's queue makes of k: the entries due are freed, the     *)
(* others keep channel and key.                                            *)
TickOf(k, b, r, due) ==
  /\ IsPerf(r)
  /\ r.queue \in [Blocks -> [Slots -> Entry \cup {Free}]]
  /\ \A c \in Blocks, s \in Slots :
       /\ c # b => r.queue[c][s] = k.queue[c][s]
       /\ c = b /\ s \in due => r.queue[c][s] = Free
       /\ c = b /\ s \notin due =>
            /\ r.queue[c][s] = Free <=> k.queue[c][s] = Free
            /\ r.queue[c][s].chan = k.queue[c][s].chan
            /\ r.queue[c][s].num = k.queue[c][s].num
  /\ r.count = [k.count EXCEPT ![b] = (k.count[b] - Cardinality(due)) % CountMod]
  /\ r.map = k.map
  /\ r.locked = k.locked
  /\ r.sounding = k.sounding \ {<<Phys(k, b, s), k.queue[b][s].num>> : s \in due}
  /\ r.active = [p \in Chans |->
       (k.active[p] - Cardinality({d \in {b} \X due : Phys(k, b, d[2]) = p})) % ActiveMod]

LEMMA ExpiredTick ==
  ASSUME SequencerAssumption, NEW k, IsPerf(k),
         k.queue \in [Blocks -> [Slots -> Entry \cup {Free}]], NEW b \in Blocks,
         NEW r, r = Expired(k, b), NEW due, due = Due(k, b)
  PROVE  TickOf(k, b, r, due)
<1> DEFINE older(x) == IF x = Free THEN Free ELSE [x EXCEPT !.time = @ - 1]
           old == Older(k.queue[b])
           q == [k.queue EXCEPT ![b] = old]
           aged == [k EXCEPT !.queue = q]
           D == {b} \X due
           m == NoteOffs(aged, D)
           n == (k.count[b] - Cardinality(due)) % CountMod
           count == [k.count EXCEPT ![b] = n]
<1>1. \A s \in Slots : old[s] = older(k.queue[b][s])
  BY DEF Older
<1>2. aged.count = k.count
  BY DEF IsPerf
<1>3. r = [m EXCEPT !.count = [m.count EXCEPT ![b] = (m.count[b] - Cardinality(due)) % CountMod]]
  BY DEF Expired
<1>4. \A c \in Blocks, s \in Slots : <<c, s>> \in D <=> c = b /\ s \in due
  OBVIOUS
<1>5. due = {s \in Occupied(k, b) : k.queue[b][s].time = 0} /\ due \subseteq Slots
  BY DEF Due, Occupied
<1>6. \A x \in Entry : /\ x # Free /\ older(x).chan = x.chan /\ older(x).num = x.num
                       /\ x.time # 0 => older(x) \in Entry
  <2>1. Free \notin Entry
    BY DEF SequencerAssumption, Entry, Chans
  <2> QED BY <2>1, OlderEntry
<1>8. Free \notin Entry /\ older(Free) = Free
  BY DEF SequencerAssumption, Entry, Chans
<1>9. /\ \A c \in Blocks : c # b => q[c] = k.queue[c]
      /\ q[b] = old
  <2> HIDE DEF older, old
  <2> QED OBVIOUS
<1>10. IsPerf(aged) /\ aged.queue = q /\ aged.map = k.map /\ aged.locked = k.locked
       /\ aged.active = k.active /\ aged.sounding = k.sounding
  <2> HIDE DEF q
  <2> QED BY DEF IsPerf
<1> HIDE DEF older, old, q, aged, D, m
<1>11. /\ IsPerf(m) /\ m.count = aged.count
       /\ m.queue = [c \in Blocks |-> [s \in Slots |-> IF <<c, s>> \in D THEN Free ELSE aged.queue[c][s]]]
  BY <1>10, NoteOffsLeaves DEF m
<1>12. /\ m.map = aged.map /\ m.locked = aged.locked
       /\ m.active = [p \in Chans |->
            (aged.active[p] - Cardinality({d \in D : Phys(aged, d[1], d[2]) = p})) % ActiveMod]
       /\ m.sounding = aged.sounding \ {<<Phys(aged, d[1], d[2]), aged.queue[d[1]][d[2]].num>> : d \in D}
  BY <1>10, NoteOffsSounding DEF m
<1>13. r = [m EXCEPT !.count = count]
  BY <1>2, <1>3, <1>11
<1> HIDE DEF count
<1>14. /\ IsPerf(r) /\ r.queue = m.queue /\ r.count = count /\ r.map = m.map
       /\ r.locked = m.locked /\ r.active = m.active /\ r.sounding = m.sounding
  BY <1>11, <1>13 DEF IsPerf
<1>15. \A c \in Blocks, s \in Slots :
         r.queue[c][s] = IF c # b THEN k.queue[c][s]
                         ELSE IF s \in due THEN Free ELSE older(k.queue[b][s])
  <2>1. \A c \in Blocks, s \in Slots : r.queue[c][s] = IF <<c, s>> \in D THEN Free ELSE q[c][s]
    BY <1>10, <1>11, <1>14
  <2> SUFFICES ASSUME NEW c \in Blocks, NEW s \in Slots
               PROVE  r.queue[c][s] = IF c # b THEN k.queue[c][s]
                                      ELSE IF s \in due THEN Free ELSE older(k.queue[b][s])
    OBVIOUS
  <2>2. CASE c # b
    <3>1. r.queue[c][s] = q[c][s]
      BY <1>4, <2>1, <2>2
    <3> QED BY <1>9, <2>2, <3>1
  <2>3. CASE c = b /\ s \in due
    BY <1>4, <2>1, <2>3
  <2>4. CASE c = b /\ s \notin due
    <3>1. r.queue[c][s] = q[b][s]
      BY <1>4, <2>1, <2>4
    <3>2. q[b][s] = older(k.queue[b][s])
      BY <1>1, <1>9
    <3> QED BY <2>4, <3>1, <3>2
  <2> QED BY <2>2, <2>3, <2>4
<1>16. ASSUME NEW s \in Slots, s \in due
       PROVE  /\ k.queue[b][s] \in Entry
              /\ Phys(aged, b, s) = Phys(k, b, s)
              /\ aged.queue[b][s].num = k.queue[b][s].num
  <2>1. k.queue[b][s] \in Entry
    BY <1>5, <1>16 DEF Occupied
  <2>2. aged.queue[b][s] = older(k.queue[b][s])
    BY <1>1, <1>9, <1>10
  <2> QED BY <1>6, <1>10, <2>1, <2>2 DEF Phys
<1>23. \A d \in D : /\ d[1] = b /\ d[2] \in due /\ d = <<b, d[2]>>
                    /\ Phys(aged, d[1], d[2]) = Phys(k, b, d[2])
                    /\ aged.queue[d[1]][d[2]].num = k.queue[b][d[2]].num
  <2>1. \A d \in D : d[1] = b /\ d[2] \in due /\ d = <<b, d[2]>>
    BY DEF D
  <2> QED BY <1>5, <1>16, <2>1
<1>17. ASSUME NEW s \in Slots, s \notin due
       PROVE  /\ r.queue[b][s] \in Entry \cup {Free}
              /\ r.queue[b][s] = Free <=> k.queue[b][s] = Free
              /\ r.queue[b][s].chan = k.queue[b][s].chan
              /\ r.queue[b][s].num = k.queue[b][s].num
  <2>1. r.queue[b][s] = older(k.queue[b][s])
    BY <1>15, <1>17
  <2>2. CASE k.queue[b][s] = Free
    BY <1>8, <2>1, <2>2
  <2>3. CASE k.queue[b][s] # Free
    <3>1. k.queue[b][s] \in Entry /\ k.queue[b][s].time # 0
      BY <1>5, <1>17, <2>3 DEF Occupied
    <3> QED BY <1>6, <1>8, <2>1, <2>3, <3>1
  <2> QED BY <2>2, <2>3
<1>18. r.queue \in [Blocks -> [Slots -> Entry \cup {Free}]]
  <2>1. r.queue = [c \in Blocks |-> [s \in Slots |-> r.queue[c][s]]]
    BY <1>11, <1>14
  <2>2. \A c \in Blocks, s \in Slots : r.queue[c][s] \in Entry \cup {Free}
    BY <1>15, <1>17
  <2> QED BY <2>1, <2>2
<1>19. r.sounding = k.sounding \ {<<Phys(k, b, s), k.queue[b][s].num>> : s \in due}
  <2>1. {<<Phys(aged, d[1], d[2]), aged.queue[d[1]][d[2]].num>> : d \in D}
          = {<<Phys(k, b, s), k.queue[b][s].num>> : s \in due}
    <3> DEFINE X == {<<Phys(aged, d[1], d[2]), aged.queue[d[1]][d[2]].num>> : d \in D}
               Y == {<<Phys(k, b, s), k.queue[b][s].num>> : s \in due}
    <3>1. \A s \in due : <<b, s>> \in D
      BY DEF D
    <3>2. ASSUME NEW x \in X PROVE x \in Y
      <4>1. PICK d \in D : x = <<Phys(aged, d[1], d[2]), aged.queue[d[1]][d[2]].num>>
        OBVIOUS
      <4> QED BY <1>23, <4>1
    <3>3. ASSUME NEW x \in Y PROVE x \in X
      <4>1. PICK s \in due : x = <<Phys(k, b, s), k.queue[b][s].num>>
        OBVIOUS
      <4>2. <<b, s>> \in D /\ <<b, s>>[1] = b /\ <<b, s>>[2] = s
        BY <3>1
      <4>3. x = <<Phys(aged, <<b, s>>[1], <<b, s>>[2]), aged.queue[<<b, s>>[1]][<<b, s>>[2]].num>>
        BY <1>23, <4>1, <4>2
      <4> QED BY <4>2, <4>3
    <3> QED BY <3>2, <3>3
  <2> QED BY <1>10, <1>12, <1>14, <2>1
<1>20. r.active = [p \in Chans |->
         (k.active[p] - Cardinality({d \in {b} \X due : Phys(k, b, d[2]) = p})) % ActiveMod]
  <2>1. ASSUME NEW p
        PROVE  {d \in D : Phys(aged, d[1], d[2]) = p} = {d \in {b} \X due : Phys(k, b, d[2]) = p}
    BY <1>23 DEF D
  <2> DEFINE F(p) == Cardinality({d \in D : Phys(aged, d[1], d[2]) = p})
             G(p) == Cardinality({d \in {b} \X due : Phys(k, b, d[2]) = p})
  <2>2. \A p : F(p) = G(p)
    BY <2>1
  <2>3. r.active = [p \in Chans |-> (k.active[p] - F(p)) % ActiveMod]
    BY <1>10, <1>12, <1>14
  <2> HIDE DEF F, G
  <2>4. r.active = [p \in Chans |-> (k.active[p] - G(p)) % ActiveMod]
    BY <2>2, <2>3
  <2> QED BY <2>4 DEF G
<1>21. \A c \in Blocks, s \in Slots :
         /\ c # b => r.queue[c][s] = k.queue[c][s]
         /\ c = b /\ s \in due => r.queue[c][s] = Free
         /\ c = b /\ s \notin due =>
              /\ r.queue[c][s] = Free <=> k.queue[c][s] = Free
              /\ r.queue[c][s].chan = k.queue[c][s].chan
              /\ r.queue[c][s].num = k.queue[c][s].num
  BY <1>15, <1>17
<1>22. r.map = k.map /\ r.locked = k.locked
  BY <1>10, <1>12, <1>14
<1> QED BY <1>14, <1>18, <1>19, <1>20, <1>21, <1>22 DEF TickOf, count, n

(* A tick of a queue turns off the notes due and ages the others.          *)
LEMMA ExpiredQuiet ==
  ASSUME SequencerAssumption, NEW k, Quiet(k), NEW b \in Blocks
  PROVE  /\ Quiet(Expired(k, b))
         /\ \A c \in Blocks : c # b => Occupied(Expired(k, b), c) = Occupied(k, c)
<1> DEFINE r == Expired(k, b)
           due == Due(k, b)
<1>1. TickOf(k, b, r, due)
  <2>1. /\ IsPerf(k) /\ k.queue \in [Blocks -> [Slots -> Entry \cup {Free}]]
        /\ r = Expired(k, b) /\ due = Due(k, b)
    BY DEF Quiet
  <2> HIDE DEF r, due
  <2> QED BY <2>1, ExpiredTick
<1> HIDE DEF r, due
<1>2. ASSUME NEW key \in r.sounding
      PROVE  \E c \in Blocks, s \in Slots : /\ r.queue[c][s] # Free
                                            /\ r.queue[c][s].chan = key[1]
                                            /\ r.queue[c][s].num = key[2]
  <2>1. key \in k.sounding /\ key \in Chans \X Notes
    BY <1>1 DEF Quiet, TickOf
  <2>2. PICK c \in Blocks, s \in Slots :
          k.queue[c][s] # Free /\ k.queue[c][s].chan = key[1] /\ k.queue[c][s].num = key[2]
    BY <2>1 DEF Quiet, Covered
  <2>3. ~ (c = b /\ s \in due)
    <3> SUFFICES ASSUME c = b, s \in due PROVE FALSE
      OBVIOUS
    <3>1. k.queue[b][s] \in Entry
      BY <2>2 DEF Quiet
    <3>2. Phys(k, b, s) = key[1]
      BY <2>2, <3>1 DEF Phys, Quiet, Unmapped, Identity, Entry
    <3>3. <<Phys(k, b, s), k.queue[b][s].num>> \notin r.sounding
      BY <1>1 DEF TickOf
    <3> QED BY <2>1, <2>2, <3>2, <3>3
  <2> QED BY <1>1, <2>2, <2>3 DEF TickOf
<1>3. Quiet(r)
  BY <1>1, <1>2 DEF Quiet, Covered, Unmapped, TickOf
<1>4. \A c \in Blocks : c # b => Occupied(r, c) = Occupied(k, c)
  BY <1>1 DEF Occupied, TickOf
<1> QED BY <1>3, <1>4 DEF r

LEMMA ControlQuiet ==
  ASSUME PlainSongs, Quiet(perf), NEW b \in Blocks, XMIDI_control(b)
  PROVE  Quiet(perf') /\ \A c \in Blocks : Occupied(perf', c) \subseteq Occupied(perf, c)
<1>1. ASSUME NEW c \in Chans, CHAN_LOCK_on(b, c) PROVE FALSE
  BY <1>1 DEF CHAN_LOCK_on, LockKind, PlainSongs
<1>2. ASSUME NEW c \in Chans, CHAN_LOCK_off(b, c)
      PROVE  Quiet(perf') /\ \A d \in Blocks : Occupied(perf', d) \subseteq Occupied(perf, d)
  <2> DEFINE f == flush_channel_notes(perf, c)
             r == release_channels(f, {perf.map[b][c]})
             map == [r.map EXCEPT ![b] = [r.map[b] EXCEPT ![c] = c]]
  <2>1. Quiet(f) /\ \A d \in Blocks : Occupied(f, d) \subseteq Occupied(perf, d)
    BY FlushChannelQuiet
  <2>2. Quiet(r) /\ r.queue = f.queue
    <3> HIDE DEF f
    <3> QED BY <2>1, ReleaseQuiet
  <2>3. perf' = [r EXCEPT !.map = map]
    BY <1>2 DEF CHAN_LOCK_off
  <2> HIDE DEF f, r
  <2>4. map = r.map
    <3>1. r.map = [d \in Blocks |-> Identity]
      BY <2>2 DEF Quiet, Unmapped
    <3>2. [Identity EXCEPT ![c] = c] = Identity
      BY DEF Identity
    <3>3. [r.map[b] EXCEPT ![c] = c] = r.map[b]
      BY <3>1, <3>2
    <3> QED BY <3>1, <3>3
  <2> HIDE DEF map
  <2>5. IsPerf(r)
    BY <2>2 DEF Quiet
  <2>6. IsPerf(perf') /\ perf'.queue = r.queue /\ perf'.map = r.map /\ perf'.sounding = r.sounding
    BY <2>3, <2>4, <2>5 DEF IsPerf
  <2>7. Quiet(perf')
    BY <2>2, <2>6, OtherFieldsQuiet
  <2>8. \A d \in Blocks : Occupied(perf', d) = Occupied(f, d)
    BY <2>2, <2>6 DEF Occupied
  <2> QED BY <2>1, <2>7, <2>8
<1>3. ASSUME NEW c \in Chans, CHAN_PROTECT(c)
      PROVE  Quiet(perf') /\ \A d \in Blocks : Occupied(perf', d) \subseteq Occupied(perf, d)
  <2>1. PICK x : perf' = [perf EXCEPT !.protected = x]
    BY <1>3 DEF CHAN_PROTECT
  <2>2. IsPerf(perf') /\ perf'.queue = perf.queue /\ perf'.map = perf.map
        /\ perf'.sounding = perf.sounding
    BY <2>1 DEF Quiet, IsPerf
  <2>3. Quiet(perf')
    BY <2>2, OtherFieldsQuiet
  <2> QED BY <2>2, <2>3 DEF Occupied
<1> QED BY <1>1, <1>2, <1>3 DEF XMIDI_control

LEMMA QuietAppCall ==
  ASSUME SequencerAssumption, PlainSongs, RegistryInv, Quiet(perf), StoppedEmpty, AppCall
  PROVE  Quiet(perf') /\ StoppedEmpty'
<1> DEFINE Shrinks == \A c \in Blocks : Occupied(perf', c) \subseteq Occupied(perf, c)
<1>0. Registered \subseteq Blocks /\ status \in [Blocks -> {"stopped", "playing", "done"}]
  BY DEF Registered, RegistryInv, RegistryTypes
<1>1. CASE register_seq
  <2>1. PICK b \in Blocks \ Registered :
          perf' = rewind_seq(perf, b) /\ status' = [status EXCEPT ![b] = "stopped"]
    BY <1>1 DEF register_seq
  <2>2. Occupied(perf, b) = {}
    BY <2>1 DEF RegistryInv, PlayingRegistered, StoppedEmpty
  <2>3. Quiet(perf') /\ \A c \in Blocks : Occupied(perf', c) = Occupied(perf, c)
    BY <2>1, <2>2, RewindQuiet
  <2> QED BY <1>0, <2>1, <2>2, <2>3 DEF StoppedEmpty
<1>2. CASE start_seq
  <2>1. PICK b \in Blocks :
          /\ perf' = rewind_seq(IF status[b] = "playing" THEN Stopped(perf, b) ELSE perf, b)
          /\ status' = [status EXCEPT ![b] = "playing"]
    BY <1>0, <1>2 DEF start_seq
  <2>2. PICK k : /\ k = IF status[b] = "playing" THEN Stopped(perf, b) ELSE perf
                 /\ perf' = rewind_seq(k, b)
    BY <2>1
  <2>3. Quiet(k) /\ Occupied(k, b) = {} /\ \A c \in Blocks : Occupied(k, c) \subseteq Occupied(perf, c)
    <3>1. CASE status[b] = "playing"
      <4>1. /\ Quiet(Stopped(perf, b)) /\ Occupied(Stopped(perf, b), b) = {}
            /\ \A c \in Blocks : Occupied(Stopped(perf, b), c) \subseteq Occupied(perf, c)
        BY StoppedQuiet
      <4>2. k = Stopped(perf, b)
        BY <2>2, <3>1
      <4> QED BY <4>1, <4>2
    <3>2. CASE status[b] # "playing"
      BY <2>2, <3>2 DEF StoppedEmpty
    <3> QED BY <3>1, <3>2
  <2>4. Quiet(perf') /\ \A c \in Blocks : Occupied(perf', c) = Occupied(k, c)
    BY <2>2, <2>3, RewindQuiet
  <2> QED BY <1>0, <2>1, <2>3, <2>4 DEF StoppedEmpty
<1>3. CASE stop_seq
  <2>1. PICK b \in Blocks : /\ perf' = Stopped(perf, b)
                            /\ status' = [status EXCEPT ![b] = "stopped"]
    BY <1>0, <1>3 DEF stop_seq
  <2>2. Quiet(perf') /\ Occupied(perf', b) = {} /\ Shrinks
    BY <2>1, StoppedQuiet
  <2> QED BY <1>0, <2>1, <2>2 DEF StoppedEmpty
<1>4. CASE resume_seq
  <2>1. PICK b \in Blocks : perf' = perf /\ status' = [status EXCEPT ![b] = "playing"]
    BY <1>0, <1>4 DEF resume_seq
  <2> QED BY <1>0, <2>1 DEF StoppedEmpty
<1>5. CASE UNCHANGED status /\ Quiet(perf') /\ Shrinks
  BY <1>5 DEF StoppedEmpty
<1>6. CASE release_seq
  BY <1>6 DEF release_seq, StoppedEmpty
<1>7. CASE branch_index
  <2>1. PICK b \in Blocks : perf' = flush_note_queue(perf, b)
    BY <1>0, <1>7 DEF branch_index
  <2>2. Quiet(perf') /\ Shrinks
    BY <2>1, FlushQueueQuiet
  <2> QED BY <1>5, <1>7, <2>2 DEF branch_index, life
<1>8. CASE map_seq_channel
  BY <1>8 DEF map_seq_channel, CanCall, PlainSongs
<1>9. CASE app_lock_channel
  <2>1. PICK p : perf' = lock_channel(perf, p)
    BY <1>9 DEF app_lock_channel
  <2>2. Quiet(perf') /\ Shrinks
    BY <2>1, LockChannelQuiet
  <2> QED BY <1>5, <1>9, <2>2 DEF app_lock_channel, life
<1>10. CASE app_release_channel
  <2>1. PICK p \in Chans : perf' = release_channels(perf, {p})
    BY <1>10 DEF app_release_channel
  <2>2. Quiet(perf') /\ perf'.queue = perf.queue
    BY <2>1, ReleaseQuiet
  <2>3. Shrinks
    BY <2>2 DEF Occupied
  <2> QED BY <1>5, <1>10, <2>2, <2>3 DEF app_release_channel, life
<1>11. CASE set_control_val
  <2>1. PICK b \in Blocks : XMIDI_control(b)
    BY <1>0, <1>11 DEF set_control_val
  <2>2. Quiet(perf') /\ Shrinks
    BY <2>1, ControlQuiet
  <2> QED BY <1>5, <1>11, <2>2 DEF set_control_val, life
<1> QED BY <1>1, <1>2, <1>3, <1>4, <1>6, <1>7, <1>8, <1>9, <1>10, <1>11 DEF AppCall

LEMMA QuietService ==
  ASSUME SequencerAssumption, PlainSongs, RegistryInv, Quiet(perf), StoppedEmpty, Service
  PROVE  Quiet(perf') /\ StoppedEmpty'
<1>1. CASE serve \/ pass_sequence \/ delay \/ callback_trigger \/ return_callback
  BY <1>1 DEF serve, pass_sequence, delay, callback_trigger, return_callback, life, StoppedEmpty
<1>2. CASE process_tick
  <2> DEFINE b == sequence_states[seq]
  <2>1. b \in Blocks /\ status[b] = "playing" /\ UNCHANGED status
    BY <1>2 DEF process_tick, Ready, RegistryInv, RegistryTypes, life
  <2>2. perf' = perf \/ perf' = Expired(perf, b)
    BY <1>2 DEF process_tick
  <2> HIDE DEF b
  <2>3. CASE perf' = perf
    BY <2>1, <2>3 DEF StoppedEmpty
  <2>4. CASE perf' = Expired(perf, b)
    <3>1. Quiet(perf') /\ \A c \in Blocks : c # b => Occupied(perf', c) = Occupied(perf, c)
      BY <2>1, <2>4, ExpiredQuiet
    <3> QED BY <2>1, <3>1 DEF StoppedEmpty
  <2> QED BY <2>2, <2>3, <2>4
<1>3. CASE note_on
  <2>1. /\ st \in Blocks /\ UNCHANGED status
        /\ status[st] = "playing"
    BY <1>3 DEF note_on, InLoop, RegistryInv, RegistryTypes, EventPlays, life
  <2>2. PICK c \in Chans, n \in Notes, d \in Durations :
          /\ FreeSlots(perf, st) # {}
          /\ perf' = [Sounded(perf, st, Lowest(FreeSlots(perf, st)), c, n, d)
                        EXCEPT !.count[st] = (@ + 1) % CountMod]
    BY <1>3 DEF note_on
  <2> DEFINE s == Lowest(FreeSlots(perf, st))
             m == Sounded(perf, st, s, c, n, d)
             count == [m.count EXCEPT ![st] = (m.count[st] + 1) % CountMod]
  <2>3. s \in Slots /\ s \notin Occupied(perf, st)
    <3>1. FreeSlots(perf, st) \subseteq Nat
      BY DEF FreeSlots, Slots
    <3>2. s \in FreeSlots(perf, st)
      BY <2>2, <3>1, LowestMember
    <3> HIDE DEF s
    <3> QED BY <3>2 DEF FreeSlots
  <2>4. perf' = [m EXCEPT !.count = count]
    BY <2>2
  <2> HIDE DEF s
  <2>5. Quiet(m) /\ \A f \in Blocks : f # st => Occupied(m, f) = Occupied(perf, f)
    BY <2>1, <2>3, SoundedQuiet
  <2> HIDE DEF m, count
  <2>6. Quiet(perf')
    BY <2>4, <2>5, CountQuiet
  <2>7. perf'.queue = m.queue
    BY <2>4, <2>5 DEF Quiet, IsPerf
  <2>8. \A f \in Blocks : f # st => Occupied(perf', f) = Occupied(perf, f)
    BY <2>5, <2>7 DEF Occupied
  <2> QED BY <2>1, <2>6, <2>8 DEF StoppedEmpty
<1>4. CASE note_on_overflow \/ end_of_track
  BY <1>4 DEF note_on_overflow, end_of_track, PlainSongs
<1>5. CASE note_off
  <2>1. PICK D : perf' = [NoteOffs(perf, D) EXCEPT !.count[st] = (@ - 1) % CountMod]
    BY <1>5 DEF note_off
  <2> DEFINE m == NoteOffs(perf, D)
             count == [m.count EXCEPT ![st] = (m.count[st] - 1) % CountMod]
  <2>2. perf' = [m EXCEPT !.count = count]
    BY <2>1
  <2>3. Quiet(m) /\ \A c \in Blocks : Occupied(m, c) \subseteq Occupied(perf, c)
    <3>1. Quiet(m) /\ IsPerf(perf)
      BY NoteOffsQuiet DEF Quiet
    <3>2. \A c \in Blocks : Occupied(m, c) = {s \in Occupied(perf, c) : <<c, s>> \notin D}
      BY <3>1, NoteOffsOccupied
    <3> QED BY <3>1, <3>2
  <2> HIDE DEF m, count
  <2>4. Quiet(perf')
    BY <2>2, <2>3, CountQuiet
  <2>5. perf'.queue = m.queue
    BY <2>2, <2>3 DEF Quiet, IsPerf
  <2>6. \A c \in Blocks : Occupied(perf', c) \subseteq Occupied(perf, c)
    BY <2>3, <2>5 DEF Occupied
  <2> QED BY <1>5, <2>4, <2>6 DEF StoppedEmpty, note_off, InLoop, life
<1>6. CASE control
  <2>1. st \in Blocks /\ XMIDI_control(st) /\ UNCHANGED status
    BY <1>6 DEF control, InLoop, RegistryInv, RegistryTypes, life
  <2>2. Quiet(perf') /\ \A c \in Blocks : Occupied(perf', c) \subseteq Occupied(perf, c)
    BY <2>1, ControlQuiet
  <2> QED BY <2>1, <2>2 DEF StoppedEmpty
<1> QED BY <1>1, <1>2, <1>3, <1>4, <1>5, <1>6 DEF Service, Event

LEMMA QuietInit == ASSUME SequencerAssumption, Init PROVE Quiet(perf) /\ StoppedEmpty
<1> DEFINE free == [s \in Slots |-> Free]
<1>1. perf = [queue |-> [b \in Blocks |-> free], count |-> [b \in Blocks |-> 0],
              map |-> [b \in Blocks |-> Identity], active |-> [p \in Chans |-> 0],
              locked |-> {}, protected |-> {}, sounding |-> {}]
  BY DEF Init
<1>2. free \in [Slots -> Entry \cup {Free}] /\ \A s \in Slots : free[s] = Free
  OBVIOUS
<1> HIDE DEF free
<1>3. /\ IsPerf(perf) /\ perf.queue = [b \in Blocks |-> free]
      /\ perf.map = [b \in Blocks |-> Identity] /\ perf.sounding = {}
  BY <1>1 DEF IsPerf
<1>4. Quiet(perf)
  BY <1>2, <1>3 DEF Quiet, Unmapped, Covered
<1>5. StoppedEmpty
  BY <1>2, <1>3 DEF StoppedEmpty, Occupied
<1> QED BY <1>4, <1>5

(* Through stops, restarts, branches, releases, ticks and calls out of     *)
(* callbacks, of any number of sequences at once, every note that sounds   *)
(* is queued in a sequence that plays and will turn it off, unless a queue *)
(* overflows, a song locks a channel or ends, or the application maps one. *)
THEOREM NoStuckNoteAlways == PlainSongs /\ Spec => []NoStuckNote
<1> DEFINE OK == Quiet(perf) /\ StoppedEmpty
<1>1. Init => OK
  BY QuietInit, SequencerAssumption
<1>2. PlainSongs /\ RegistryInv /\ OK /\ [Next]_vars => OK'
  <2>1. CASE UNCHANGED vars
    BY <2>1 DEF vars, life, StoppedEmpty
  <2>2. ASSUME PlainSongs, RegistryInv, OK, Next PROVE OK'
    BY <2>2, QuietAppCall, QuietService, SequencerAssumption DEF Next
  <2> QED BY <2>1, <2>2
<1>3. OK => NoStuckNote
  <2> SUFFICES ASSUME Quiet(perf), StoppedEmpty, NEW key \in perf.sounding
               PROVE  \E b \in Blocks : \E s \in Occupied(perf, b) :
                        /\ status[b] = "playing"
                        /\ Phys(perf, b, s) = key[1]
                        /\ perf.queue[b][s].num = key[2]
    BY DEF NoStuckNote
  <2>1. PICK b \in Blocks, s \in Slots :
          /\ perf.queue[b][s] # Free
          /\ perf.queue[b][s].chan = key[1] /\ perf.queue[b][s].num = key[2]
    BY DEF Quiet, Covered
  <2>2. s \in Occupied(perf, b) /\ status[b] = "playing"
    BY <2>1 DEF Occupied, StoppedEmpty
  <2>3. perf.queue[b][s].chan \in Chans
    BY <2>1 DEF Quiet, Entry
  <2>4. Phys(perf, b, s) = key[1]
    BY <2>1, <2>3 DEF Phys, Quiet, Unmapped, Identity
  <2> QED BY <2>1, <2>2, <2>4
<1>4. PlainSongs => []PlainSongs
  <2>1. PlainSongs => PlainSongs'
    BY DEF PlainSongs
  <2> QED BY <2>1, PTL
<1> HIDE DEF OK
<1> QED BY <1>1, <1>2, <1>3, <1>4, RegistryAlways, PTL DEF Spec

----------------------------------------------------------------------------
(* Counts that are exact.  Flushing a channel sets note_count to 0 for     *)
(* every sequence, whatever its other channels still play, which is why    *)
(* the hypotheses leave one block, and no lock but those that find nothing *)
(* queued.                                                                 *)

(* One sequence; its songs neither overflow the queue, lock nor unlock     *)
(* channels, nor reach their end; the application maps and locks none.     *)
SteadySong ==
  /\ \E b \in Blocks : Blocks = {b}
  /\ Events \cap {"overflow", "lock", "relock", "stray_unlock", "end"} = {}
  /\ Calls \cap {"map", "lock_channel"} = {}

(* Remainders. *)
LEMMA DivModInt ==
  ASSUME NEW M \in Nat \ {0}, NEW x \in Int
  PROVE  /\ x \div M \in Int /\ x % M \in 0 .. M - 1
         /\ x = M * (x \div M) + (x % M)
  OBVIOUS

LEMMA Multiple ==
  ASSUME NEW M \in Nat \ {0}, NEW q \in Int, M * q < M, -M < M * q
  PROVE  q = 0
<1>1. CASE q >= 1
  <2>1. M * q >= M
    BY <1>1
  <2> QED BY <2>1
<1>2. CASE q <= -1
  <2>1. M * q <= -M
    BY <1>2
  <2> QED BY <2>1
<1> QED BY <1>1, <1>2

LEMMA ModUnique ==
  ASSUME NEW M \in Nat \ {0}, NEW q \in Int, NEW r \in Int, NEW s \in Int,
         r \in 0 .. M - 1, s \in 0 .. M - 1, r = M * q + s
  PROVE  r = s
<1> DEFINE n == M * q
<1>1. n \in Int
  OBVIOUS
<1>2. r = n + s
  OBVIOUS
<1>3. q = 0
  <2> HIDE DEF n
  <2>1. n < M /\ -M < n
    BY <1>1, <1>2
  <2> QED BY <2>1, Multiple DEF n
<1> QED BY <1>3

LEMMA ModShift ==
  ASSUME NEW M \in Nat \ {0}, NEW x \in Int, NEW e \in Int
  PROVE  ((x % M) + e) % M = (x + e) % M
<1> DEFINE y == (x % M) + e
           z == x + e
           a == x \div M
           b == y \div M
           c == z \div M
<1>1. x % M \in Int
  BY DivModInt
<1>2. y \in Int /\ z \in Int
  BY <1>1
<1>3. a \in Int /\ b \in Int /\ c \in Int
  BY <1>2, DivModInt
<1>4. x = M * a + (x % M)
  BY DivModInt
<1>5. y = M * b + (y % M) /\ y % M \in 0 .. M - 1
  <2> HIDE DEF y
  <2> QED BY <1>2, DivModInt
<1>6. z = M * c + (z % M) /\ z % M \in 0 .. M - 1
  <2> HIDE DEF z
  <2> QED BY <1>2, DivModInt
<1>7. z = M * a + y
  BY <1>1, <1>4, <1>3
<1> HIDE DEF y, z, a, b, c
<1>8. y % M = M * (c - a - b) + (z % M)
  <2>1. M * (c - a - b) = M * c - M * a - M * b
    BY <1>3
  <2> DEFINE ma == M * a
             mb == M * b
             mc == M * c
  <2>2. ma \in Int /\ mb \in Int /\ mc \in Int
    BY <1>3
  <2>3. M * (c - a - b) = mc - ma - mb /\ z = ma + y /\ z = mc + (z % M) /\ y = mb + (y % M)
    BY <2>1, <1>5, <1>6, <1>7
  <2> HIDE DEF ma, mb, mc
  <2> QED BY <1>5, <1>6, <2>2, <2>3
<1>9. y % M = z % M
  <2>1. c - a - b \in Int
    BY <1>3
  <2> DEFINE q == c - a - b
             r == y % M
             s == z % M
  <2>2. q \in Int /\ r \in Int /\ s \in Int /\ r \in 0 .. M - 1 /\ s \in 0 .. M - 1 /\ r = M * q + s
    BY <1>5, <1>6, <1>8, <2>1
  <2> HIDE DEF q, r, s
  <2>3. r = s
    BY <2>2, ModUnique
  <2> QED BY <2>3 DEF r, s
<1> QED BY <1>9 DEF y, z
(* The entries that sound on channel p, and the counts of k.               *)
Held(k, p) ==
  {d \in Blocks \X Slots : k.queue[d[1]][d[2]] # Free /\ Phys(k, d[1], d[2]) = p}

Exact(k) ==
  /\ k.locked = {}
  /\ k.count \in [Blocks -> Int]
  /\ \A b \in Blocks : k.count[b] = Cardinality(Occupied(k, b))
  /\ k.active \in [Chans -> Int]
  /\ \A p \in Chans : k.active[p] = Cardinality(Held(k, p)) % ActiveMod

LEMMA HeldFinite ==
  ASSUME SequencerAssumption, SteadySong, NEW k, NEW p
  PROVE  IsFiniteSet(Held(k, p)) /\ Cardinality(Held(k, p)) \in Nat
<1>1. IsFiniteSet(Blocks)
  <2>1. PICK b : Blocks = {b}
    BY DEF SteadySong
  <2> QED BY <2>1, FS_Singleton
<1>2. IsFiniteSet(Slots)
  BY FS_Interval DEF Slots, SequencerAssumption
<1>3. IsFiniteSet(Blocks \X Slots)
  BY <1>1, <1>2, FS_Product
<1>4. Held(k, p) \in SUBSET (Blocks \X Slots)
  BY DEF Held
<1>5. IsFiniteSet(Held(k, p))
  BY <1>3, <1>4, FS_Subset
<1> QED BY <1>5, FS_CardinalityType

(* A channel that loses r of its h notes. *)
LEMMA LoseSome ==
  ASSUME SequencerAssumption, NEW H, IsFiniteSet(H), NEW R, R \subseteq H,
         NEW a, a = Cardinality(H) % ActiveMod
  PROVE  (a - Cardinality(R)) % ActiveMod = Cardinality(H \ R) % ActiveMod
<1> DEFINE h == Cardinality(H)
           r == Cardinality(R)
<1>1. IsFiniteSet(R) /\ H \cap R = R
  BY FS_Subset
<1>2. h \in Nat /\ r \in Nat /\ Cardinality(H \ R) = h - r
  <2>1. Cardinality(H \ R) = Cardinality(H) - Cardinality(H \cap R)
    BY FS_Difference
  <2> QED BY <1>1, <2>1, FS_CardinalityType
<1>3. a = h % ActiveMod /\ ActiveMod \in Nat \ {0}
  BY DEF SequencerAssumption
<1> HIDE DEF h, r
<1>4. ((h % ActiveMod) + (-r)) % ActiveMod = (h + (-r)) % ActiveMod
  <2>1. h \in Int /\ -r \in Int
    BY <1>2
  <2> QED BY <1>3, <2>1, ModShift
<1>5. (h % ActiveMod) \in Int
  BY <1>2, <1>3, DivModInt
<1>6. (h % ActiveMod) - r = (h % ActiveMod) + (-r) /\ h - r = h + (-r)
  BY <1>2, <1>5
<1>7. (a - r) % ActiveMod = (h - r) % ActiveMod
  BY <1>3, <1>4, <1>6
<1> QED BY <1>2, <1>7 DEF r

(* Only the fields the counts are about matter. *)
LEMMA SameExact ==
  ASSUME NEW k, Exact(k), NEW m, m.queue = k.queue, m.map = k.map,
         m.locked = k.locked, m.count = k.count, m.active = k.active
  PROVE  Exact(m)
<1>1. \A b \in Blocks : Occupied(m, b) = Occupied(k, b)
  BY DEF Occupied
<1>2. \A p : Held(m, p) = Held(k, p)
  BY DEF Held, Phys
<1> QED BY <1>1, <1>2 DEF Exact

(* What NoteOffs for queued entries D leaves on each channel. *)
LEMMA NoteOffsActive ==
  ASSUME SequencerAssumption, SteadySong, NEW k, Quiet(k), Exact(k),
         NEW D, \A d \in D : /\ d \in Blocks \X Slots
                             /\ k.queue[d[1]][d[2]] # Free
  PROVE  /\ NoteOffs(k, D).active \in [Chans -> Int]
         /\ \A p \in Chans :
              NoteOffs(k, D).active[p] = Cardinality(Held(NoteOffs(k, D), p)) % ActiveMod
<1> DEFINE m == NoteOffs(k, D)
           Lost(p) == {d \in D : Phys(k, d[1], d[2]) = p}
<1>0. IsPerf(k)
  BY DEF Quiet
<1>1. /\ m.map = k.map
      /\ m.active = [p \in Chans |-> (k.active[p] - Cardinality(Lost(p))) % ActiveMod]
  BY <1>0, NoteOffsSounding
<1>2. m.queue = [b \in Blocks |-> [s \in Slots |-> IF <<b, s>> \in D THEN Free ELSE k.queue[b][s]]]
  BY <1>0, NoteOffsLeaves
<1>3. \A b \in Blocks, s \in Slots : m.queue[b][s] = IF <<b, s>> \in D THEN Free ELSE k.queue[b][s]
  BY <1>2
<1> HIDE DEF m
<1>4. ASSUME NEW p \in Chans
      PROVE  Held(m, p) = Held(k, p) \ Lost(p) /\ Lost(p) \subseteq Held(k, p)
  <2>1. Lost(p) \subseteq Held(k, p)
    BY DEF Held
  <2>2. ASSUME NEW d \in Blocks \X Slots
        PROVE  d \in Held(m, p) <=> d \in Held(k, p) /\ d \notin Lost(p)
    <3>1. d = <<d[1], d[2]>> /\ d[1] \in Blocks /\ d[2] \in Slots
      OBVIOUS
    <3>2. m.queue[d[1]][d[2]] = IF d \in D THEN Free ELSE k.queue[d[1]][d[2]]
      BY <1>3, <3>1
    <3>3. d \notin D => Phys(m, d[1], d[2]) = Phys(k, d[1], d[2])
      BY <1>1, <3>2 DEF Phys
    <3> QED BY <3>2, <3>3 DEF Held
  <2>3. Held(m, p) \subseteq Blocks \X Slots /\ Held(k, p) \subseteq Blocks \X Slots
    BY DEF Held
  <2> HIDE DEF Lost
  <2> QED BY <2>1, <2>2, <2>3
<1>5. ASSUME NEW p \in Chans
      PROVE  m.active[p] = Cardinality(Held(m, p)) % ActiveMod
  <2>1. m.active[p] = (k.active[p] - Cardinality(Lost(p))) % ActiveMod
    BY <1>1
  <2>2. IsFiniteSet(Held(k, p)) /\ k.active[p] = Cardinality(Held(k, p)) % ActiveMod
    BY HeldFinite DEF Exact
  <2> HIDE DEF Lost
  <2>3. (k.active[p] - Cardinality(Lost(p))) % ActiveMod
          = Cardinality(Held(k, p) \ Lost(p)) % ActiveMod
    BY <1>4, <2>2, LoseSome
  <2> QED BY <1>4, <2>1, <2>3
<1>6. m.active \in [Chans -> Int]
  <2>1. ASSUME NEW p \in Chans PROVE m.active[p] \in Int
    <3>1. Cardinality(Held(m, p)) \in Nat /\ ActiveMod \in Nat \ {0}
      BY HeldFinite DEF SequencerAssumption
    <3>2. (Cardinality(Held(m, p)) % ActiveMod) \in Int
      BY <3>1, DivModInt
    <3> QED BY <1>5, <3>2
  <2>2. m.active = [p \in Chans |-> m.active[p]]
    BY <1>1
  <2> QED BY <2>1, <2>2
<1> QED BY <1>5, <1>6 DEF m

(* Note-offs and a count that follows the queue. *)
LEMMA NoteOffsExact ==
  ASSUME SequencerAssumption, SteadySong, NEW k, Quiet(k), Exact(k),
         NEW D, \A d \in D : /\ d \in Blocks \X Slots
                             /\ k.queue[d[1]][d[2]] # Free,
         NEW x \in [Blocks -> Int],
         \A b \in Blocks : x[b] = Cardinality(Occupied(NoteOffs(k, D), b)),
         NEW r, r = [NoteOffs(k, D) EXCEPT !.count = x]
  PROVE  Exact(r)
<1> DEFINE m == NoteOffs(k, D)
<1>1. IsPerf(k)
  BY DEF Quiet
<1>2. IsPerf(m) /\ m.locked = k.locked
  BY <1>1, NoteOffsLeaves, NoteOffsSounding
<1>3. /\ m.active \in [Chans -> Int]
      /\ \A p \in Chans : m.active[p] = Cardinality(Held(m, p)) % ActiveMod
  BY NoteOffsActive
<1>4. r = [m EXCEPT !.count = x]
  OBVIOUS
<1>5. \A b \in Blocks : x[b] = Cardinality(Occupied(m, b))
  OBVIOUS
<1> HIDE DEF m
<1>6. r.queue = m.queue /\ r.map = m.map /\ r.locked = m.locked /\ r.active = m.active /\ r.count = x
  BY <1>2, <1>4 DEF IsPerf
<1>7. \A b \in Blocks : Occupied(r, b) = Occupied(m, b)
  BY <1>6 DEF Occupied
<1>8. \A p : Held(r, p) = Held(m, p)
  BY <1>6 DEF Held, Phys
<1> QED BY <1>2, <1>3, <1>5, <1>6, <1>7, <1>8 DEF Exact

LEMMA FlushQueueExact ==
  ASSUME SequencerAssumption, SteadySong, NEW k, Quiet(k), Exact(k), NEW b \in Blocks
  PROVE  Exact(flush_note_queue(k, b)) /\ flush_note_queue(k, b).count[b] = 0
<1> DEFINE D == {b} \X Occupied(k, b)
           m == NoteOffs(k, D)
           x == [m.count EXCEPT ![b] = 0]
           r == flush_note_queue(k, b)
<1>1. IsPerf(m) /\ m.count = k.count
  BY NoteOffsLeaves DEF Quiet
<1>2. x \in [Blocks -> Int] /\ x[b] = 0
  <2>1. m.count \in [Blocks -> Int]
    BY <1>1 DEF Exact
  <2> HIDE DEF m
  <2> QED BY <2>1
<1>3. Blocks = {b}
  BY DEF SteadySong
<1>4. Occupied(m, b) = {}
  <2>1. Occupied(m, b) = {s \in Occupied(k, b) : <<b, s>> \notin D}
    BY NoteOffsOccupied DEF Quiet
  <2> QED BY <2>1
<1>5. \A c \in Blocks : x[c] = Cardinality(Occupied(m, c))
  <2> HIDE DEF x, m
  <2> QED BY <1>2, <1>3, <1>4, FS_EmptySet
<1>6. \A d \in D : /\ d \in Blocks \X Slots
                   /\ k.queue[d[1]][d[2]] # Free
  BY DEF Occupied
<1>7. r = [NoteOffs(k, D) EXCEPT !.count = x]
  BY DEF flush_note_queue
<1>8. r.count = x
  <2> HIDE DEF x, D, r
  <2> QED BY <1>1, <1>7 DEF IsPerf, m
<1>9. Exact(r)
  <2> HIDE DEF x, D, r
  <2> QED BY <1>2, <1>5, <1>6, <1>7, NoteOffsExact DEF m
<1> HIDE DEF r, x
<1>10. r.count[b] = 0
  BY <1>2, <1>8
<1> QED BY <1>9, <1>10 DEF r

LEMMA ReleaseExact ==
  ASSUME NEW k, Quiet(k), Exact(k), NEW R
  PROVE  /\ Exact(release_channels(k, R))
         /\ release_channels(k, R).count = k.count
<1> DEFINE L == R \cap k.locked
           a == [p \in Chans |-> IF p \in L THEN 0 ELSE k.active[p]]
           m == release_channels(k, R)
<1>1. m = [[[k EXCEPT !.locked = k.locked \ L] EXCEPT !.active = a]
             EXCEPT !.sounding = k.sounding \ (L \X Notes)]
  BY DEF release_channels
<1>2. L = {} /\ k.locked \ L = k.locked
  BY DEF Exact
<1>3. a = k.active
  BY <1>2 DEF Exact
<1> HIDE DEF L, a, m
<1>4. /\ m.queue = k.queue /\ m.map = k.map /\ m.count = k.count
      /\ m.locked = k.locked /\ m.active = k.active
  BY <1>1, <1>2, <1>3 DEF Quiet, IsPerf
<1> QED BY <1>4, SameExact DEF m

(* With nothing counted, the flush of a channel finds nothing. *)
LEMMA FlushChannelNothing ==
  ASSUME SequencerAssumption, SteadySong, NEW k, Quiet(k), Exact(k),
         \A b \in Blocks : k.count[b] = 0, Registered \subseteq Blocks, NEW p
  PROVE  Exact(flush_channel_notes(k, p))
<1> DEFINE B == {b \in Registered : k.count[b] # 0}
           D == {d \in B \X Slots : /\ k.queue[d[1]][d[2]] # Free
                                    /\ k.queue[d[1]][d[2]].chan = p}
           m == NoteOffs(k, D)
           x == [b \in Blocks |-> IF b \in B THEN 0 ELSE m.count[b]]
           r == flush_channel_notes(k, p)
<1>1. B = {}
  OBVIOUS
<1>2. D = {}
  BY <1>1
<1>3. IsPerf(m) /\ m.count = k.count
  BY NoteOffsLeaves DEF Quiet
<1>4. r = [NoteOffs(k, D) EXCEPT !.count = x]
  BY DEF flush_channel_notes
<1>5. \A c \in Blocks : Occupied(m, c) = Occupied(k, c)
  <2>1. \A c \in Blocks : Occupied(m, c) = {s \in Occupied(k, c) : <<c, s>> \notin D}
    BY NoteOffsOccupied DEF Quiet
  <2> HIDE DEF m
  <2> QED BY <1>2, <2>1
<1> HIDE DEF B, D, m, r
<1>6. x \in [Blocks -> Int] /\ \A c \in Blocks : x[c] = Cardinality(Occupied(m, c))
  BY <1>1, <1>3, <1>5 DEF Exact
<1> HIDE DEF x
<1>7. Exact(r)
  BY <1>2, <1>4, <1>6, NoteOffsExact DEF m
<1> QED BY <1>7 DEF r

LEMMA ResetExact ==
  ASSUME SequencerAssumption, SteadySong, NEW k, Quiet(k), Exact(k),
         \A b \in Blocks : k.count[b] = 0, Registered \subseteq Blocks, NEW b \in Blocks
  PROVE  Exact(reset_sequence(k, b))
<1> DEFINE f == flush_channel_notes(k, 0)
           r == release_channels(f, {k.map[b][c] : c \in Chans})
           m == reset_sequence(k, b)
<1>1. Quiet(f) /\ Exact(f)
  BY FlushChannelQuiet, FlushChannelNothing
<1>2. Quiet(r) /\ Exact(r)
  <2> HIDE DEF f
  <2> QED BY <1>1, ReleaseQuiet, ReleaseExact
<1>3. m = [[r EXCEPT !.map = [r.map EXCEPT ![b] = Identity]] EXCEPT !.protected = {}]
  BY DEF reset_sequence
<1> HIDE DEF f, r, m
<1>4. [r.map EXCEPT ![b] = Identity] = r.map
  BY <1>2 DEF Quiet, Unmapped
<1>5. /\ m.queue = r.queue /\ m.map = r.map /\ m.count = r.count
      /\ m.locked = r.locked /\ m.active = r.active
  BY <1>2, <1>3, <1>4 DEF Quiet, IsPerf
<1>6. Exact(m)
  BY <1>2, <1>5, SameExact
<1> QED BY <1>6 DEF m

LEMMA StoppedExact ==
  ASSUME SequencerAssumption, SteadySong, NEW k, Quiet(k), Exact(k),
         Registered \subseteq Blocks, NEW b \in Blocks
  PROVE  Exact(Stopped(k, b))
<1> DEFINE f == flush_note_queue(k, b)
<1>1. Quiet(f) /\ Exact(f) /\ f.count[b] = 0
  BY FlushQueueQuiet, FlushQueueExact
<1>2. Blocks = {b}
  BY DEF SteadySong
<1>3. Stopped(k, b) = reset_sequence(f, b)
  BY DEF Stopped
<1> HIDE DEF f
<1>4. Exact(reset_sequence(f, b))
  BY <1>1, <1>2, ResetExact
<1> QED BY <1>3, <1>4

LEMMA RewindExact ==
  ASSUME SequencerAssumption, NEW k, Quiet(k), Exact(k), NEW b \in Blocks, Occupied(k, b) = {}
  PROVE  Exact(rewind_seq(k, b))
<1> DEFINE none == [s \in Slots |-> Free]
           m == rewind_seq(k, b)
<1>1. m = [[[k EXCEPT !.map = [k.map EXCEPT ![b] = Identity]]
                EXCEPT !.queue = [k.queue EXCEPT ![b] = none]]
                EXCEPT !.count = [k.count EXCEPT ![b] = 0]]
  BY DEF rewind_seq
<1>2. k.queue[b] = none
  <2>1. k.queue[b] \in [Slots -> Entry \cup {Free}]
    BY DEF Quiet
  <2>2. \A s \in Slots : k.queue[b][s] = Free
    BY DEF Occupied
  <2> QED BY <2>1, <2>2
<1>3. k.count[b] = 0
  BY FS_EmptySet DEF Exact
<1> HIDE DEF none, m
<1>4. /\ [k.queue EXCEPT ![b] = none] = k.queue /\ [k.map EXCEPT ![b] = Identity] = k.map
      /\ [k.count EXCEPT ![b] = 0] = k.count
  BY <1>2, <1>3 DEF Quiet, Unmapped, Exact
<1>5. /\ m.queue = k.queue /\ m.map = k.map /\ m.count = k.count
      /\ m.locked = k.locked /\ m.active = k.active
  BY <1>1, <1>4 DEF Quiet, IsPerf
<1>6. Exact(m)
  BY <1>5, SameExact
<1> QED BY <1>6 DEF m

(* Small counts do not wrap. *)
LEMMA CountFits ==
  ASSUME SequencerAssumption, NEW k, NEW b
  PROVE  Cardinality(Occupied(k, b)) % CountMod = Cardinality(Occupied(k, b))
<1> DEFINE n == Cardinality(Occupied(k, b))
<1>1. n \in 0 .. MAX_NOTES /\ MAX_NOTES \in Nat \ {0} /\ CountMod \in Nat /\ CountMod > 2 * MAX_NOTES
  BY OccupiedBounds DEF SequencerAssumption
<1>2. n \in 0 .. CountMod - 1
  BY <1>1
<1> HIDE DEF n
<1>3. Wrapped(n) = n
  BY <1>2, WrapOnce
<1> QED BY <1>3 DEF n, Wrapped

(* A note enters a free slot and is counted. *)
LEMMA NoteOnExact ==
  ASSUME SequencerAssumption, SteadySong, Quiet(perf), Exact(perf), st \in Blocks, note_on
  PROVE  Exact(perf')
<1>1. PICK c \in Chans, n \in Notes, d \in Durations :
        /\ FreeSlots(perf, st) # {}
        /\ perf' = [Sounded(perf, st, Lowest(FreeSlots(perf, st)), c, n, d)
                      EXCEPT !.count[st] = (@ + 1) % CountMod]
  BY DEF note_on
<1> DEFINE s == Lowest(FreeSlots(perf, st))
           entry == [chan |-> c, num |-> n, time |-> d - 1]
           q == [perf.queue EXCEPT ![st] = [perf.queue[st] EXCEPT ![s] = entry]]
           p == perf.map[st][c]
           a == [perf.active EXCEPT ![p] = (perf.active[p] + 1) % ActiveMod]
           o == perf.sounding \cup {<<p, n>>}
           x == [perf.count EXCEPT ![st] = (perf.count[st] + 1) % CountMod]
<1>2. s \in Slots /\ s \notin Occupied(perf, st)
  <2>1. FreeSlots(perf, st) \subseteq Nat
    BY DEF FreeSlots, Slots
  <2>2. s \in FreeSlots(perf, st)
    BY <1>1, <2>1, LowestMember
  <2> HIDE DEF s
  <2> QED BY <2>2 DEF FreeSlots
<1> HIDE DEF s
<1>3. entry \in Entry /\ entry # Free /\ entry.chan = c
  BY DEF Entry, SequencerAssumption, Chans
<1>4. IsPerf(perf)
  BY DEF Quiet
<1>5. p = c
  BY DEF Quiet, Unmapped, Identity
<1>6. perf' = [[[[perf EXCEPT !.queue = q] EXCEPT !.active = a] EXCEPT !.sounding = o] EXCEPT !.count = x]
  <2>1. Sounded(perf, st, s, c, n, d)
          = [[[perf EXCEPT !.queue = q] EXCEPT !.active = a] EXCEPT !.sounding = o]
    BY DEF Sounded
  <2> DEFINE m == [[[perf EXCEPT !.queue = q] EXCEPT !.active = a] EXCEPT !.sounding = o]
  <2>2. m.count = perf.count
    <3> HIDE DEF q, a, o
    <3> QED BY <1>4 DEF IsPerf
  <2>3. perf' = [m EXCEPT !.count[st] = (m.count[st] + 1) % CountMod]
    BY <1>1, <2>1 DEF s
  <2> HIDE DEF m
  <2>4. perf' = [m EXCEPT !.count = x]
    BY <2>2, <2>3
  <2> QED BY <2>4 DEF m
<1> HIDE DEF entry, p
<1>7. /\ \A f \in Blocks, t \in Slots :
           q[f][t] = IF f = st /\ t = s THEN entry ELSE perf.queue[f][t]
  BY <1>2 DEF Quiet
<1>8. /\ a \in [Chans -> Int]
      /\ a[c] = (perf.active[c] + 1) % ActiveMod
      /\ \A z \in Chans : z # c => a[z] = perf.active[z]
  <2>1. ActiveMod \in Nat \ {0}
    BY DEF SequencerAssumption
  <2> DEFINE y == perf.active[c] + 1
  <2>3. y \in Int
    BY DEF Exact
  <2> HIDE DEF y
  <2>4. (y % ActiveMod) \in Int
    BY <2>1, <2>3, DivModInt
  <2>2. (perf.active[c] + 1) % ActiveMod \in Int
    BY <2>4 DEF y
  <2> QED BY <1>5, <2>2 DEF Exact
<1>9. /\ x[st] = (perf.count[st] + 1) % CountMod
      /\ x \in [Blocks -> Int]
  <2>1. CountMod \in Nat \ {0}
    BY DEF SequencerAssumption
  <2> DEFINE y == perf.count[st] + 1
  <2>3. y \in Int
    BY DEF Exact
  <2> HIDE DEF y
  <2>4. (y % CountMod) \in Int
    BY <2>1, <2>3, DivModInt
  <2>2. (perf.count[st] + 1) % CountMod \in Int
    BY <2>4 DEF y
  <2> QED BY <2>2 DEF Exact
<1> HIDE DEF q, a, o, x
<1>10. /\ perf'.queue = q /\ perf'.active = a /\ perf'.count = x
       /\ perf'.map = perf.map /\ perf'.locked = perf.locked
  BY <1>4, <1>6 DEF IsPerf
<1>11. Occupied(perf', st) = Occupied(perf, st) \cup {s}
  BY <1>2, <1>3, <1>7, <1>10 DEF Occupied
<1>12. \A b \in Blocks : x[b] = Cardinality(Occupied(perf', b))
  <2>1. Cardinality(Occupied(perf', st)) = Cardinality(Occupied(perf, st)) + 1
    BY <1>2, <1>11, OccupiedBounds, FS_AddElement
  <2>2. x[st] = Cardinality(Occupied(perf', st))
    BY <1>9, <2>1, CountFits DEF Exact
  <2>3. Blocks = {st}
    BY DEF SteadySong
  <2> QED BY <2>2, <2>3
<1>13. \A z \in Chans : a[z] = Cardinality(Held(perf', z)) % ActiveMod
  <2>1. ASSUME NEW z \in Chans, NEW e \in Blocks \X Slots
        PROVE  e \in Held(perf', z) <=> e \in Held(perf, z) \/ (z = c /\ e = <<st, s>>)
    <3>1. e = <<e[1], e[2]>> /\ e[1] \in Blocks /\ e[2] \in Slots
      OBVIOUS
    <3>2. CASE e = <<st, s>>
      <4>1. perf'.queue[e[1]][e[2]] = entry /\ e[1] = st /\ e[2] = s
        BY <1>7, <1>10, <3>1, <3>2
      <4>2. Phys(perf', e[1], e[2]) = c
        BY <1>3, <1>5, <1>10, <4>1 DEF Phys, p
      <4>3. perf.queue[e[1]][e[2]] = Free
        BY <1>2, <3>2 DEF Occupied
      <4> QED BY <1>3, <3>2, <4>1, <4>2, <4>3 DEF Held
    <3>3. CASE e # <<st, s>>
      <4>1. perf'.queue[e[1]][e[2]] = perf.queue[e[1]][e[2]]
        BY <1>7, <1>10, <3>1, <3>3
      <4> QED BY <1>10, <3>3, <4>1 DEF Held, Phys
    <3> QED BY <3>2, <3>3
  <2>2. \A z : Held(perf', z) \subseteq Blocks \X Slots /\ Held(perf, z) \subseteq Blocks \X Slots
    BY DEF Held
  <2>3. <<st, s>> \in Blocks \X Slots /\ <<st, s>> \notin Held(perf, c)
    BY <1>2 DEF Held, Occupied
  <2>4. Held(perf', c) = Held(perf, c) \cup {<<st, s>>}
    BY <2>1, <2>2, <2>3
  <2>5. \A z \in Chans : z # c => Held(perf', z) = Held(perf, z)
    BY <2>1, <2>2
  <2>6. a[c] = Cardinality(Held(perf', c)) % ActiveMod
    <3>1. /\ Cardinality(Held(perf', c)) = Cardinality(Held(perf, c)) + 1
          /\ Cardinality(Held(perf, c)) \in Nat
      BY <2>3, <2>4, HeldFinite, FS_AddElement
    <3>2. perf.active[c] = Cardinality(Held(perf, c)) % ActiveMod /\ ActiveMod \in Nat \ {0}
      BY DEF Exact, SequencerAssumption
    <3> DEFINE h == Cardinality(Held(perf, c))
    <3>3. h \in Int /\ 1 \in Int
      BY <3>1
    <3> HIDE DEF h
    <3>4. ((h % ActiveMod) + 1) % ActiveMod = (h + 1) % ActiveMod
      BY <3>2, <3>3, ModShift
    <3> QED BY <1>8, <3>1, <3>2, <3>4 DEF h
  <2>7. \A z \in Chans : z # c => a[z] = Cardinality(Held(perf', z)) % ActiveMod
    BY <1>8, <2>5 DEF Exact
  <2> QED BY <2>6, <2>7
<1> QED BY <1>8, <1>9, <1>10, <1>12, <1>13 DEF Exact

LEMMA NoteOffExact ==
  ASSUME SequencerAssumption, SteadySong, Quiet(perf), Exact(perf), st \in Blocks, note_off
  PROVE  Exact(perf')
<1>1. PICK c \in Chans, n \in Notes :
        LET hits == {s \in Occupied(perf, st) : /\ perf.queue[st][s].chan = c
                                                /\ perf.queue[st][s].num = n} IN
        /\ hits # {}
        /\ perf' = [NoteOffs(perf, {<<st, Lowest(hits)>>})
                      EXCEPT !.count[st] = (@ - 1) % CountMod]
  BY DEF note_off
<1> DEFINE hits == {s \in Occupied(perf, st) : /\ perf.queue[st][s].chan = c
                                               /\ perf.queue[st][s].num = n}
           s == Lowest(hits)
           D == {<<st, s>>}
           m == NoteOffs(perf, D)
           x == [m.count EXCEPT ![st] = (m.count[st] - 1) % CountMod]
<1>2. s \in Occupied(perf, st)
  <2>1. hits \subseteq Nat /\ hits # {} /\ hits \subseteq Occupied(perf, st)
    <3>1. hits # {}
      BY <1>1
    <3>2. Occupied(perf, st) \subseteq Nat
      BY DEF Occupied, Slots
    <3>3. hits \subseteq Occupied(perf, st)
      OBVIOUS
    <3> HIDE DEF hits
    <3> QED BY <3>1, <3>2, <3>3
  <2>2. s \in hits
    <3> HIDE DEF hits
    <3> QED BY <2>1, LowestMember
  <2> HIDE DEF hits, s
  <2> QED BY <2>1, <2>2
<1>3. perf' = [m EXCEPT !.count = x]
  BY <1>1
<1> HIDE DEF hits, s
<1>4. IsPerf(m) /\ m.count = perf.count /\ IsPerf(perf)
  BY NoteOffsLeaves DEF Quiet
<1>5. Occupied(m, st) = Occupied(perf, st) \ {s}
  <2>2. \A t : <<st, t>> \in D <=> t = s
    OBVIOUS
  <2> HIDE DEF D
  <2>1. \A f \in Blocks : Occupied(m, f) = {t \in Occupied(perf, f) : <<f, t>> \notin D}
    BY <1>4, NoteOffsOccupied
  <2> HIDE DEF m
  <2>3. Occupied(m, st) = {t \in Occupied(perf, st) : <<st, t>> \notin D}
    BY <2>1
  <2> QED BY <2>2, <2>3
<1>6. Cardinality(Occupied(m, st)) = Cardinality(Occupied(perf, st)) - 1
  <2>1. IsFiniteSet(Occupied(perf, st))
    BY OccupiedBounds
  <2>2. Cardinality(Occupied(perf, st) \ {s}) = Cardinality(Occupied(perf, st)) - 1
    BY <1>2, <2>1, FS_RemoveElement
  <2> HIDE DEF m
  <2> QED BY <1>5, <2>2, Zenon
<1>7. \A d \in D : d \in Blocks \X Slots /\ perf.queue[d[1]][d[2]] # Free
  BY <1>2 DEF Occupied
<1> HIDE DEF D, m
<1>8. x[st] = Cardinality(Occupied(m, st))
  <2>1. x[st] = (perf.count[st] - 1) % CountMod
    BY <1>4 DEF Exact
  <2>2. perf.count[st] - 1 = Cardinality(Occupied(m, st))
    BY <1>6 DEF Exact
  <2> QED BY <2>1, <2>2, CountFits
<1>9. x \in [Blocks -> Int]
  <2>1. CountMod \in Nat \ {0}
    BY DEF SequencerAssumption
  <2> DEFINE y == perf.count[st] - 1
  <2>2. y \in Int
    BY DEF Exact
  <2> HIDE DEF y
  <2>3. (y % CountMod) \in Int
    BY <2>1, <2>2, DivModInt
  <2>4. (m.count[st] - 1) % CountMod \in Int
    BY <1>4, <2>3 DEF y
  <2> QED BY <1>4, <2>4 DEF Exact
<1> HIDE DEF x
<1>10. \A b \in Blocks : x[b] = Cardinality(Occupied(m, b))
  <2>1. Blocks = {st}
    BY DEF SteadySong
  <2> QED BY <1>8, <2>1
<1> QED BY <1>3, <1>7, <1>9, <1>10, NoteOffsExact DEF m

(* The notes due leave the queue, the channels and the count together. *)
LEMMA ExpiredExact ==
  ASSUME SequencerAssumption, SteadySong, NEW k, Quiet(k), Exact(k), NEW b \in Blocks
  PROVE  Exact(Expired(k, b))
<1> DEFINE r == Expired(k, b)
           due == Due(k, b)
           n == (k.count[b] - Cardinality(due)) % CountMod
           D == {b} \X due
           Lost(p) == {d \in D : Phys(k, b, d[2]) = p}
<1>1. TickOf(k, b, r, due)
  <2>1. /\ IsPerf(k) /\ k.queue \in [Blocks -> [Slots -> Entry \cup {Free}]]
        /\ r = Expired(k, b) /\ due = Due(k, b)
    BY DEF Quiet
  <2> HIDE DEF r, due
  <2> QED BY <2>1, ExpiredTick
<1>2. due \subseteq Occupied(k, b) /\ due \subseteq Slots
  BY DEF Due, Occupied
<1> HIDE DEF r, due
<1>3. Blocks = {b}
  BY DEF SteadySong
<1>4. Occupied(r, b) = Occupied(k, b) \ due
  BY <1>1 DEF TickOf, Occupied
<1>5. /\ IsFiniteSet(Occupied(k, b)) /\ IsFiniteSet(due)
      /\ Cardinality(Occupied(r, b)) = Cardinality(Occupied(k, b)) - Cardinality(due)
  <2>1. IsFiniteSet(Occupied(k, b))
    BY OccupiedBounds
  <2>2. IsFiniteSet(due)
    BY <1>2, <2>1, FS_Subset
  <2>3. Cardinality(Occupied(k, b) \ due)
          = Cardinality(Occupied(k, b)) - Cardinality(Occupied(k, b) \cap due)
    BY <2>1, FS_Difference
  <2>4. Occupied(k, b) \cap due = due
    BY <1>2
  <2>5. Cardinality(Occupied(r, b)) = Cardinality(Occupied(k, b)) - Cardinality(due)
    BY <1>4, <2>3, <2>4, Zenon
  <2> QED BY <2>1, <2>2, <2>5
<1>6. r.count = [k.count EXCEPT ![b] = n]
  BY <1>1 DEF TickOf
<1>7. n = Cardinality(Occupied(r, b)) /\ n \in Int
  <2>1. k.count[b] - Cardinality(due) = Cardinality(Occupied(r, b))
    BY <1>5 DEF Exact
  <2>2. Cardinality(Occupied(r, b)) \in Int
    BY OccupiedBounds DEF SequencerAssumption
  <2> QED BY <2>1, <2>2, CountFits
<1> HIDE DEF n
<1>8. r.count \in [Blocks -> Int] /\ \A c \in Blocks : r.count[c] = Cardinality(Occupied(r, c))
  BY <1>3, <1>6, <1>7 DEF Exact
<1>9. r.active = [p \in Chans |-> (k.active[p] - Cardinality(Lost(p))) % ActiveMod]
  BY <1>1 DEF TickOf
<1>10. \A d \in D : d[1] = b /\ d[2] \in due /\ d = <<b, d[2]>>
  OBVIOUS
<1>11. \A s \in due : <<b, s>> \in D
  OBVIOUS
<1> HIDE DEF D
<1>12. ASSUME NEW p \in Chans
       PROVE  Held(r, p) = Held(k, p) \ Lost(p) /\ Lost(p) \subseteq Held(k, p)
  <2>1. Lost(p) \subseteq Held(k, p)
    BY <1>2, <1>10 DEF Held, Occupied
  <2>2. ASSUME NEW e \in Blocks \X Slots
        PROVE  e \in Held(r, p) <=> e \in Held(k, p) /\ e \notin Lost(p)
    <3>1. e = <<b, e[2]>> /\ e[1] = b /\ e[2] \in Slots
      BY <1>3
    <3>2. CASE e[2] \in due
      <4>1. r.queue[e[1]][e[2]] = Free
        BY <1>1, <3>1, <3>2 DEF TickOf
      <4>2. e \in D
        BY <1>11, <3>1, <3>2
      <4> QED BY <3>1, <4>1, <4>2 DEF Held
    <3>3. CASE e[2] \notin due
      <4>1. /\ r.queue[b][e[2]] = Free <=> k.queue[b][e[2]] = Free
            /\ r.queue[b][e[2]].chan = k.queue[b][e[2]].chan
            /\ r.map = k.map
        BY <1>1, <3>1, <3>3 DEF TickOf
      <4>2. e \notin D
        BY <1>10, <3>3
      <4> QED BY <3>1, <4>1, <4>2 DEF Held, Phys
    <3> QED BY <3>2, <3>3
  <2>3. Held(r, p) \subseteq Blocks \X Slots /\ Held(k, p) \subseteq Blocks \X Slots
    BY DEF Held
  <2> HIDE DEF Lost
  <2> QED BY <2>1, <2>2, <2>3
<1>13. ASSUME NEW p \in Chans
       PROVE  r.active[p] = Cardinality(Held(r, p)) % ActiveMod
  <2>1. r.active[p] = (k.active[p] - Cardinality(Lost(p))) % ActiveMod
    BY <1>9
  <2>2. IsFiniteSet(Held(k, p)) /\ k.active[p] = Cardinality(Held(k, p)) % ActiveMod
    BY HeldFinite DEF Exact
  <2> HIDE DEF Lost
  <2>3. (k.active[p] - Cardinality(Lost(p))) % ActiveMod
          = Cardinality(Held(k, p) \ Lost(p)) % ActiveMod
    BY <1>12, <2>2, LoseSome
  <2> QED BY <1>12, <2>1, <2>3
<1>14. r.active \in [Chans -> Int]
  <2>1. ASSUME NEW p \in Chans PROVE r.active[p] \in Int
    <3>1. Cardinality(Held(r, p)) \in Nat /\ ActiveMod \in Nat \ {0}
      BY HeldFinite DEF SequencerAssumption
    <3>2. (Cardinality(Held(r, p)) % ActiveMod) \in Int
      BY <3>1, DivModInt
    <3> QED BY <1>13, <3>2
  <2>2. r.active = [p \in Chans |-> r.active[p]]
    BY <1>9
  <2> QED BY <2>1, <2>2
<1>15. r.locked = {}
  BY <1>1 DEF TickOf, Exact
<1> QED BY <1>8, <1>13, <1>14, <1>15 DEF Exact, r

LEMMA ControlExact ==
  ASSUME SequencerAssumption, SteadySong, Quiet(perf), Exact(perf), NEW b \in Blocks,
         XMIDI_control(b)
  PROVE  Exact(perf')
<1>1. ASSUME NEW c \in Chans, CHAN_LOCK_on(b, c) PROVE FALSE
  BY <1>1 DEF CHAN_LOCK_on, LockKind, SteadySong
<1>2. ASSUME NEW c \in Chans, CHAN_LOCK_off(b, c) PROVE FALSE
  <2>1. perf.map[b][c] = c
    BY DEF Quiet, Unmapped, Identity
  <2> QED BY <1>2, <2>1 DEF CHAN_LOCK_off, UnlockKind, SteadySong
<1>3. ASSUME NEW c \in Chans, CHAN_PROTECT(c) PROVE Exact(perf')
  <2>1. PICK x : perf' = [perf EXCEPT !.protected = x]
    BY <1>3 DEF CHAN_PROTECT
  <2>2. /\ perf'.queue = perf.queue /\ perf'.map = perf.map /\ perf'.locked = perf.locked
        /\ perf'.count = perf.count /\ perf'.active = perf.active
    BY <2>1 DEF Quiet, IsPerf
  <2> QED BY <2>2, SameExact
<1> QED BY <1>1, <1>2, <1>3 DEF XMIDI_control

LEMMA ExactStep ==
  ASSUME SequencerAssumption, SteadySong, RegistryInv, Quiet(perf), StoppedEmpty, Exact(perf), Next
  PROVE  Exact(perf')
<1>0. Registered \subseteq Blocks
  BY DEF Registered, RegistryInv, RegistryTypes
<1>1. CASE register_seq
  <2>1. PICK b \in Blocks \ Registered : perf' = rewind_seq(perf, b)
    BY <1>1 DEF register_seq
  <2>2. Occupied(perf, b) = {}
    BY <2>1 DEF RegistryInv, PlayingRegistered, StoppedEmpty
  <2> QED BY <2>1, <2>2, RewindExact
<1>2. CASE start_seq
  <2>1. PICK b \in Blocks :
          perf' = rewind_seq(IF status[b] = "playing" THEN Stopped(perf, b) ELSE perf, b)
    BY <1>0, <1>2 DEF start_seq
  <2>2. PICK k : /\ k = IF status[b] = "playing" THEN Stopped(perf, b) ELSE perf
                 /\ perf' = rewind_seq(k, b)
    BY <2>1
  <2>3. Quiet(k) /\ Occupied(k, b) = {} /\ Exact(k)
    <3>1. CASE status[b] = "playing"
      <4>1. /\ Quiet(Stopped(perf, b)) /\ Occupied(Stopped(perf, b), b) = {}
            /\ \A c \in Blocks : Occupied(Stopped(perf, b), c) \subseteq Occupied(perf, c)
        BY StoppedQuiet
      <4>2. k = Stopped(perf, b)
        BY <2>2, <3>1
      <4>3. Exact(Stopped(perf, b))
        BY <1>0, StoppedExact
      <4> QED BY <4>1, <4>2, <4>3
    <3>2. CASE status[b] # "playing"
      BY <2>2, <3>2 DEF StoppedEmpty
    <3> QED BY <3>1, <3>2
  <2> QED BY <2>2, <2>3, RewindExact
<1>3. CASE stop_seq
  <2>1. PICK b \in Blocks : perf' = Stopped(perf, b)
    BY <1>0, <1>3 DEF stop_seq
  <2> QED BY <1>0, <2>1, StoppedExact
<1>4. CASE resume_seq \/ release_seq \/ serve \/ pass_sequence \/ delay
           \/ callback_trigger \/ return_callback
  BY <1>4 DEF resume_seq, release_seq, serve, pass_sequence, delay, callback_trigger,
              return_callback
<1>5. CASE branch_index
  <2>1. PICK b \in Blocks : perf' = flush_note_queue(perf, b)
    BY <1>0, <1>5 DEF branch_index
  <2> QED BY <2>1, FlushQueueExact
<1>6. CASE map_seq_channel \/ app_lock_channel
  BY <1>6 DEF map_seq_channel, app_lock_channel, CanCall, SteadySong
<1>7. CASE app_release_channel
  <2>1. PICK p \in Chans : perf' = release_channels(perf, {p})
    BY <1>7 DEF app_release_channel
  <2> QED BY <2>1, ReleaseExact
<1>8. CASE set_control_val
  <2>1. PICK b \in Blocks : XMIDI_control(b)
    BY <1>0, <1>8 DEF set_control_val
  <2> QED BY <2>1, ControlExact
<1>9. CASE process_tick
  <2>1. sequence_states[seq] \in Blocks
    BY <1>9 DEF process_tick, Ready, RegistryInv, RegistryTypes
  <2>2. perf' = perf \/ perf' = Expired(perf, sequence_states[seq])
    BY <1>9 DEF process_tick
  <2> QED BY <2>1, <2>2, ExpiredExact
<1>10. CASE note_on_overflow \/ end_of_track
  BY <1>10 DEF note_on_overflow, end_of_track, SteadySong
<1>11. CASE note_on \/ note_off \/ control
  <2>1. st \in Blocks
    BY <1>11 DEF note_on, note_off, control, InLoop, RegistryInv, RegistryTypes
  <2>2. CASE control
    BY <2>1, <2>2, ControlExact DEF control
  <2> QED BY <1>11, <2>1, <2>2, NoteOnExact, NoteOffExact
<1> QED BY <1>1, <1>2, <1>3, <1>4, <1>5, <1>6, <1>7, <1>8, <1>9, <1>10, <1>11
        DEF Next, AppCall, Service, Event

LEMMA ExactInit ==
  ASSUME SequencerAssumption, SteadySong, Init PROVE Exact(perf)
<1> DEFINE free == [s \in Slots |-> Free]
<1>1. perf = [queue |-> [b \in Blocks |-> free], count |-> [b \in Blocks |-> 0],
              map |-> [b \in Blocks |-> Identity], active |-> [p \in Chans |-> 0],
              locked |-> {}, protected |-> {}, sounding |-> {}]
  BY DEF Init
<1>2. \A s \in Slots : free[s] = Free
  OBVIOUS
<1> HIDE DEF free
<1>3. /\ perf.queue = [b \in Blocks |-> free] /\ perf.locked = {}
      /\ perf.count = [b \in Blocks |-> 0] /\ perf.active = [p \in Chans |-> 0]
  BY <1>1
<1>4. \A b \in Blocks : Occupied(perf, b) = {}
  BY <1>2, <1>3 DEF Occupied
<1>5. \A p : Held(perf, p) = {}
  BY <1>2, <1>3 DEF Held
<1>6. Cardinality({}) = 0 /\ 0 % ActiveMod = 0
  <2>1. 0 = 0 % ActiveMod
    BY DEF SequencerAssumption
  <2> QED BY <2>1, FS_EmptySet
<1>7. /\ perf.count \in [Blocks -> Int]
      /\ \A b \in Blocks : perf.count[b] = Cardinality(Occupied(perf, b))
  <2>1. ASSUME NEW b \in Blocks PROVE Cardinality(Occupied(perf, b)) = 0
    BY <1>4, <1>6
  <2> QED BY <1>3, <2>1
<1>8. /\ perf.active \in [Chans -> Int]
      /\ \A p \in Chans : perf.active[p] = Cardinality(Held(perf, p)) % ActiveMod
  <2>1. ASSUME NEW p PROVE Cardinality(Held(perf, p)) = 0
    BY <1>5, <1>6
  <2>2. ASSUME NEW p \in Chans PROVE perf.active[p] = Cardinality(Held(perf, p)) % ActiveMod
    BY <1>3, <1>6, <2>1
  <2> QED BY <1>3, <2>2
<1> QED BY <1>3, <1>7, <1>8 DEF Exact

(* note_count is the number of queued notes and active_notes[] the number  *)
(* on each channel, wraps included, through expiries, note-offs, branches, *)
(* stops and restarts of one song, for every queue length and tick.        *)
THEOREM CountsExactAlways == SteadySong /\ Spec => []CountsExact
<1> DEFINE OK == Quiet(perf) /\ StoppedEmpty
           Same == Exact(perf)
<1>1. Init => OK
  BY QuietInit, SequencerAssumption
<1>2. SteadySong => PlainSongs
  BY DEF SteadySong, PlainSongs
<1>3. PlainSongs /\ RegistryInv /\ OK /\ [Next]_vars => OK'
  <2>1. CASE UNCHANGED vars
    BY <2>1 DEF vars, life, StoppedEmpty
  <2>2. ASSUME PlainSongs, RegistryInv, OK, Next PROVE OK'
    BY <2>2, QuietAppCall, QuietService, SequencerAssumption DEF Next
  <2> QED BY <2>1, <2>2
<1>4. SteadySong /\ Init => Same
  BY ExactInit, SequencerAssumption
<1>5. SteadySong /\ RegistryInv /\ OK /\ Same /\ [Next]_vars => Same'
  <2>1. CASE UNCHANGED vars
    BY <2>1 DEF vars
  <2>2. ASSUME SteadySong, RegistryInv, OK, Same, Next PROVE Same'
    BY <2>2, ExactStep, SequencerAssumption
  <2> QED BY <2>1, <2>2
<1>6. Same => CountsExact
  BY DEF Exact, CountsExact, CountExact, ActiveExact, Held
<1>7. SteadySong => []SteadySong
  <2>1. SteadySong => SteadySong'
    BY DEF SteadySong
  <2> QED BY <2>1, PTL
<1> HIDE DEF OK, Same
<1> QED BY <1>1, <1>2, <1>3, <1>4, <1>5, <1>6, <1>7, RegistryAlways, PTL DEF Spec

----------------------------------------------------------------------------
(* Channel locks.  The hypotheses leave what a song that locks a free      *)
(* channel and unlocks it later does: a second lock of the same channel,   *)
(* an unlock without a lock, and the application's own locks are out.      *)

(* One sequence, whose songs lock only channels that are not locked yet    *)
(* and unlock only what they locked; the application leaves locks and      *)
(* mappings alone.                                                         *)
FairLocks ==
  /\ \E b \in Blocks : Blocks = {b}
  /\ Events \cap {"relock", "stray_unlock"} = {}
  /\ Calls \cap {"map", "lock_channel", "release_channel", "control"} = {}

(* The candidate after channel i was looked at. *)
Better(k, X, i, cand) ==
  IF i \notin X /\ (cand # NoChan => k.active[i] >= k.active[cand] % ByteMod) THEN i ELSE cand

(* f is the scan of lock_channel from the top down to channel n. *)
DownTo(k, X, f, n) ==
  f = [i \in n .. NUM_CHANS |-> IF i = NUM_CHANS THEN NoChan ELSE Better(k, X, i, f[i + 1])]

LEMMA ScanDefined ==
  ASSUME SequencerAssumption, NEW k, NEW X, NEW m \in 0 .. NUM_CHANS
  PROVE  \E f : DownTo(k, X, f, NUM_CHANS - m)
<1> DEFINE N == NUM_CHANS
           bad == {j \in 0 .. N : ~ \E f : DownTo(k, X, f, N - j)}
<1>0. N \in Nat
  BY DEF SequencerAssumption
<1>1. SUFFICES ASSUME bad # {} PROVE FALSE
  OBVIOUS
<1>2. PICK j \in bad : \A t \in bad : j <= t
  <2>1. bad \in SUBSET Nat
    BY <1>0
  <2> HIDE DEF bad
  <2> QED BY <1>1, <2>1, LowestMember
<1>3. CASE j = 0
  <2>1. DownTo(k, X, [i \in N .. N |-> NoChan], N)
    BY <1>0 DEF DownTo
  <2>2. N - j = N
    BY <1>0, <1>3
  <2> QED BY <1>2, <2>1, <2>2
<1>4. CASE j # 0
  <2>1. j \in 1 .. N /\ j - 1 \in 0 .. N /\ j - 1 \notin bad
    <3>1. j \in 0 .. N
      OBVIOUS
    <3> HIDE DEF bad
    <3> QED BY <1>0, <1>2, <1>4, <3>1
  <2> DEFINE n == N - j
  <2>2. n \in 0 .. N - 1 /\ N - (j - 1) = n + 1
    BY <1>0, <2>1
  <2>3. PICK f : DownTo(k, X, f, n + 1)
    BY <2>1, <2>2
  <2>4. \A i \in n + 1 .. N : f[i] = IF i = N THEN NoChan ELSE Better(k, X, i, f[i + 1])
    BY <2>3 DEF DownTo
  <2> DEFINE y == Better(k, X, n, f[n + 1])
             g == [i \in n .. N |-> IF i = n THEN y ELSE f[i]]
  <2> HIDE DEF n
  <2>5. \A i \in n .. N : i # N => g[i + 1] = f[i + 1]
    BY <1>0, <2>2
  <2>6. ASSUME NEW i \in n .. N
        PROVE  g[i] = IF i = N THEN NoChan ELSE Better(k, X, i, g[i + 1])
    <3>1. CASE i = n
      <4>1. g[i] = y /\ i # N
        BY <1>0, <2>2, <3>1
      <4>2. g[i + 1] = f[n + 1]
        BY <2>5, <3>1, <4>1
      <4> QED BY <3>1, <4>1, <4>2
    <3>2. CASE i # n
      <4>1. i \in n + 1 .. N /\ g[i] = f[i]
        BY <1>0, <2>2, <3>2
      <4>2. CASE i = N
        BY <2>4, <4>1, <4>2
      <4>3. CASE i # N
        <5>1. g[i + 1] = f[i + 1]
          BY <2>5, <4>3
        <5>2. f[i] = Better(k, X, i, f[i + 1])
          BY <2>4, <4>1, <4>3
        <5> QED BY <4>1, <4>3, <5>1, <5>2
      <4> QED BY <4>2, <4>3
    <3> QED BY <3>1, <3>2
  <2>7. g = [i \in n .. N |-> g[i]]
    OBVIOUS
  <2> HIDE DEF g
  <2>8. DownTo(k, X, g, n)
    BY <2>6, <2>7 DEF DownTo
  <2> QED BY <1>2, <2>8 DEF n
<1> QED BY <1>3, <1>4

(* The scan finds a channel outside X, or none. *)
LEMMA ScanOutside ==
  ASSUME SequencerAssumption, NEW k, NEW X
  PROVE  Scan(k, X) \in (Chans \ X) \cup {NoChan}
<1> DEFINE N == NUM_CHANS
           f == CHOOSE g : g = [i \in 0 .. N |->
                  IF i = N THEN NoChan
                  ELSE IF i \notin X
                          /\ (g[i + 1] # NoChan => k.active[i] >= k.active[g[i + 1]] % ByteMod)
                       THEN i ELSE g[i + 1]]
           good == (Chans \ X) \cup {NoChan}
           bad == {j \in 0 .. N : f[N - j] \notin good}
<1>0. N \in Nat \ {0}
  BY DEF SequencerAssumption
<1>1. Scan(k, X) = f[0]
  BY DEF Scan
<1>2. DownTo(k, X, f, 0)
  <2>1. N \in 0 .. N /\ N - N = 0
    BY <1>0
  <2>2. \E g : DownTo(k, X, g, 0)
    BY <2>1, ScanDefined
  <2>3. \E g : g = [i \in 0 .. N |->
                  IF i = N THEN NoChan
                  ELSE IF i \notin X
                          /\ (g[i + 1] # NoChan => k.active[i] >= k.active[g[i + 1]] % ByteMod)
                       THEN i ELSE g[i + 1]]
    BY <2>2 DEF DownTo, Better
  <2>4. f = [i \in 0 .. N |->
                  IF i = N THEN NoChan
                  ELSE IF i \notin X
                          /\ (f[i + 1] # NoChan => k.active[i] >= k.active[f[i + 1]] % ByteMod)
                       THEN i ELSE f[i + 1]]
    BY <2>3
  <2> HIDE DEF f
  <2> QED BY <2>4 DEF DownTo, Better
<1> HIDE DEF f
<1>3. \A i \in 0 .. N : f[i] = IF i = N THEN NoChan ELSE Better(k, X, i, f[i + 1])
  BY <1>2 DEF DownTo
<1>4. bad = {}
  <2>1. SUFFICES ASSUME bad # {} PROVE FALSE
    OBVIOUS
  <2>2. bad \in SUBSET Nat
    BY <1>0
  <2>3. PICK j \in bad : \A t \in bad : j <= t
    <3> HIDE DEF bad
    <3> QED BY <2>1, <2>2, LowestMember
  <2>4. j \in 0 .. N /\ f[N - j] \notin good
    OBVIOUS
  <2>5. CASE j = 0
    BY <1>0, <1>3, <2>4, <2>5
  <2>6. CASE j # 0
    <3>1. j - 1 \in 0 .. N /\ j - 1 \notin bad
      <4> HIDE DEF bad
      <4> QED BY <1>0, <2>3, <2>4, <2>6
    <3>2. N - j \in 0 .. N /\ N - j # N /\ N - (j - 1) = (N - j) + 1
      BY <1>0, <2>4, <2>6
    <3>3. f[(N - j) + 1] \in good
      BY <3>1, <3>2
    <3>4. f[N - j] = Better(k, X, N - j, f[(N - j) + 1])
      BY <1>3, <3>2
    <3>5. N - j \in Chans
      BY <1>0, <2>4, <2>6 DEF Chans
    <3> HIDE DEF bad
    <3> QED BY <2>4, <3>3, <3>4, <3>5 DEF Better
  <2> QED BY <2>5, <2>6
<1>5. N \in 0 .. N /\ N - N = 0 /\ N \notin bad
  BY <1>0, <1>4
<1> QED BY <1>1, <1>5

LEMMA CandidateUnlocked ==
  ASSUME SequencerAssumption, NEW k
  PROVE  Candidate(k) \in (Chans \ k.locked) \cup {NoChan}
BY ScanOutside DEF Candidate


(* r has the mapping and the locks of k. *)
SameLocks(k, r) == IsPerf(r) /\ r.map = k.map /\ r.locked = k.locked

LEMMA NoteOffsLocks ==
  ASSUME NEW k, IsPerf(k), NEW D
  PROVE  SameLocks(k, NoteOffs(k, D))
<1> DEFINE q == [b \in Blocks |-> [s \in Slots |-> IF <<b, s>> \in D THEN Free ELSE k.queue[b][s]]]
           a == [p \in Chans |->
                  (k.active[p] - Cardinality({d \in D : Phys(k, d[1], d[2]) = p})) % ActiveMod]
           o == k.sounding \ {<<Phys(k, d[1], d[2]), k.queue[d[1]][d[2]].num>> : d \in D}
           r == NoteOffs(k, D)
<1>1. r = [[[k EXCEPT !.queue = q] EXCEPT !.active = a] EXCEPT !.sounding = o]
  BY DEF NoteOffs
<1> HIDE DEF q, a, o, r
<1>2. r = [queue |-> q, count |-> k.count, map |-> k.map, active |-> a,
           locked |-> k.locked, protected |-> k.protected, sounding |-> o]
  BY <1>1 DEF IsPerf
<1>3. SameLocks(k, r)
  BY <1>2 DEF IsPerf, SameLocks
<1> QED BY <1>3 DEF r

(* Setting count or queue leaves them as well. *)
LEMMA CountLocks ==
  ASSUME NEW k, NEW m, SameLocks(k, m), NEW x, NEW r, r = [m EXCEPT !.count = x]
  PROVE  SameLocks(k, r)
BY DEF SameLocks, IsPerf

LEMMA FlushQueueLocks ==
  ASSUME NEW k, IsPerf(k), NEW b
  PROVE  SameLocks(k, flush_note_queue(k, b))
<1> DEFINE m == NoteOffs(k, {b} \X Occupied(k, b))
           count == [m.count EXCEPT ![b] = 0]
<1>1. flush_note_queue(k, b) = [m EXCEPT !.count = count]
  BY DEF flush_note_queue
<1>2. SameLocks(k, m)
  BY NoteOffsLocks
<1> HIDE DEF m, count
<1> QED BY <1>1, <1>2, CountLocks

LEMMA FlushChannelLocks ==
  ASSUME NEW k, IsPerf(k), NEW c
  PROVE  SameLocks(k, flush_channel_notes(k, c))
<1> DEFINE B == {b \in Registered : k.count[b] # 0}
           m == NoteOffs(k, {d \in B \X Slots : /\ k.queue[d[1]][d[2]] # Free
                                                /\ k.queue[d[1]][d[2]].chan = c})
           count == [b \in Blocks |-> IF b \in B THEN 0 ELSE m.count[b]]
<1>1. flush_channel_notes(k, c) = [m EXCEPT !.count = count]
  BY DEF flush_channel_notes
<1>2. SameLocks(k, m)
  BY NoteOffsLocks
<1> HIDE DEF m, count
<1> QED BY <1>1, <1>2, CountLocks

LEMMA ExpiredLocks ==
  ASSUME NEW k, IsPerf(k), NEW b
  PROVE  SameLocks(k, Expired(k, b))
<1> DEFINE q == [k.queue EXCEPT ![b] = Older(k.queue[b])]
           aged == [k EXCEPT !.queue = q]
           m == NoteOffs(aged, {b} \X Due(k, b))
           count == [m.count EXCEPT ![b] = (m.count[b] - Cardinality(Due(k, b))) % CountMod]
<1>1. Expired(k, b) = [m EXCEPT !.count = count]
  BY DEF Expired
<1> HIDE DEF q
<1>2. SameLocks(k, aged)
  BY DEF SameLocks, IsPerf
<1> HIDE DEF aged
<1>3. SameLocks(aged, m)
  BY <1>2, NoteOffsLocks DEF SameLocks
<1>4. SameLocks(k, m)
  BY <1>2, <1>3 DEF SameLocks
<1> HIDE DEF m, count
<1> QED BY <1>1, <1>4, CountLocks

LEMMA SoundedLocks ==
  ASSUME NEW k, IsPerf(k), NEW b, NEW s, NEW c, NEW n, NEW d
  PROVE  SameLocks(k, Sounded(k, b, s, c, n, d))
<1> DEFINE p == k.map[b][c]
           q == [k.queue EXCEPT ![b] = [k.queue[b] EXCEPT ![s] =
                   [chan |-> c, num |-> n, time |-> d - 1]]]
           a == [k.active EXCEPT ![p] = (k.active[p] + 1) % ActiveMod]
           o == k.sounding \cup {<<p, n>>}
           r == Sounded(k, b, s, c, n, d)
<1>1. r = [[[k EXCEPT !.queue = q] EXCEPT !.active = a] EXCEPT !.sounding = o]
  BY DEF Sounded
<1> HIDE DEF p, q, a, o, r
<1>2. SameLocks(k, r)
  BY <1>1 DEF IsPerf, SameLocks
<1> QED BY <1>2 DEF r

LEMMA ReleaseLocks ==
  ASSUME NEW k, IsPerf(k), NEW R, NEW r, r = release_channels(k, R)
  PROVE  IsPerf(r) /\ r.map = k.map /\ r.locked = k.locked \ R
<1> DEFINE L == R \cap k.locked
           a == [p \in Chans |-> IF p \in L THEN 0 ELSE k.active[p]]
           l == k.locked \ L
           o == k.sounding \ (L \X Notes)
<1>1. r = [[[k EXCEPT !.locked = l] EXCEPT !.active = a] EXCEPT !.sounding = o]
  BY DEF release_channels
<1>2. l = k.locked \ R
  OBVIOUS
<1> HIDE DEF a, l, o
<1>3. IsPerf(r) /\ r.map = k.map /\ r.locked = l
  BY <1>1 DEF IsPerf
<1> QED BY <1>2, <1>3

(* reset_sequence releases every channel the sequence is mapped to. *)
LEMMA ResetLocks ==
  ASSUME NEW k, IsPerf(k), NEW b, NEW r, r = reset_sequence(k, b)
  PROVE  /\ IsPerf(r) /\ r.map = [k.map EXCEPT ![b] = Identity]
         /\ r.locked = k.locked \ {k.map[b][c] : c \in Chans}
<1> DEFINE f == flush_channel_notes(k, 0)
           R == {k.map[b][c] : c \in Chans}
           m == release_channels(f, R)
           map == [m.map EXCEPT ![b] = Identity]
<1>1. r = [[m EXCEPT !.map = map] EXCEPT !.protected = {}]
  BY DEF reset_sequence
<1>2. SameLocks(k, f)
  BY FlushChannelLocks
<1> HIDE DEF f, R
<1>3. IsPerf(m) /\ m.map = k.map /\ m.locked = k.locked \ R
  BY <1>2, ReleaseLocks DEF SameLocks
<1>4. map = [k.map EXCEPT ![b] = Identity]
  BY <1>3
<1> HIDE DEF m, map
<1>5. IsPerf(r) /\ r.map = map /\ r.locked = m.locked
  BY <1>1, <1>3 DEF IsPerf
<1> QED BY <1>3, <1>4, <1>5 DEF R

LEMMA RewindLocks ==
  ASSUME NEW k, IsPerf(k), NEW b, NEW r, r = rewind_seq(k, b)
  PROVE  IsPerf(r) /\ r.map = [k.map EXCEPT ![b] = Identity] /\ r.locked = k.locked
<1> DEFINE map == [k.map EXCEPT ![b] = Identity]
           queue == [k.queue EXCEPT ![b] = [s \in Slots |-> Free]]
           count == [k.count EXCEPT ![b] = 0]
<1>1. r = [[[k EXCEPT !.map = map] EXCEPT !.queue = queue] EXCEPT !.count = count]
  BY DEF rewind_seq
<1> HIDE DEF map, queue, count
<1>2. IsPerf(r) /\ r.map = map /\ r.locked = k.locked
  BY <1>1 DEF IsPerf
<1> QED BY <1>2 DEF map

LEMMA LockLocks ==
  ASSUME NEW k, IsPerf(k), NEW p, p # NoChan, NEW r, r = lock_channel(k, p)
  PROVE  IsPerf(r) /\ r.map = k.map /\ r.locked = k.locked \cup {p}
<1> DEFINE f == flush_channel_notes(k, p)
           a == [f.active EXCEPT ![p] = 0]
           l == f.locked \cup {p}
<1>1. r = [[f EXCEPT !.active = a] EXCEPT !.locked = l]
  BY DEF lock_channel
<1>2. SameLocks(k, f)
  BY FlushChannelLocks
<1>3. l = k.locked \cup {p}
  BY <1>2 DEF SameLocks
<1> HIDE DEF f, a, l
<1>4. IsPerf(r) /\ r.map = f.map /\ r.locked = l
  BY <1>1, <1>2 DEF IsPerf, SameLocks
<1> QED BY <1>2, <1>3, <1>4 DEF SameLocks

(* Every channel b is mapped onto from elsewhere is locked, for one of its *)
(* channels only, and every locked channel is one b is mapped onto.        *)
Seized(k, b) ==
  /\ IsPerf(k)
  /\ k.map \in [Blocks -> [Chans -> Chans]] /\ k.locked \subseteq Chans
  /\ \A c \in Chans : k.map[b][c] # c => k.map[b][c] \in k.locked
  /\ \A c \in Chans, d \in Chans :
       k.map[b][c] = k.map[b][d] /\ k.map[b][c] # c /\ k.map[b][d] # d => c = d
  /\ \A p \in k.locked : \E c \in Chans : k.map[b][c] = p

LocksInv ==
  \A b \in Blocks : Seized(perf, b) /\ (status[b] # "playing" => perf.locked = {})

LEMMA SameSeized ==
  ASSUME NEW k, NEW b, Seized(k, b), NEW r, SameLocks(k, r)
  PROVE  Seized(r, b)
BY DEF Seized, SameLocks

(* Without a lock there is no mapping. *)
LEMMA FreshSeized ==
  ASSUME NEW k, NEW b \in Blocks, Seized(k, b), NEW r, IsPerf(r),
         r.map = [k.map EXCEPT ![b] = Identity], r.locked = {}
  PROVE  Seized(r, b)
<1>1. Identity \in [Chans -> Chans] /\ \A c \in Chans : Identity[c] = c
  BY DEF Identity
<1>2. r.map \in [Blocks -> [Chans -> Chans]] /\ r.map[b] = Identity
  BY <1>1 DEF Seized
<1> QED BY <1>1, <1>2 DEF Seized

LEMMA ResetSeized ==
  ASSUME NEW k, NEW b \in Blocks, Seized(k, b), NEW r, r = reset_sequence(k, b)
  PROVE  Seized(r, b) /\ r.locked = {}
<1>1. /\ IsPerf(r) /\ r.map = [k.map EXCEPT ![b] = Identity]
      /\ r.locked = k.locked \ {k.map[b][c] : c \in Chans}
  BY ResetLocks DEF Seized
<1>2. r.locked = {}
  BY <1>1 DEF Seized
<1> QED BY <1>1, <1>2, FreshSeized

LEMMA RewindSeized ==
  ASSUME NEW k, NEW b \in Blocks, Seized(k, b), k.locked = {}, NEW r, r = rewind_seq(k, b)
  PROVE  Seized(r, b) /\ r.locked = {}
<1>1. IsPerf(r) /\ r.map = [k.map EXCEPT ![b] = Identity] /\ r.locked = k.locked
  BY RewindLocks DEF Seized
<1> QED BY <1>1, FreshSeized

LEMMA StoppedSeized ==
  ASSUME NEW k, NEW b \in Blocks, Seized(k, b), NEW r, r = Stopped(k, b)
  PROVE  Seized(r, b) /\ r.locked = {}
<1> DEFINE f == flush_note_queue(k, b)
<1>1. r = reset_sequence(f, b)
  BY DEF Stopped
<1>2. Seized(f, b)
  BY FlushQueueLocks, SameSeized DEF Seized
<1> HIDE DEF f
<1> QED BY <1>1, <1>2, ResetSeized

(* A lock of a free channel takes an unlocked one, if there is any.        *)
LEMMA LockSeized ==
  ASSUME SequencerAssumption, FairLocks, NEW b \in Blocks, Seized(perf, b),
         NEW c \in Chans, CHAN_LOCK_on(b, c)
  PROVE  Seized(perf', b)
<1> DEFINE p == Candidate(perf)
           m == lock_channel(perf, p)
           q == IF p = NoChan THEN c ELSE p
           map == [m.map EXCEPT ![b] = [m.map[b] EXCEPT ![c] = q]]
<1>0. perf.map[b][c] = c /\ c \notin perf.locked
  BY DEF CHAN_LOCK_on, LockKind, FairLocks
<1>1. perf' = [m EXCEPT !.map = map]
  BY DEF CHAN_LOCK_on
<1>2. p \in (Chans \ perf.locked) \cup {NoChan}
  BY CandidateUnlocked
<1>3. IsPerf(perf) /\ perf.map \in [Blocks -> [Chans -> Chans]] /\ perf.map[b] \in [Chans -> Chans]
  BY DEF Seized
<1>4. CASE p = NoChan
  <2>1. m = perf /\ q = c
    BY <1>4 DEF lock_channel
  <2> HIDE DEF m, q
  <2>2. map = perf.map
    BY <1>0, <1>3, <2>1
  <2> HIDE DEF map
  <2>3. SameLocks(perf, perf')
    BY <1>1, <1>3, <2>1, <2>2 DEF SameLocks, IsPerf
  <2> QED BY <2>3, SameSeized
<1>5. CASE p # NoChan
  <2>1. IsPerf(m) /\ m.map = perf.map /\ m.locked = perf.locked \cup {p}
    BY <1>3, <1>5, LockLocks
  <2>2. q = p /\ p \in Chans /\ p \notin perf.locked
    BY <1>2, <1>5
  <2> HIDE DEF m, q, p
  <2>3. map = [perf.map EXCEPT ![b] = [perf.map[b] EXCEPT ![c] = p]]
    BY <2>1, <2>2
  <2> HIDE DEF map
  <2>4. IsPerf(perf') /\ perf'.map = map /\ perf'.locked = perf.locked \cup {p}
    BY <1>1, <2>1 DEF IsPerf
  <2>5. /\ perf'.map \in [Blocks -> [Chans -> Chans]]
        /\ \A d \in Chans : perf'.map[b][d] = IF d = c THEN p ELSE perf.map[b][d]
    BY <1>3, <2>2, <2>3, <2>4
  <2>6. perf'.locked \subseteq Chans
    BY <2>2, <2>4 DEF Seized
  <2>7. \A d \in Chans : perf'.map[b][d] # d => perf'.map[b][d] \in perf'.locked
    BY <2>4, <2>5 DEF Seized
  <2>8. ASSUME NEW d \in Chans, NEW e \in Chans, perf'.map[b][d] = perf'.map[b][e],
               perf'.map[b][d] # d, perf'.map[b][e] # e
        PROVE  d = e
    BY <2>2, <2>5, <2>8 DEF Seized
  <2>9. ASSUME NEW o \in perf'.locked PROVE \E d \in Chans : perf'.map[b][d] = o
    <3>1. CASE o = p
      BY <2>5, <3>1
    <3>2. CASE o \in perf.locked
      BY <1>0, <2>5, <3>2 DEF Seized
    <3> QED BY <2>4, <3>1, <3>2
  <2> QED BY <2>4, <2>5, <2>6, <2>7, <2>8, <2>9 DEF Seized
<1> QED BY <1>4, <1>5

LEMMA UnlockSeized ==
  ASSUME FairLocks, NEW b \in Blocks, Seized(perf, b),
         NEW c \in Chans, CHAN_LOCK_off(b, c)
  PROVE  Seized(perf', b)
<1> DEFINE p == perf.map[b][c]
           f == flush_channel_notes(perf, c)
           m == release_channels(f, {p})
           map == [m.map EXCEPT ![b] = [m.map[b] EXCEPT ![c] = c]]
<1>0. p # c /\ p \in perf.locked
  BY DEF CHAN_LOCK_off, UnlockKind, FairLocks, Seized
<1>1. perf' = [m EXCEPT !.map = map]
  BY DEF CHAN_LOCK_off
<1>2. SameLocks(perf, f)
  BY FlushChannelLocks DEF Seized
<1> HIDE DEF f
<1>3. IsPerf(m) /\ m.map = perf.map /\ m.locked = perf.locked \ {p}
  BY <1>2, ReleaseLocks DEF SameLocks
<1> HIDE DEF m
<1>4. map = [perf.map EXCEPT ![b] = [perf.map[b] EXCEPT ![c] = c]]
  BY <1>3
<1> HIDE DEF map
<1>5. IsPerf(perf') /\ perf'.map = map /\ perf'.locked = perf.locked \ {p}
  BY <1>1, <1>3 DEF IsPerf
<1>6. perf.map \in [Blocks -> [Chans -> Chans]] /\ perf.map[b] \in [Chans -> Chans]
  BY DEF Seized
<1>7. /\ perf'.map \in [Blocks -> [Chans -> Chans]]
      /\ \A d \in Chans : perf'.map[b][d] = IF d = c THEN c ELSE perf.map[b][d]
  BY <1>4, <1>5, <1>6
<1>8. perf'.locked \subseteq Chans
  BY <1>5 DEF Seized
<1>9. ASSUME NEW d \in Chans, perf'.map[b][d] # d PROVE perf'.map[b][d] \in perf'.locked
  <2>1. d # c /\ perf'.map[b][d] = perf.map[b][d]
    BY <1>7, <1>9
  <2>2. perf.map[b][d] \in perf.locked /\ perf.map[b][d] # p
    BY <1>0, <1>9, <2>1 DEF Seized
  <2> QED BY <1>5, <2>1, <2>2
<1>10. ASSUME NEW d \in Chans, NEW e \in Chans, perf'.map[b][d] = perf'.map[b][e],
              perf'.map[b][d] # d, perf'.map[b][e] # e
       PROVE  d = e
  BY <1>7, <1>10 DEF Seized
<1>11. ASSUME NEW o \in perf'.locked PROVE \E d \in Chans : perf'.map[b][d] = o
  <2>1. o \in perf.locked /\ o # p
    BY <1>5
  <2>2. PICK d \in Chans : perf.map[b][d] = o
    BY <2>1 DEF Seized
  <2> QED BY <1>7, <2>1, <2>2
<1> QED BY <1>5, <1>7, <1>8, <1>9, <1>10, <1>11 DEF Seized

LEMMA ControlSeized ==
  ASSUME SequencerAssumption, FairLocks, NEW b \in Blocks, Seized(perf, b), XMIDI_control(b)
  PROVE  Seized(perf', b)
<1>1. ASSUME NEW c \in Chans, CHAN_PROTECT(c) PROVE Seized(perf', b)
  <2>1. PICK x : perf' = [perf EXCEPT !.protected = x]
    BY <1>1 DEF CHAN_PROTECT
  <2>2. SameLocks(perf, perf')
    BY <2>1 DEF Seized, SameLocks, IsPerf
  <2> QED BY <2>2, SameSeized
<1> QED BY <1>1, LockSeized, UnlockSeized DEF XMIDI_control

LEMMA LocksAppCall ==
  ASSUME SequencerAssumption, FairLocks, RegistryInv, LocksInv, AppCall
  PROVE  LocksInv'
<1>0. PICK b : Blocks = {b}
  BY DEF FairLocks
<1> DEFINE OK(k) == Seized(k, b)
<1>1. Seized(perf, b) /\ IsPerf(perf) /\ (status[b] # "playing" => perf.locked = {})
  BY <1>0 DEF LocksInv, Seized
<1>2. SUFFICES Seized(perf', b) /\ (status'[b] # "playing" => perf'.locked = {})
  BY <1>0 DEF LocksInv
<1>3. Registered \subseteq {b} /\ status \in [Blocks -> {"stopped", "playing", "done"}]
  BY <1>0 DEF Registered, RegistryInv, RegistryTypes
<1>4. CASE register_seq
  <2>1. b \notin Registered /\ perf' = rewind_seq(perf, b)
    BY <1>0, <1>4 DEF register_seq
  <2>2. perf.locked = {}
    BY <1>0, <1>1, <2>1 DEF RegistryInv, PlayingRegistered
  <2> QED BY <1>0, <1>1, <2>1, <2>2, RewindSeized
<1>5. CASE start_seq
  <2>1. PICK k : /\ k = IF status[b] = "playing" THEN Stopped(perf, b) ELSE perf
                 /\ perf' = rewind_seq(k, b)
    BY <1>3, <1>5 DEF start_seq
  <2>2. Seized(k, b) /\ k.locked = {}
    <3>1. CASE status[b] = "playing"
      BY <1>0, <1>1, <2>1, <3>1, StoppedSeized
    <3>2. CASE status[b] # "playing"
      BY <1>1, <2>1, <3>2
    <3> QED BY <3>1, <3>2
  <2> QED BY <1>0, <2>1, <2>2, RewindSeized
<1>6. CASE stop_seq
  <2>1. perf' = Stopped(perf, b)
    BY <1>3, <1>6 DEF stop_seq
  <2> QED BY <1>0, <1>1, <2>1, StoppedSeized
<1>7. CASE resume_seq
  <2>1. perf' = perf /\ status[b] = "stopped"
    BY <1>3, <1>7 DEF resume_seq
  <2> QED BY <1>1, <2>1
<1>8. CASE release_seq
  BY <1>1, <1>8 DEF release_seq
<1>9. CASE branch_index
  <2>1. perf' = flush_note_queue(perf, b) /\ UNCHANGED status
    BY <1>3, <1>9 DEF branch_index, life
  <2>2. SameLocks(perf, perf')
    BY <1>1, <2>1, FlushQueueLocks
  <2> QED BY <1>1, <2>1, <2>2, SameSeized DEF SameLocks
<1>10. CASE map_seq_channel \/ app_lock_channel \/ app_release_channel \/ set_control_val
  BY <1>10 DEF map_seq_channel, app_lock_channel, app_release_channel, set_control_val,
               CanCall, FairLocks
<1> QED BY <1>4, <1>5, <1>6, <1>7, <1>8, <1>9, <1>10 DEF AppCall

LEMMA LocksService ==
  ASSUME SequencerAssumption, FairLocks, RegistryInv, LocksInv, Service
  PROVE  LocksInv'
<1>0. PICK b : Blocks = {b}
  BY DEF FairLocks
<1>1. Seized(perf, b) /\ IsPerf(perf) /\ (status[b] # "playing" => perf.locked = {})
  BY <1>0 DEF LocksInv, Seized
<1>2. SUFFICES Seized(perf', b) /\ (status'[b] # "playing" => perf'.locked = {})
  BY <1>0 DEF LocksInv
<1>3. CASE UNCHANGED status /\ SameLocks(perf, perf')
  BY <1>1, <1>3, SameSeized DEF SameLocks
<1>4. CASE serve \/ pass_sequence \/ delay \/ callback_trigger \/ return_callback
  BY <1>1, <1>4 DEF serve, pass_sequence, delay, callback_trigger, return_callback, life
<1>5. CASE process_tick
  <2>1. UNCHANGED status
    BY <1>5 DEF process_tick, life
  <2>2. perf' = perf \/ perf' = Expired(perf, sequence_states[seq])
    BY <1>5 DEF process_tick
  <2>3. SameLocks(perf, perf')
    BY <1>1, <2>2, ExpiredLocks DEF SameLocks
  <2> QED BY <1>3, <2>1, <2>3
<1>6. ASSUME phase = "event" PROVE st = b /\ status[st] = "playing"
  BY <1>0, <1>6 DEF RegistryInv, RegistryTypes, EventPlays
<1>7. CASE note_on
  <2>1. PICK s, c, n, d :
          perf' = [Sounded(perf, st, s, c, n, d) EXCEPT !.count[st] = (@ + 1) % CountMod]
    BY <1>7 DEF note_on
  <2> DEFINE m == Sounded(perf, st, s, c, n, d)
             count == [m.count EXCEPT ![st] = (m.count[st] + 1) % CountMod]
  <2>2. perf' = [m EXCEPT !.count = count]
    BY <2>1
  <2>3. SameLocks(perf, m)
    BY <1>1, SoundedLocks
  <2> HIDE DEF m, count
  <2>4. SameLocks(perf, perf')
    BY <2>2, <2>3, CountLocks
  <2> QED BY <1>3, <1>7, <2>4 DEF note_on, InLoop, life
<1>8. CASE note_on_overflow
  <2>1. PICK c, n, d : perf' = Sounded(perf, st, 1, c, n, d)
    BY <1>8 DEF note_on_overflow
  <2>2. SameLocks(perf, perf')
    BY <1>1, <2>1, SoundedLocks
  <2> QED BY <1>3, <1>8, <2>2 DEF note_on_overflow, InLoop, life
<1>9. CASE note_off
  <2>1. PICK D : perf' = [NoteOffs(perf, D) EXCEPT !.count[st] = (@ - 1) % CountMod]
    BY <1>9 DEF note_off
  <2> DEFINE m == NoteOffs(perf, D)
             count == [m.count EXCEPT ![st] = (m.count[st] - 1) % CountMod]
  <2>2. perf' = [m EXCEPT !.count = count]
    BY <2>1
  <2>3. SameLocks(perf, m)
    BY <1>1, NoteOffsLocks
  <2> HIDE DEF m, count
  <2>4. SameLocks(perf, perf')
    BY <2>2, <2>3, CountLocks
  <2> QED BY <1>3, <1>9, <2>4 DEF note_off, InLoop, life
<1>10. CASE control
  <2>1. st = b /\ status[b] = "playing" /\ UNCHANGED status /\ XMIDI_control(b)
    BY <1>6, <1>10 DEF control, InLoop, life
  <2> QED BY <1>0, <1>1, <2>1, ControlSeized
<1>11. CASE end_of_track
  <2>1. st = b /\ perf' = reset_sequence(perf, b)
    BY <1>6, <1>11 DEF end_of_track
  <2> QED BY <1>0, <1>1, <2>1, ResetSeized
<1> QED BY <1>4, <1>5, <1>7, <1>8, <1>9, <1>10, <1>11 DEF Service, Event

LEMMA LocksInit == ASSUME SequencerAssumption, Init PROVE LocksInv
<1> DEFINE queue == [b \in Blocks |-> [s \in Slots |-> Free]]
           count == [b \in Blocks |-> 0]
           map == [b \in Blocks |-> Identity]
           active == [p \in Chans |-> 0]
<1>1. perf = [queue |-> queue, count |-> count, map |-> map, active |-> active,
              locked |-> {}, protected |-> {}, sounding |-> {}]
  BY DEF Init
<1>2. Identity \in [Chans -> Chans] /\ \A c \in Chans : Identity[c] = c
  BY DEF Identity
<1>3. map \in [Blocks -> [Chans -> Chans]] /\ \A b \in Blocks : map[b] = Identity
  BY <1>2
<1> HIDE DEF queue, count, map, active
<1>4. IsPerf(perf) /\ perf.map = map /\ perf.locked = {}
  BY <1>1 DEF IsPerf
<1> QED BY <1>2, <1>3, <1>4 DEF LocksInv, Seized

LEMMA LocksNext ==
  FairLocks /\ RegistryInv /\ LocksInv /\ [Next]_vars => LocksInv'
<1>1. CASE UNCHANGED vars
  BY <1>1 DEF vars, life, LocksInv
<1>2. ASSUME FairLocks, RegistryInv, LocksInv, Next PROVE LocksInv'
  BY <1>2, LocksAppCall, LocksService, SequencerAssumption DEF Next
<1> QED BY <1>1, <1>2

(* Of one song that unlocks what it locked, whatever channels the scan     *)
(* finds: a seized channel has one owner, through protections, stops,      *)
(* restarts and ends, and once the song does not play nothing is locked.   *)
THEOREM LocksConsistentAlways == FairLocks /\ Spec => []LocksConsistent
<1>1. Init => LocksInv
  BY LocksInit, SequencerAssumption
<1>2. FairLocks /\ RegistryInv /\ LocksInv /\ [Next]_vars => LocksInv'
  BY LocksNext
<1>3. FairLocks /\ LocksInv => LocksConsistent
  <2> SUFFICES ASSUME FairLocks, LocksInv PROVE LocksConsistent
    OBVIOUS
  <2>0. PICK b : Blocks = {b}
    BY DEF FairLocks
  <2>1. Seized(perf, b) /\ (status[b] # "playing" => perf.locked = {})
    BY <2>0 DEF LocksInv
  <2>2. ASSUME NEW p \in perf.locked
        PROVE  Cardinality({d \in Blocks \X Chans :
                  /\ status[d[1]] = "playing" /\ d[2] # p /\ perf.map[d[1]][d[2]] = p}) <= 1
    <3> DEFINE S == {d \in Blocks \X Chans :
                       /\ status[d[1]] = "playing" /\ d[2] # p /\ perf.map[d[1]][d[2]] = p}
    <3>1. CASE S = {}
      BY <3>1, FS_EmptySet
    <3>2. CASE S # {}
      <4>1. PICK e : e \in S
        BY <3>2
      <4>2. ASSUME NEW d \in S PROVE d = e
        <5>1. /\ d = <<d[1], d[2]>> /\ d[1] = b /\ d[2] \in Chans
              /\ d[2] # p /\ perf.map[b][d[2]] = p
          BY <2>0
        <5>2. /\ e = <<e[1], e[2]>> /\ e[1] = b /\ e[2] \in Chans
              /\ e[2] # p /\ perf.map[b][e[2]] = p
          BY <2>0, <4>1
        <5>3. d[2] = e[2]
          BY <2>1, <5>1, <5>2 DEF Seized
        <5> QED BY <5>1, <5>2, <5>3
      <4>3. S = {e}
        BY <4>1, <4>2
      <4> HIDE DEF S
      <4>4. Cardinality({e}) = 1
        BY FS_Singleton
      <4>5. Cardinality(S) <= 1
        BY <4>3, <4>4
      <4> QED BY <4>5 DEF S
    <3> QED BY <3>1, <3>2
  <2>3. AllReleased
    BY <2>0, <2>1 DEF AllReleased
  <2> QED BY <2>2, <2>3 DEF LocksConsistent, OwnerUnique
<1>4. FairLocks => []FairLocks
  <2>1. FairLocks => FairLocks'
    BY DEF FairLocks
  <2> QED BY <2>1, PTL
<1> HIDE DEF FairLocks
<1> QED BY <1>1, <1>2, <1>3, <1>4, RegistryAlways, PTL DEF Spec

(* No unlock, stop or end of track frees a channel that a song goes on     *)
(* playing on.                                                             *)
THEOREM LockKeptAlways == FairLocks /\ Spec => LockKept
<1> DEFINE Kept == \A b \in Blocks, c \in Chans :
             LET p == perf.map[b][c] IN
             /\ p # c /\ p \in perf.locked
             /\ status[b] = "playing" /\ status'[b] = "playing"
             /\ perf'.map[b][c] = p
             => p \in perf'.locked
<1>1. Init => LocksInv
  BY LocksInit, SequencerAssumption
<1>2. FairLocks /\ RegistryInv /\ LocksInv /\ [Next]_vars => LocksInv'
  BY LocksNext
<1>3. LocksInv' => Kept
  BY DEF LocksInv, Seized
<1>4. FairLocks => []FairLocks
  <2>1. FairLocks => FairLocks'
    BY DEF FairLocks
  <2> QED BY <2>1, PTL
<1>5. FairLocks /\ RegistryInv /\ LocksInv /\ [Next]_vars => [Kept]_vars
  BY <1>2, <1>3
<1>6. []([Kept]_vars) => LockKept
  BY PTL DEF LockKept
<1> HIDE DEF FairLocks, Kept
<1> QED BY <1>1, <1>2, <1>4, <1>5, <1>6, RegistryAlways, PTL DEF Spec
=============================================================================
