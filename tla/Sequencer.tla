----------------------------- MODULE Sequencer -----------------------------
(***************************************************************************)
(* The sequencer: sequence handles and their lifecycle, the timer service  *)
(* that walks the handles and runs ticks, the note queue of each sequence, *)
(* and the channel locks that let several sequences share 16 channels.     *)
(*                                                                         *)
(* An application owns state blocks (struct sequence_state) and registers  *)
(* them under handles.  The service runs one event at a time; the event    *)
(* data is arbitrary, so an event is any one of the kinds in Events.  The  *)
(* only event that lets the application in is the callback trigger: API    *)
(* calls happen between two services or inside a callback.                 *)
(*                                                                         *)
(* perf is what the notes and channels hold.  Handlers that call several   *)
(* helpers in turn compose operators from perf to perf.                    *)
(***************************************************************************)
EXTENDS Integers, FiniteSets

CONSTANTS
  NSEQS,       \* 8: handles are 0 .. NSEQS-1
  NUM_CHANS,   \* 16
  MAX_NOTES,   \* 32: slots of a note queue
  Blocks,      \* the state blocks the application owns
  Notes,       \* key numbers
  Durations,   \* durations of notes, in ticks, at least 1
  CountMod,    \* 2^16: note_count is a uint16_t
  ActiveMod,   \* 2^32: active_notes[] are uint32_t
  ByteMod,     \* 2^8: cand_notes is a uint8_t
  Events,      \* kinds of events the songs contain
  Calls,       \* library calls the application makes
  Null,        \* no block
  Free         \* an unused slot (chan = 0xFF)

EventKinds == {"note_on", "overflow", "note_off", "lock", "relock", "unlock",
               "stray_unlock", "protect", "unprotect", "callback", "end"}
CallKinds == {"register", "start", "stop", "resume", "release", "branch",
              "map", "lock_channel", "release_channel", "control"}

ASSUME SequencerAssumption ==
  /\ NSEQS \in Nat \ {0} /\ NUM_CHANS \in Nat \ {0} /\ MAX_NOTES \in Nat \ {0}
  /\ Durations \subseteq Nat \ {0}
  /\ CountMod \in Nat /\ CountMod > 2 * MAX_NOTES
  /\ ActiveMod \in Nat \ {0} /\ ByteMod \in Nat \ {0}
  /\ Null \notin Blocks
  /\ Free \notin [chan : 0 .. NUM_CHANS - 1, num : Notes, time : Nat]
  /\ Events \subseteq EventKinds /\ Calls \subseteq CallKinds

Handles == 0 .. NSEQS - 1
Chans   == 0 .. NUM_CHANS - 1
Slots   == 1 .. MAX_NOTES
NoChan  == -1

VARIABLES
  sequence_states,  \* handle -> block or Null
  sequence_count,
  seq_handle,       \* the fields of each block
  status,
  seq_started,
  post_release,
  perf,             \* queue, count, map of each block; active, locked,
                    \* protected of each channel; sounding, the output
  phase,            \* the service: "idle", "scan", "event" or "callback"
  seq,              \* the handle it is at
  st                \* the block whose events it reads

registry == <<sequence_states, sequence_count, seq_handle>>
life     == <<status, seq_started, post_release>>
service  == <<phase, seq, st>>
vars     == <<registry, life, perf, service>>

Registered == {sequence_states[h] : h \in Handles} \ {Null}
Identity == [c \in Chans |-> c]

----------------------------------------------------------------------------
(* Notes: the queue, the counters and the note-offs sent for its entries.  *)

Entry == [chan : Chans, num : Notes, time : Nat]
Occupied(k, b) == {s \in Slots : k.queue[b][s] # Free}
FreeSlots(k, b) == Slots \ Occupied(k, b)
Phys(k, b, s) == k.map[b][k.queue[b][s].chan]
Lowest(S) == CHOOSE s \in S : \A t \in S : s <= t

(* Free the slots D, a set of <<block, slot>>, each with a note-off sent   *)
(* to the channel its logical channel is mapped to now.                    *)
NoteOffs(k, D) ==
  [k EXCEPT
     !.queue = [b \in Blocks |-> [s \in Slots |->
                  IF <<b, s>> \in D THEN Free ELSE @[b][s]]],
     !.active = [p \in Chans |->
        (@[p] - Cardinality({d \in D : Phys(k, d[1], d[2]) = p})) % ActiveMod],
     !.sounding = @ \ {<<Phys(k, d[1], d[2]), k.queue[d[1]][d[2]].num>> : d \in D}]

flush_note_queue(k, b) ==
  [NoteOffs(k, {b} \X Occupied(k, b)) EXCEPT !.count[b] = 0]

(* Every registered sequence that counts notes loses those on logical      *)
(* channel c, and its count becomes 0 whatever its queue still holds.      *)
flush_channel_notes(k, c) ==
  LET B == {b \in Registered : k.count[b] # 0} IN
  [NoteOffs(k, {d \in B \X Slots : /\ k.queue[d[1]][d[2]] # Free
                                   /\ k.queue[d[1]][d[2]].chan = c})
     EXCEPT !.count = [b \in Blocks |-> IF b \in B THEN 0 ELSE @[b]]]

(* The part of rewind_seq that concerns notes and channels. *)
rewind_seq(k, b) ==
  [k EXCEPT !.map[b] = Identity,
            !.queue[b] = [s \in Slots |-> Free],
            !.count[b] = 0]

----------------------------------------------------------------------------
(* Channel locks. *)

(* The scan of lock_channel over the channels outside Excluded, from the   *)
(* top down: each candidate's notes are kept in a byte.                    *)
Scan(k, Excluded) ==
  LET pick[i \in 0 .. NUM_CHANS] ==
        IF i = NUM_CHANS THEN NoChan
        ELSE LET cand == pick[i + 1] IN
             IF /\ i \notin Excluded
                /\ cand # NoChan => k.active[i] >= k.active[cand] % ByteMod
             THEN i ELSE cand
  IN pick[0]

(* Mutant of Candidate: locked channels are not skipped. *)
candidate_ignores_locks(k) == Scan(k, k.protected)

(* Protected channels are skipped first and considered when nothing else   *)
(* is left.                                                                *)
Candidate(k) ==
  LET unprotected == Scan(k, k.locked \cup k.protected) IN
  IF unprotected # NoChan THEN unprotected ELSE Scan(k, k.locked)

(* lock_channel once it chose p; nothing happens when there is no p. *)
lock_channel(k, p) ==
  IF p = NoChan THEN k
  ELSE [flush_channel_notes(k, p) EXCEPT !.active[p] = 0, !.locked = @ \cup {p}]

(* Release the channels R: those not locked are left alone. *)
release_channels(k, R) ==
  LET L == R \cap k.locked IN
  [k EXCEPT !.locked = @ \ L,
            !.active = [p \in Chans |-> IF p \in L THEN 0 ELSE @[p]],
            !.sounding = @ \ (L \X Notes)]

(* The logs of Channel Lock, Lock Protect and Voice Protect are cells no   *)
(* controller event writes (ctrl_hash points elsewhere): they hold 0xFF,   *)
(* so the loop takes every branch on every channel.  The flush of channel  *)
(* 0 zeroes every note_count, and the later flushes find nothing to do.    *)
reset_sequence(k, b) ==
  [release_channels(flush_channel_notes(k, 0), {k.map[b][c] : c \in Chans})
     EXCEPT !.map[b] = Identity, !.protected = {}]

----------------------------------------------------------------------------
Init ==
  /\ sequence_states = [h \in Handles |-> Null]
  /\ sequence_count = 0
  /\ seq_handle = [b \in Blocks |-> 0]
  /\ status = [b \in Blocks |-> "stopped"]
  /\ seq_started = [b \in Blocks |-> 0]
  /\ post_release = [b \in Blocks |-> 0]
  /\ perf = [queue |-> [b \in Blocks |-> [s \in Slots |-> Free]],
             count |-> [b \in Blocks |-> 0],
             map |-> [b \in Blocks |-> Identity],
             active |-> [p \in Chans |-> 0],
             locked |-> {},
             protected |-> {},
             sounding |-> {}]
  /\ phase = "idle" /\ seq = 0 /\ st = Null

(* The service is done with the handle it is at. *)
LeaveSequence ==
  /\ st' = Null
  /\ IF seq + 1 < NSEQS THEN phase' = "scan" /\ seq' = seq + 1
                        ELSE phase' = "idle" /\ seq' = 0

----------------------------------------------------------------------------
(* The application's calls. *)

CanCall(call) == phase \in {"idle", "callback"} /\ call \in Calls

register_seq ==
  /\ CanCall("register")
  /\ \E b \in Blocks \ Registered :
       LET free == {h \in Handles : sequence_states[h] = Null} IN
       /\ free # {}
       /\ sequence_states' = [sequence_states EXCEPT ![Lowest(free)] = b]
       /\ seq_handle' = [seq_handle EXCEPT ![b] = Lowest(free)]
       /\ post_release' = [post_release EXCEPT ![b] = 0]
       /\ seq_started' = [seq_started EXCEPT ![b] = 0]
       /\ status' = [status EXCEPT ![b] = "stopped"]
       /\ sequence_count' = sequence_count + 1
       /\ perf' = rewind_seq(perf, b)
  /\ UNCHANGED service

Stopped(k, b) == reset_sequence(flush_note_queue(k, b), b)

(* Mutant of start_seq: a playing sequence is not stopped first. *)
start_without_stop ==
  /\ CanCall("start")
  /\ \E b \in Registered :
       /\ perf' = rewind_seq(perf, b)
       /\ status' = [status EXCEPT ![b] = "playing"]
       /\ seq_started' = [seq_started EXCEPT ![b] = 1]
  /\ UNCHANGED <<registry, post_release, service>>

start_seq ==
  /\ CanCall("start")
  /\ \E b \in Registered :
       /\ perf' = rewind_seq(IF status[b] = "playing" THEN Stopped(perf, b)
                                                      ELSE perf, b)
       /\ status' = [status EXCEPT ![b] = "playing"]
       /\ seq_started' = [seq_started EXCEPT ![b] = 1]
  /\ UNCHANGED <<registry, post_release, service>>

stop_seq ==
  /\ CanCall("stop")
  /\ \E b \in Registered :
       /\ status[b] = "playing"
       /\ perf' = Stopped(perf, b)
       /\ status' = [status EXCEPT ![b] = "stopped"]
  /\ UNCHANGED <<registry, seq_started, post_release, service>>

(* restore_sequence locks nothing: the log of Channel Lock reads -1.  It   *)
(* sends the logged controllers again, which plays and frees no note.      *)
resume_seq ==
  /\ CanCall("resume")
  /\ \E b \in Registered :
       /\ status[b] = "stopped" /\ seq_started[b] # 0
       /\ status' = [status EXCEPT ![b] = "playing"]
  /\ UNCHANGED <<registry, seq_started, post_release, perf, service>>

(* Mutant of FreeHandle: sequence_count is not decremented. *)
free_handle_uncounted(h) ==
  /\ sequence_states' = [sequence_states EXCEPT ![h] = Null]
  /\ UNCHANGED <<sequence_count, seq_handle>>

FreeHandle(h) ==
  /\ sequence_states' = [sequence_states EXCEPT ![h] = Null]
  /\ sequence_count' = sequence_count - 1
  /\ UNCHANGED seq_handle

release_seq ==
  /\ CanCall("release")
  /\ \E h \in Handles :
       LET b == sequence_states[h] IN
       /\ b # Null
       /\ \/ /\ status[b] = "playing"
             /\ post_release' = [post_release EXCEPT ![b] = 1]
             /\ UNCHANGED registry
          \/ /\ status[b] # "playing"
             /\ FreeHandle(h)
             /\ UNCHANGED post_release
  /\ UNCHANGED <<status, seq_started, perf, service>>

(* The branch itself moves the event pointer; its notes are flushed. *)
branch_index ==
  /\ CanCall("branch")
  /\ \E b \in Registered : perf' = flush_note_queue(perf, b)
  /\ UNCHANGED <<registry, life, service>>

map_seq_channel ==
  /\ CanCall("map")
  /\ \E b \in Registered, c \in Chans, p \in Chans :
       perf' = [perf EXCEPT !.map[b][c] = p]
  /\ UNCHANGED <<registry, life, service>>

(* AIL_lock_channel and AIL_release_channel called by the application. *)
app_lock_channel ==
  /\ CanCall("lock_channel")
  /\ perf' = lock_channel(perf, Candidate(perf))
  /\ UNCHANGED <<registry, life, service>>

app_release_channel ==
  /\ CanCall("release_channel")
  /\ \E p \in Chans : perf' = release_channels(perf, {p})
  /\ UNCHANGED <<registry, life, service>>

----------------------------------------------------------------------------
(* Controllers that concern channels, in a song or set by the application. *)

(* A song that locks a channel it has mapped elsewhere, or that is locked  *)
(* itself, "relocks" it; one that unlocks a channel it did not map makes a *)
(* "stray" unlock.                                                         *)
LockKind(b, c) ==
  IF perf.map[b][c] = c /\ c \notin perf.locked THEN "lock" ELSE "relock"
UnlockKind(b, c) == IF perf.map[b][c] # c THEN "unlock" ELSE "stray_unlock"

CHAN_LOCK_on(b, c) ==
  LET p == Candidate(perf) IN
  /\ LockKind(b, c) \in Events
  /\ perf' = [lock_channel(perf, p)
                EXCEPT !.map[b][c] = IF p = NoChan THEN c ELSE p]

(* Mutant of CHAN_LOCK_off: the logical channel's number is released. *)
unlock_releases_logical(b, c) ==
  /\ UnlockKind(b, c) \in Events
  /\ perf' = [release_channels(flush_channel_notes(perf, c), {c})
                EXCEPT !.map[b][c] = c]

CHAN_LOCK_off(b, c) ==
  /\ UnlockKind(b, c) \in Events
  /\ perf' = [release_channels(flush_channel_notes(perf, c), {perf.map[b][c]})
                EXCEPT !.map[b][c] = c]

CHAN_PROTECT(c) ==
  \/ "protect" \in Events /\ perf' = [perf EXCEPT !.protected = @ \cup {c}]
  \/ "unprotect" \in Events /\ perf' = [perf EXCEPT !.protected = @ \ {c}]

XMIDI_control(b) ==
  \E c \in Chans : CHAN_LOCK_on(b, c) \/ CHAN_LOCK_off(b, c) \/ CHAN_PROTECT(c)

set_control_val ==
  /\ CanCall("control")
  /\ \E b \in Registered : XMIDI_control(b)
  /\ UNCHANGED <<registry, life, service>>

----------------------------------------------------------------------------
(* The service. *)

serve ==
  /\ phase = "idle"
  /\ sequence_count # 0
  /\ phase' = "scan" /\ seq' = 0
  /\ UNCHANGED <<registry, life, perf, st>>

Ready == sequence_states[seq] # Null /\ status[sequence_states[seq]] = "playing"

(* The handle has nothing to play, its tempo makes no tick due, or it had  *)
(* its ticks: the service goes on to the next.                             *)
pass_sequence ==
  /\ phase = "scan"
  /\ LeaveSequence
  /\ UNCHANGED <<registry, life, perf>>

(* Mutant of Expired: the scan ends at the first free slot. *)
expired_up_to_hole(k, b) ==
  LET reach == {s \in Slots : \A t \in 1 .. s : k.queue[b][t] # Free}
      due == {s \in reach : k.queue[b][s].time = 0}
      aged == [k EXCEPT !.queue[b] = [s \in Slots |->
                 IF s \in reach THEN [@[s] EXCEPT !.time = @ - 1] ELSE @[s]]]
  IN [NoteOffs(aged, {b} \X due)
        EXCEPT !.count[b] = (@ - Cardinality(due)) % CountMod]

(* All entries age by a tick, and those past their time are turned off. *)
Due(k, b) == {s \in Occupied(k, b) : k.queue[b][s].time = 0}

Older(q) ==
  [s \in Slots |-> IF q[s] = Free THEN Free ELSE [q[s] EXCEPT !.time = @ - 1]]

Expired(k, b) ==
  [NoteOffs([k EXCEPT !.queue[b] = Older(@)], {b} \X Due(k, b))
     EXCEPT !.count[b] = (@ - Cardinality(Due(k, b))) % CountMod]

(* The queue is looked at only when note_count says there is a note.  The  *)
(* interval may have run out, or the tick may end here; afterwards         *)
(* tempo_error may hold another tick for the same handle.                  *)
process_tick ==
  /\ phase = "scan" /\ Ready
  /\ LET b == sequence_states[seq] IN
     /\ perf' = IF perf.count[b] = 0 THEN perf ELSE Expired(perf, b)
     /\ \/ phase' = "event" /\ st' = b
        \/ UNCHANGED <<phase, st>>
  /\ UNCHANGED <<registry, life, seq>>

(* An event that leaves the event loop where it is. *)
InLoop == phase = "event" /\ UNCHANGED <<registry, life, service>>

Sounded(k, b, s, c, n, d) ==
  LET p == k.map[b][c] IN
  [k EXCEPT !.queue[b][s] = [chan |-> c, num |-> n, time |-> d - 1],
            !.active[p] = (@ + 1) % ActiveMod,
            !.sounding = @ \cup {<<p, n>>}]

(* Mutant of note_on: the note counter is not bumped. *)
note_on_uncounted ==
  /\ InLoop /\ "note_on" \in Events
  /\ \E c \in Chans \ perf.locked, n \in Notes, d \in Durations :
       /\ FreeSlots(perf, st) # {}
       /\ perf' = Sounded(perf, st, Lowest(FreeSlots(perf, st)), c, n, d)

note_on ==
  /\ InLoop /\ "note_on" \in Events
  /\ \E c \in Chans \ perf.locked, n \in Notes, d \in Durations :
       /\ FreeSlots(perf, st) # {}
       /\ perf' = [Sounded(perf, st, Lowest(FreeSlots(perf, st)), c, n, d)
                     EXCEPT !.count[st] = (@ + 1) % CountMod]

(* Mutant of note_on_overflow: the overwriting note is counted again. *)
overflow_counted ==
  /\ InLoop /\ "overflow" \in Events
  /\ \E c \in Chans \ perf.locked, n \in Notes, d \in Durations :
       /\ FreeSlots(perf, st) = {}
       /\ perf' = [Sounded(perf, st, 1, c, n, d)
                     EXCEPT !.count[st] = (@ + 1) % CountMod]

(* No slot is free: the first is overwritten, and its note is forgotten. *)
note_on_overflow ==
  /\ InLoop /\ "overflow" \in Events
  /\ \E c \in Chans \ perf.locked, n \in Notes, d \in Durations :
       /\ FreeSlots(perf, st) = {}
       /\ perf' = Sounded(perf, st, 1, c, n, d)

(* A note-off event, or a note-on of velocity 0: the first entry of that   *)
(* key, if any.                                                            *)
note_off ==
  /\ InLoop /\ "note_off" \in Events
  /\ \E c \in Chans \ perf.locked, n \in Notes :
       LET hits == {s \in Occupied(perf, st) : /\ perf.queue[st][s].chan = c
                                               /\ perf.queue[st][s].num = n} IN
       /\ hits # {}
       /\ perf' = [NoteOffs(perf, {<<st, Lowest(hits)>>})
                     EXCEPT !.count[st] = (@ - 1) % CountMod]

control ==
  /\ InLoop
  /\ XMIDI_control(st)

(* An interval byte ends the tick. *)
delay ==
  /\ phase = "event"
  /\ phase' = "scan" /\ st' = Null
  /\ UNCHANGED <<registry, life, perf, seq>>

end_of_track ==
  /\ phase = "event" /\ "end" \in Events
  /\ perf' = reset_sequence(perf, st)
  /\ status' = [status EXCEPT ![st] = "done"]
  /\ IF post_release[st] # 0 THEN FreeHandle(seq_handle[st])
                             ELSE UNCHANGED registry
  /\ LeaveSequence
  /\ UNCHANGED <<seq_started, post_release>>

callback_trigger ==
  /\ phase = "event" /\ "callback" \in Events
  /\ phase' = "callback"
  /\ UNCHANGED <<registry, life, perf, seq, st>>

(* Mutant of return_callback: the loop goes on whatever the status is. *)
return_unchecked ==
  /\ phase = "callback"
  /\ phase' = "event"
  /\ UNCHANGED <<registry, life, perf, seq, st>>

return_callback ==
  /\ phase = "callback"
  /\ IF status[st] = "playing" THEN phase' = "event" /\ UNCHANGED <<seq, st>>
                               ELSE LeaveSequence
  /\ UNCHANGED <<registry, life, perf>>

----------------------------------------------------------------------------
AppCall == \/ register_seq \/ start_seq \/ stop_seq \/ resume_seq \/ release_seq
           \/ branch_index \/ map_seq_channel \/ app_lock_channel
           \/ app_release_channel \/ set_control_val

Event == \/ note_on \/ note_on_overflow \/ note_off \/ control \/ delay
         \/ end_of_track \/ callback_trigger

Service == serve \/ pass_sequence \/ process_tick \/ Event \/ return_callback

Next == AppCall \/ Service

Spec == Init /\ [][Next]_vars

(* The timer keeps calling the service and a service goes on to its end; a *)
(* sequence whose tempo is not 0 gets ticks again and again; a tick's      *)
(* events are followed by an interval; callbacks return.                   *)
Fairness ==
  /\ WF_vars(serve) /\ WF_vars(pass_sequence) /\ WF_vars(return_callback)
  /\ SF_vars(delay)
  /\ \A h \in Handles : SF_vars(seq = h /\ process_tick)

FairSpec == Spec /\ Fairness

----------------------------------------------------------------------------
(* The variables have their types. *)
TypeOK ==
  /\ sequence_states \in [Handles -> Blocks \cup {Null}]
  /\ sequence_count \in 0 .. NSEQS
  /\ seq_handle \in [Blocks -> Handles]
  /\ status \in [Blocks -> {"stopped", "playing", "done"}]
  /\ seq_started \in [Blocks -> {0, 1}]
  /\ post_release \in [Blocks -> {0, 1}]
  /\ perf.queue \in [Blocks -> [Slots -> Entry \cup {Free}]]
  /\ perf.count \in [Blocks -> 0 .. CountMod - 1]
  /\ perf.map \in [Blocks -> [Chans -> Chans]]
  /\ perf.active \in [Chans -> 0 .. ActiveMod - 1]
  /\ perf.locked \subseteq Chans
  /\ perf.protected \subseteq Chans
  /\ perf.sounding \subseteq Chans \X Notes
  /\ phase \in {"idle", "scan", "event", "callback"}
  /\ seq \in Handles
  /\ st \in Blocks \cup {Null}
  /\ phase \in {"event", "callback"} <=> st # Null

(* The two service guards together: a playing sequence is registered, so   *)
(* the service will see it.                                                *)
PlayingRegistered ==
  \A b \in Blocks : status[b] = "playing" => b \in Registered

(* Registration is consistent however releases, ends of track and          *)
(* callbacks interleave: sequence_count counts the handles in use (the     *)
(* service gives up when it is 0), and every registered block carries the  *)
(* handle it is registered under, which the delayed release relies on.     *)
HandlesConsistent ==
  /\ PlayingRegistered
  /\ sequence_count = Cardinality({h \in Handles : sequence_states[h] # Null})
  /\ \A h \in Handles : sequence_states[h] # Null => seq_handle[sequence_states[h]] = h

(* The service never reads events of a block the application was told is   *)
(* released, although a callback may stop, release and register blocks     *)
(* under the service's feet.                                               *)
EventOnLive ==
  phase = "event" => status[st] = "playing" /\ sequence_states[seq_handle[st]] = st

(* note_count, read as a signed number, never says more than the queue     *)
(* holds, and says less by at most the slots there are, whatever flushes,  *)
(* overflows and late note-offs did to it.                                 *)
CountNeverOver ==
  \A b \in Blocks : \E d \in 0 .. MAX_NOTES :
    perf.count[b] = (Cardinality(Occupied(perf, b)) - d) % CountMod

(* note_count is the number of queued notes: the expiry of notes depends   *)
(* on it (the comment at XMIDI32.ASM:1113 reads it as "any notes on?").    *)
CountExact ==
  \A b \in Blocks : perf.count[b] = Cardinality(Occupied(perf, b))

(* Every note that sounds is queued in a playing sequence, which will turn *)
(* it off: nothing is left hanging by a stop, a restart or a branch.       *)
NoStuckNote ==
  \A key \in perf.sounding : \E b \in Blocks : \E s \in Occupied(perf, b) :
    /\ status[b] = "playing"
    /\ Phys(perf, b, s) = key[1]
    /\ perf.queue[b][s].num = key[2]

(* active_notes[] is the number of queued notes mapped to each channel.    *)
ActiveExact ==
  \A p \in Chans :
    perf.active[p] = Cardinality({d \in Blocks \X Slots :
                        /\ perf.queue[d[1]][d[2]] # Free
                        /\ Phys(perf, d[1], d[2]) = p}) % ActiveMod

(* Both counts, kept by increments in five places, say what the queues     *)
(* hold.                                                                   *)
CountsExact == CountExact /\ ActiveExact

(* Every queued note leaves the queue in the end. *)
NotesEnd ==
  \A b \in Blocks, s \in Slots :
    perf.queue[b][s] # Free ~> perf.queue[b][s] = Free

(* A locked channel has at most one logical channel mapped onto it from    *)
(* elsewhere: nobody shares a seized channel.                              *)
OwnerUnique ==
  \A p \in perf.locked :
    Cardinality({d \in Blocks \X Chans :
       /\ status[d[1]] = "playing" /\ d[2] # p /\ perf.map[d[1]][d[2]] = p}) <= 1

(* Once no sequence plays, no channel is left locked.                      *)
AllReleased ==
  (\A b \in Blocks : status[b] # "playing") => perf.locked = {}

(* Who holds the locks, however songs lock, unlock, end and restart: a     *)
(* seized channel has one owner and is given back when nobody plays.       *)
LocksConsistent == OwnerUnique /\ AllReleased

(* A channel stays locked while a playing sequence is mapped onto it.      *)
LockKept ==
  [][\A b \in Blocks, c \in Chans :
       LET p == perf.map[b][c] IN
       /\ p # c /\ p \in perf.locked
       /\ status[b] = "playing" /\ status'[b] = "playing"
       /\ perf'.map[b][c] = p
       => p \in perf'.locked]_vars
============================================================================
