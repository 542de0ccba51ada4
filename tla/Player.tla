------------------------------- MODULE Player -------------------------------
(***************************************************************************)
(* The program xmi_play: it loads timbre libraries and a song, installs    *)
(* the song's timbres, and renders it to a file or plays it through SDL,   *)
(* whose audio thread runs the services and the synthesiser while the main *)
(* thread waits, closes the device and frees what they worked on.          *)
(*                                                                         *)
(* A song is reduced to the timbres of its TIMB chunk and, in its EVNT     *)
(* chunk, its length in services and one loop.  The cache is TimbreCache's *)
(* for an application that protects nothing: its entries and the order of  *)
(* their use.                                                              *)
(***************************************************************************)
EXTENDS Library, Chunks

CONSTANTS
  Files,              \* song files, see Chunks; EVNT is [length, for_at, next_at, times]
  MaxTracks,          \* bound: the player counts no more tracks
  MAX_TIMBS,          \* 192: entries of the cache
  cache_size,         \* TIMBRE_CACHE_SIZE
  WAV_MAX_SAMPLES,
  Chunk,              \* samples rendered at once
  spt,                \* samples per service
  Samples,            \* samples of one audio callback
  Slack,              \* 10: a jump back by no more is no loop
  PlayedLines         \* bound: the player is run after catalogs of so many lines

ASSUME PlayerAssumption ==
  /\ \A f \in Files : Searchable(f)
  /\ MaxTracks \in Nat
  /\ MAX_TIMBS \in Nat \ {0} /\ cache_size \in Nat
  /\ WAV_MAX_SAMPLES \in Nat /\ Chunk \in Nat \ {0}
  /\ spt \in Nat \ {0} /\ Samples \in Nat \ {0} /\ Slack \in Nat /\ PlayedLines \in Nat

VARIABLES
  pc,      \* what the main thread does next
  bank,    \* [name, file]: the timbres loaded, or Null: those built in
  input,   \* [file, seq_num, count]: the song file, the track wanted, those counted
  song,    \* the registered sequence: its EVNT with its timbres, or Null
  mem,     \* memory -> "none", "live", "freed" or "twice"
  table,   \* the cache: entry -> [of, data] or Null
  found,   \* the timbre being installed, [of, data], or Null
  lru,     \* its entries, the one used the longest ago first
  play,    \* [pos, status, left]: the sequence
  render,  \* [on, total, accum, max_evnt]: the rendering to a file
  audio,   \* [open, cb, accum]: the device, samples left in a callback
  stop     \* g_stop_requested

sound  == <<play, render, audio, stop>>
player == <<pc, bank, input, song, mem, table, lru, found, play, render, audio, stop>>
vars   == <<glib, player>>

Entries == 0 .. MAX_TIMBS - 1
Memory  == {"data", "state", "cache", "buf"}

Init ==
  /\ LibraryInit
  /\ pc = "args"
  /\ bank = Null
  /\ input = [file |-> <<>>, seq_num |-> 0, count |-> 0]
  /\ song = Null
  /\ mem = [m \in Memory |-> "none"]
  /\ table = [e \in Entries |-> Null]
  /\ lru = <<>>
  /\ found = Null
  /\ play = [pos |-> 0, status |-> "stopped", left |-> 0]
  /\ render = [on |-> FALSE, total |-> 0, accum |-> 0, max_evnt |-> 0]
  /\ audio = [open |-> FALSE, cb |-> 0, accum |-> 0]
  /\ stop = FALSE

malloc(s, m) == [s EXCEPT ![m] = "live"]

(* free() of what was never allocated does nothing. *)
Free(s, M) ==
  [m \in Memory |-> IF m \notin M THEN s[m]
                    ELSE CASE s[m] = "none" -> "none"
                           [] s[m] = "live" -> "freed"
                           [] OTHER -> "twice"]

----------------------------------------------------------------------------
(* A bank named on the command line replaces the one before; one that      *)
(* cannot be loaded leaves it.                                             *)
timbre_bank_load ==
  /\ pc = "args"
  /\ \/ \E f \in LibFiles :
          /\ disk[f] # Null
          /\ Size(disk[f]) >= 8
          /\ bank' = [name |-> f, file |-> disk[f]]
     \/ \E f \in DOMAIN Imported :
          /\ bank' = [name |-> f, file |-> Imported[f]]
  /\ UNCHANGED <<pc, input, song, mem, table, lru, found, sound>>

(* run_seq up to the count of the file's tracks: the file must be there.   *)
load_file ==
  /\ pc = "args"
  /\ \/ /\ pc' = "exit"
        /\ UNCHANGED <<input, mem>>
     \/ /\ pc' = "count"
        /\ \E f \in Files, n \in 0 .. MaxTracks :
             input' = [file |-> f, seq_num |-> n, count |-> 0]
        /\ mem' = malloc(mem, "data")
  /\ render' \in {[render EXCEPT !.on = wav] : wav \in BOOLEAN}
  /\ UNCHANGED <<bank, song, table, lru, found, play, audio, stop>>

(* One call of find_seq after the other, until one finds nothing; then the *)
(* track must be one of those found.                                       *)
count_xmi_tracks ==
  /\ pc = "count"
  /\ \/ /\ find_seq(input.file, input.count) # <<>>
        /\ input.count < MaxTracks
        /\ input' = [input EXCEPT !.count = @ + 1]
        /\ UNCHANGED <<pc, mem>>
     \/ /\ find_seq(input.file, input.count) = <<>>
        /\ \/ /\ input.seq_num < input.count
              /\ pc' = "init"
              /\ UNCHANGED mem
           \/ /\ input.seq_num >= input.count
              /\ pc' = "exit"
              /\ mem' = Free(mem, {"data"})
        /\ UNCHANGED input
  /\ UNCHANGED <<bank, song, table, lru, found, sound>>

(* Driver, cache and sequence state; an allocation that fails frees what   *)
(* was made before it, and the caller frees the song.                      *)
xmi_init ==
  /\ pc = "init"
  /\ \/ /\ pc' = "exit"
        /\ mem' = Free(mem, {"data"})
     \/ /\ pc' = "exit"
        /\ mem' = Free(Free(malloc(mem, "cache"), {"cache"}), {"data"})
     \/ /\ pc' = "register"
        /\ mem' = malloc(malloc(mem, "cache"), "state")
  /\ UNCHANGED <<bank, input, song, table, lru, found, sound>>

(* xmi_play asks for the same track again.  It cannot be missing, nor is   *)
(* there another sequence that would use up the handles.                   *)
register_seq ==
  /\ pc = "register"
  /\ \E form \in {find_seq(input.file, input.seq_num)} :
       song' = EVNT(form) @@ [timbres |-> TIMB(form)]
  /\ pc' = "install"
  /\ UNCHANGED <<bank, input, mem, table, lru, found, sound>>

----------------------------------------------------------------------------
(* The cache. *)
Used      == {e \in Entries : table[e] # Null}
Resident  == {table[e].of : e \in Used}
Bytes(T)  == MapThenSumSet(LAMBDA e : IF T[e] = Null THEN 0 ELSE Len(T[e].data) + 2, Entries)
Missing   == {n \in DOMAIN song.timbres : song.timbres[n] \notin Resident}

(* Mutant of timbre_request: the first timbre is always asked for. *)
request_first == song.timbres[1]

(* The first timbre of the song's list that is not in the cache. *)
timbre_request == song.timbres[Min(Missing)]

(* The timbre that is installed where the bank has none: two operators     *)
(* that are silent.                                                        *)
dummy_2op == <<0, 63, 255, 255, 0, 63, 255, 255, 0, 0, 0, 0>>

(* Mutant of DataFor: the last assignment of a timbre counts. *)
data_last(t) ==
  IF bank = Null \/ Hits(bank.file, t) = {} THEN dummy_2op
  ELSE TimbreAt(bank.file, bank.file.entries[Max(Hits(bank.file, t))].offset)

(* The built-in bank is taken to have no timbre of these songs. *)
DataFor(t) ==
  IF bank = Null \/ timbre_bank_find(bank.file, t) = Null THEN dummy_2op
  ELSE TimbreAt(bank.file, timbre_bank_find(bank.file, t))

(* Deletes the k entries used the longest ago. *)
Without(c, k) ==
  [table |-> [e \in Entries |-> IF e \in ToSet(SubSeq(c.lru, 1, k)) THEN Null ELSE c.table[e]],
   lru   |-> SubSeq(c.lru, k + 1, Len(c.lru))]

(* As many as it takes for n more bytes. *)
MakeRoom(c, n) ==
  LET enough == {k \in 0 .. Len(c.lru) : Bytes(Without(c, k).table) + n <= cache_size}
  IN  Without(c, Min(enough \cup {Len(c.lru)}))

(* A full table costs one more, but the timbre then takes entry 0. *)
Installed(c, timbre) ==
  LET full == \A e \in Entries : c.table[e] # Null
      room == IF full THEN Without(c, 1) ELSE c
      e    == IF full THEN 0 ELSE Min({f \in Entries : c.table[f] = Null})
  IN  [table |-> [room.table EXCEPT ![e] = timbre],
       lru   |-> Append(Remove(room.lru, e), e)]

(* One round of the player's loop, and there is no other way out of it     *)
(* than that nothing is missing: look the next timbre up, and install it.  *)
find_timbre ==
  /\ pc = "install"
  /\ Missing # {}
  /\ found' = [of |-> timbre_request, data |-> DataFor(timbre_request)]
  /\ pc' = "found"
  /\ UNCHANGED <<bank, input, song, mem, table, lru, sound>>

install_timbre ==
  /\ pc = "found"
  /\ \E c \in {Installed(MakeRoom([table |-> table, lru |-> lru], Len(found.data) + 2), found)} :
       /\ table' = c.table
       /\ lru' = c.lru
  /\ pc' = "install"
  /\ found' = Null
  /\ UNCHANGED <<bank, input, song, mem, sound>>

HasLoop == song.next_at # Null

start_seq ==
  /\ pc = "install"
  /\ Missing = {}
  /\ play' = [pos |-> 0, status |-> "playing", left |-> song.times]
  /\ pc' = IF render.on THEN "render" ELSE "open"
  /\ UNCHANGED <<bank, input, song, mem, table, lru, found, render, audio, stop>>

(* One service of the driver: the next event; NEXT jumps back while it has *)
(* rounds left (or for ever, when times is 0).                             *)
serve_driver(p) ==
  IF p.status # "playing" THEN p
  ELSE IF HasLoop /\ p.pos = song.next_at /\ p.left # 1
       THEN [p EXCEPT !.pos = song.for_at, !.left = IF @ = 0 THEN 0 ELSE @ - 1]
       ELSE [p EXCEPT !.pos = @ + 1, !.status = IF p.pos + 1 = song.length THEN "done" ELSE @]

----------------------------------------------------------------------------
(* Rendering to a file. *)
render_start ==
  /\ pc = "render"
  /\ mem["buf"] = "none"
  /\ \/ /\ pc' = "stop"
        /\ UNCHANGED <<mem, render>>
     \/ /\ mem' = malloc(mem, "buf")
        /\ render' = [render EXCEPT !.max_evnt = play.pos]
        /\ UNCHANGED pc
  /\ UNCHANGED <<bank, input, song, table, lru, found, play, audio, stop>>

Rendering == pc = "render" /\ mem["buf"] = "live" /\ render.total < WAV_MAX_SAMPLES /\ ~stop

(* The sequence n services on. *)
Served(n) == FoldLeft(LAMBDA p, k : serve_driver(p), play, [k \in 1 .. n |-> k])

render_chunk ==
  /\ Rendering
  /\ \E todo \in {Min({Chunk, WAV_MAX_SAMPLES - render.total})} :
     \E now \in {Served((render.accum + todo) \div spt)} :
       /\ play' = now
       /\ render' = [render EXCEPT !.total = @ + todo, !.accum = (@ + todo) % spt,
                                   !.max_evnt = IF HasLoop THEN Max({@, now.pos}) ELSE @]
       /\ IF now.status # "playing" \/ (HasLoop /\ now.pos < render.max_evnt - Slack)
          THEN pc' = "stop" /\ mem' = Free(mem, {"buf"})
          ELSE UNCHANGED <<pc, mem>>
  /\ UNCHANGED <<bank, input, song, table, lru, found, audio, stop>>

(* The buffer is full, or the user had enough. *)
render_end ==
  /\ pc = "render" /\ mem["buf"] = "live"
  /\ ~Rendering
  /\ pc' = "stop"
  /\ mem' = Free(mem, {"buf"})
  /\ UNCHANGED <<bank, input, song, table, lru, found, sound>>

----------------------------------------------------------------------------
(* Playing through SDL. *)
sdl_audio_init ==
  /\ pc = "open"
  /\ \/ /\ pc' = "stop"
        /\ UNCHANGED audio
     \/ /\ pc' = "poll"
        /\ audio' = [open |-> TRUE, cb |-> 0, accum |-> 0]
  /\ UNCHANGED <<bank, input, song, mem, table, lru, found, play, render, stop>>

poll ==
  /\ pc = "poll"
  /\ play.status # "playing" \/ stop
  /\ pc' = "close"
  /\ UNCHANGED <<bank, input, song, mem, table, lru, found, sound>>

(* Mutant of sdl_audio_close: it does not wait for a callback that runs.   *)
close_at_once ==
  /\ pc = "close"
  /\ audio' = [audio EXCEPT !.open = FALSE]
  /\ pc' = "stop"
  /\ UNCHANGED <<bank, input, song, mem, table, lru, found, play, render, stop>>

(* SDL waits for a callback that runs, and starts no other. *)
sdl_audio_close ==
  /\ pc = "close"
  /\ audio.cb = 0
  /\ audio' = [audio EXCEPT !.open = FALSE]
  /\ pc' = "stop"
  /\ UNCHANGED <<bank, input, song, mem, table, lru, found, play, render, stop>>

(* The audio thread: until the device is being closed, callbacks work off  *)
(* their samples, with a service after every spt + 1 of them.              *)
callback_begin ==
  /\ audio.open
  /\ pc # "close"
  /\ audio.cb = 0
  /\ audio' = [audio EXCEPT !.cb = Samples]
  /\ UNCHANGED <<pc, bank, input, song, mem, table, lru, found, play, render, stop>>

callback_sample ==
  LET due == audio.accum > spt IN
  /\ audio.cb > 0
  /\ audio' = [audio EXCEPT !.cb = @ - 1, !.accum = (IF due THEN 0 ELSE @) + 1]
  /\ play' = IF due THEN serve_driver(play) ELSE play
  /\ UNCHANGED <<pc, bank, input, song, mem, table, lru, found, render, stop>>

(* Control-C, once its handler is set. *)
sigint ==
  /\ pc \in {"render", "poll"}
  /\ ~stop
  /\ stop' = TRUE
  /\ UNCHANGED <<pc, bank, input, song, mem, table, lru, found, play, render, audio>>

----------------------------------------------------------------------------
(* xmi_stop and the driver's shutdown, then the memory. *)
xmi_stop ==
  /\ pc = "stop"
  /\ play' = [play EXCEPT !.status = "stopped"]
  /\ pc' = "free"
  /\ UNCHANGED <<bank, input, song, mem, table, lru, found, render, audio, stop>>

xmi_deinit ==
  /\ pc = "free"
  /\ mem' = Free(mem, {"state", "cache", "data"})
  /\ pc' = "exit"
  /\ UNCHANGED <<bank, input, song, table, lru, found, sound>>

main ==
  \/ timbre_bank_load \/ load_file \/ count_xmi_tracks \/ xmi_init \/ register_seq
  \/ find_timbre \/ install_timbre \/ start_seq
  \/ render_start \/ render_chunk \/ render_end
  \/ sdl_audio_init \/ poll \/ sdl_audio_close
  \/ xmi_stop \/ xmi_deinit

audio_thread == callback_begin \/ callback_sample

(* The catalog is compiled before the player is started. *)
Compiled == ~catalog.open /\ catalog.err = 0 /\ catalog.lines <= PlayedLines

Next ==
  \/ compile_GTL /\ UNCHANGED player
  \/ Compiled /\ (main \/ audio_thread \/ sigint) /\ UNCHANGED glib

(* Both threads run on, and the program is not given banks for ever.       *)
FairSpec ==
  /\ Init /\ [][Next]_vars
  /\ WF_vars(Compiled /\ pc # "args" /\ main /\ UNCHANGED glib)
  /\ WF_vars(Compiled /\ audio_thread /\ UNCHANGED glib)

----------------------------------------------------------------------------
(* The audio thread never works on memory that was freed, whatever the     *)
(* main thread does meanwhile; nothing but the order of its calls says so. *)
ServeOnLive ==
  audio.cb > 0 => \A m \in {"data", "state", "cache"} : mem[m] = "live"

(* Whichever step failed, at the end all memory was freed, and none twice. *)
FreedOnce ==
  /\ \A m \in Memory : mem[m] # "twice"
  /\ pc = "exit" => \A m \in Memory : mem[m] # "live"

(* The memory outlives its uses in both threads and in every failure.      *)
MemorySound == ServeOnLive /\ FreedOnce

(* The sequences of a file in reading order. *)
Tracks(file) ==
  FlattenSeq([n \in DOMAIN file |->
                IF file[n].tag = "CAT" THEN XMIDs(file[n].body)
                ELSE IF file[n].type = "XMID" THEN <<file[n]>> ELSE <<>>])

(* The player knows all tracks of the file, and plays the one asked for.   *)
RightTrack ==
  song # Null =>
    /\ input.count = Len(Tracks(input.file))
    /\ song = EVNT(Tracks(input.file)[input.seq_num + 1].body)
                @@ [timbres |-> TIMB(Tracks(input.file)[input.seq_num + 1].body)]

(* From the catalog to the notes: when the song starts it is the track     *)
(* that was asked for, and each of its timbres is in the cache with the    *)
(* bytes of the first line of the catalog that assigned it, or with        *)
(* silence.                                                                *)
SongPlaysCatalog ==
  /\ RightTrack
  /\ pc \in {"render", "open", "poll"} /\ bank # Null /\ bank.name \in LibFiles =>
       \A n \in DOMAIN song.timbres :
         LET t == song.timbres[n]
             w == written[bank.name]
             lines == {k \in DOMAIN w : w[k].timbre = t}
         IN  \E e \in Used :
               table[e] = [of |-> t, data |-> IF lines = {} THEN dummy_2op ELSE w[Min(lines)].data]

(* The song's timbres fit into the cache together. *)
Fits ==
  LET T == ToSet(song.timbres) IN
  /\ Cardinality(T) <= MAX_TIMBS
  /\ MapThenSumSet(LAMBDA t : Len(DataFor(t)) + 2, T) <= cache_size

(* The player's count of the tracks ends, except for a file that is a      *)
(* single FORM XMID; and then the program does: if the timbres fit (else   *)
(* installing them never ends) a rendering always ends, loops or not, and  *)
(* playing does unless the song loops for ever.                            *)
PlaybackEnds ==
  /\ (pc = "count" /\ \E n \in DOMAIN input.file : input.file[n].tag = "CAT") ~> (pc # "count")
  /\ (pc = "install" /\ Fits /\ (render.on \/ song.times # 0 \/ ~HasLoop)) ~> (pc = "exit")
=============================================================================
