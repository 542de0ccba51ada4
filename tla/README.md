# xmidi32 in TLA+

`src/src/` is a C port of the XMIDI driver of Miles Design's Audio Interface
Library (AIL 2): a sequencer that plays up to eight XMIDI sequences at once
over sixteen MIDI channels, a Yamaha OPL3 driver that plays the channels on
eighteen two-operator voices of an emulated chip, and a player around them.
`src/glib/` holds the DOS tools that make what the player plays: recorder,
event translator, XMIDI converter, timbre librarian, live echo.
`src/ail32_V105/` holds the original documents and assembly, which say what the
port is meant to do. This directory holds TLA+ models of them, the TLC
configurations that check the models on small instances, and TLAPS proofs.

    tlc -config MCTempo.cfg MCTempo         one run
    tlapm VoicesProofs.tla                  one module of proofs

`PROJECT.json` lists the components, runs, hazards, theorems, and the source
lines behind every definition.

## 1. Inventory

| component | state | operations | hard behaviour | what makes it correct |
|---|---|---|---|---|
| **handles and lifecycle** (`xmidi32_api.c`, `_register.c`, `_meta.c`) | `sequence_states[8]`, `sequence_count`, per block `seq_handle`, `status`, `seq_started`, `post_release` | register, start, stop, resume, release; end of track | the application calls it from a callback in the middle of the service; release of a playing sequence is delayed to its end of track | table, count and handles agree; the service reads no released block |
| **sequence clock** (`xmidi32_tempo.c`, `_serve.c`) | `tempo_error`, `_percent`, `_target`, `_accum`, `_period` | service, set relative tempo, ramp step | unset fields, truncating divisions, tempo 0, changes inside a tick | no drift; ramps in time and ending |
| **note queue** (`_note_on.c`, `_flush.c`, `_serve.c`) | `note_queue[32]`, `note_count`, `active_notes[16]` | note on/off, expiry, flush of a queue or a channel | counters kept beside the queue, overflow, remapping between on and off | nothing sounds that no queue will end; counters agree with queues |
| **channel locks** (`_channel.c`, `_reset.c`, `_control.c`) | `lock_status[16]`, `chan_map[16]` of each block | lock, release, protect, map, reset at stop | several songs and the application compete | one user per seized channel, kept while needed, released after |
| **event stream** (`_serve.c`, `_control.c`, `_tempo.c`, `_sysex.c`) | `EVNT_ptr`, `interval_cnt`, `FOR_loop_cnt[4]`, `FOR_ptrs[4]` | events, FOR, NEXT, branch, callback | nesting, a full stack, breaks, branches out of loops and inside callbacks | the pointer stays on event borders; each body runs its rounds |
| **beat counter** (`_count.c`, `_meta.c`, `_serve.c`) | `beat_fraction`, `beat_count`, `measure_count` | tick, time signature, tempo, clear | a measure begins with a negative fraction | counts are the time that went by |
| **controllers** (`_control.c`, `_init.c`, `_volume.c`, `_globals.c`, `_reset.c`) | `global_controls`, `chan_controls`, `ctrl_hash`, volume ramp | log, scale, restore, release, indirect values | two layouts of one log in different functions | the synthesiser has what was set |
| **voice allocator** (`xmidi32_yamaha.c`) | `S_*[20]` slots, `V_channel[18]`, `MIDI_voices`, `MIDI_sus`, rovers, `conn_shadow` | note on/off, pedal, all notes off, reset controllers, bends | pairs overlap single voices; slots without a voice; the pedal | a voice has one slot; no voice idles while a note needs it |
| **voices in the chip** (`xmidi32_yamaha.c`, `opl3.c`) | operators, their routing and keys, 4-op modes | register writes | the driver keeps a shadow and never reads back | the chip does what the allocator thinks |
| **envelope generator** (`opl3.c`) | 9-bit level, phase, global timer | a sample; key on and off; rates | wrap of the level; rates that depend on a wrapping timer | no jump from silent to loud; envelopes end |
| **timbre cache** (`xmidi32_yamaha.c`, `_timbre.c`) | `timb_*[192]`, `cache_end`, `MIDI_timbre`, `RBS_timbres` | install, index, protect, evict | eviction moves data that slots point into | an index or offset held by anyone is valid |
| **banks and GLIB** (`timbre_bank.c`, `glib/GLIB.C`) | catalog, header array, library files | compile a catalog, find a timbre, import old banks | state left over from the library before | the reader finds what the writer was told |
| **player** (`xmi_play.c`, `sdl_audio.c`, `_find_seq.c`, `_register.c`) | memory it owns, SDL device, run flag | load, count tracks, install timbres, render, play, shut down | two threads, failures of every step, Control-C | memory outlives its uses; playback ends |
| **MIDIFORM** | DDA, `EVNT` block, note table, branch points, timbre list | merge tracks, quantize, write durations | durations inserted in the middle of the block | the result plays as the file says |
| **MIDIREC, MIDILOG, MIDIECHO** | input ring, running status, rules, partial count | interrupt, main loop; translate; echo | interrupt against main loop; running status behind a deleted event | recorded, translated and echoed whole |

Components call each other directly. The player's audio thread calls
`xmidi32_serve_driver`; the service walks the handles, reads events and calls
the note queue, the locks and the controllers; these send MIDI messages
(`xmidi32_midi.c`) to the Yamaha driver, which writes chip registers. The
application calls the library between two services, or inside the service
from its callback (controller 119), which is where the interesting orders come
from: `service_active` keeps a service out of a service, but no call out of it.
The tools and the player communicate by files only.

## 2. How the modules compose

    Tempo        EventStream        Controllers        TimbreCache       Envelope
    Sequencer

    VoicePool <-- implements -- Voices <-- implements -- ChipVoices

    Library + Chunks --> Player

    InputRing --> Instrument --> Recorder (+ MidiLog), Echo
    Recorder + Echo + Converter --> Tools

An arrow `-->` is EXTENDS. `Player` runs the library compiler's output and
song files through the player; `Tools` runs an instrument's output through the
recorder and the result through the translator. The driver's components are
separate modules where their state is: what one needs of another is an input
it leaves open (a song is any order of events in `Sequencer`; whether a tick
reaches an event, which timbre a channel has in `Voices`, what the application
calls). `MC*` modules hold values for the constants, `*Proofs` the theorems.

No module declares a RECURSIVE operator: recursion over data is a recursive
function or a fold, so that every module could be proved about.

## 3. The modules

### Tempo

One sequence's clock. `serve_no_tick`, `serve_tick`, `process_tick`,
`end_service` and `next_seq` are the pieces of one call of
`xmidi32_serve_driver` for the handle of this sequence, cut where a callback
can let the application in (`pc = "tick"`). `check_gradients` is the tempo
half of the gradient code, its subtraction loop written as quotient and
remainder. The calls of the application are actions with the code's guards;
`MaxCalls` bounds them. `Uninit` stands for the content of `tempo_period` and
`tempo_accum` in the caller's block, which no code writes before the first
ramp: reading it in the model is an error TLC would report.

Four history variables record what no code keeps: `left`, ramp time not used
yet, and `served`, `ran`, `base`, the services of a window of steady tempo,
its ticks, and the error it began with.

### Sequencer

Blocks of the application are registered under handles. `serve` starts the
walk, `pass_sequence` and `process_tick` work at handle `seq`, events run one
at a time while `phase = "event"`, and a callback event lets the calls in
(`phase = "callback"`). Songs are arbitrary: an event is any one of the kinds
`Events` allows, with any channel, key and duration. Intervals are left out
(they are in `EventStream`): a tick may or may not reach events. Events without
effect on notes and locks would be stutters and are left out.

`perf` is one record because handlers chain helpers that each change several
parts; a helper is an operator from `perf` to `perf`, named as in the code
(`flush_channel_notes`, `lock_channel`, `reset_sequence`). `sounding` is the
output: the keys switched on at physical channels. Expiry (`Expired`) treats
all slots of a queue at once: those whose time is 0 (`Due`) are turned off,
the others grow `Older`.

Two things of the code are easily overlooked and are modelled as they are.
`ctrl_hash` (`xmidi32_init.c:39`) places controller *i* of channel *c* in cell
*i + c*, while `reset_sequence` and `restore_sequence` read rows of sixteen:
the rows of Sustain, Channel Lock, Lock Protect and Voice Protect keep their
fill of 0xFF, which is above 64 as an unsigned byte and -1 as a signed one.
`reset_sequence` therefore releases and unprotects on all channels, and
`restore_sequence` locks none. And `flush_seq_channel` zeroes `note_count`
after looking at one channel only.

### EventStream

A song is its EVNT chunk, one cell per byte: the first byte of an event is a
cell of the event's kind, with its size; every other byte is a cell that reads
as an interval, which is what the loop takes any byte below 128 for. So a
pointer that is off by a byte goes on wrongly in the model as it does in the
code. The actions are the service's event loop (`process_tick`, `interval`,
one action per kind of event, `check_beat`), `FOR_LOOP` and `NEXT_LOOP` with
the stack of `FOR_NEST` counters, and the application's calls, between ticks
and inside a callback. `callback_returns` adds the event's three bytes to
wherever the pointer was left. `XMIDI_sysex` returns a size that lacks the
status byte; `strayed` records it.

`Unrolled` is the reference: the song with every loop written out, by a
recursive function on the text (`TextAt`), without stack or pointer. For an
event and a number of open loops it gives the notes up to the NEXT that closes
the innermost of them, and that NEXT. A FOR that is never closed keeps its slot
as it does in the code, so a third one inside two of those is ignored. The
reference is for `PlainLoops`: a FOR of 0 and a break mean something else in
XMIDI.TXT than in the code (section 5), so `PlaysUnrolled` and `SongEnds` say
nothing of a song with one; `Aligned` does.

`beat` are the counters. Their history does not use the code's fraction:
`elapsed` is the time of the ticks since the meter began less that of the beats
counted. A beat of the meter is the 2^d-th part of a whole note, a quarter note
takes `per_beat`, so with `TickTime` weighing a tick by 2^d a beat takes
4 * `per_beat` for every d. `MeterExact` asks that what is left over is what the fraction holds,
but for `Lost`, which the shift of `QUANT_TIME_16` drops, and that no beat comes
early or late. Only the driver's reading of the chunk matters, so notes carry a number,
tempos and time signatures their values, and all other events are `other`.

### Controllers

One sequence with its channels mapped to themselves and an application that
locks channels. The global log and the sequence's log are arrays of cells;
`Hash` and `Row` are the two ways of addressing them and both are used where
the code uses them. `XMIDI_control`, `XMIDI_volume`, `release_channels`,
`reset_sequence` and `restore_sequence` are operators on the record `ctl`, and
the actions are the calls, an event, a step of the volume ramp (`serve`) and
the application's lock, release and message. `restore_sequence` goes through
the cells in order because each value it sends is logged again, possibly into
a cell it has still to read. `owns` is history: the channels whose volume's
cell holds their volume and not a controller of a neighbour.

### Voices, VoicePool, ChipVoices

One action of `Voices` is one MIDI message to the Yamaha driver. A slot is
`Free` or what `yamaha_note_on` stored. The rover's search is stated as what it
finds: `Stops(r, n, F, k)` says that the search ends `k` places after the rover,
at the first free place or after a full turn; `assign_voice` then stores the
place it ended at, as the code does also for a search that fails.
`update_priority` is called when none is free and returns at line 766 (see
section 5). `key_on` is the chip's state, not the driver's.

`VoicePool` is the promise: units granted in allowed shapes, never twice, and
given back whole. `Voices` implements it with slots as clients, voices as
units and single voices and pairs as shapes.

`ChipVoices` attaches the chip. Each action of `Voices` becomes the series of
`update_voice` calls it makes, each of those the series of register writes, and
`chip` is what the emulator's write handlers (`opl3.c`) make of them: operators
with keys and with the operator they modulate, channels with the operators
heard through them, the 4-op selection, and the operators whose level was
scaled by the volume. It implements `Voices`; `ChipFollows` says that the chip
agrees with the allocator.

### Envelope

One operator: `Sample` is one call of `OPL3_EnvelopeCalc` and the advance of
the global timer. `Increment` has the code's cases (attack, decay, sustain,
release, with the stalls at full attack rate), `Advance` the phases. Keys, a
patch at key-on and bends of the rate may come before any sample. `LEVELS`,
`OFF_BAND`, `SL_UNIT`, `TOP` and `CLOCK` are the chip's widths (512, 8, 16, 12,
2^36 there).

### TimbreCache

`tc` is one record: the table `timb`, the bytes of the cache (each cell says
which byte of which timbre it was copied from), `end`, and the three kinds of
reference, `MIDI_timbre`, `RBS_timbres` and the slots' offsets. `timb_hist`
appears only in comparisons, so it is kept as the order it induces (`older`).
An index is stored through `Byte`, as the `int8_t` of the code does: entries
from 128 on become negative and mean "no timbre". `ResidentPlays` compares the
index of a channel with the entry itself, and says nothing of entries from `Half`
(128) on, whose channels the code leaves silent.

`do_install_timbre` is three actions: `install_resident`, or `install_new`
followed by rounds of `make_room` and a `store`; nothing else runs meanwhile.
The rounds are steps because they need not end: `delete_LRU` does nothing when
every timbre is protected. `store` has the code's answer to a full table, which
deletes a timbre and then overwrites entry 0. `asked` and `latched` are
history: which timbre a channel's index was last looked up for, and whether
another bank was selected since.

### Library, Chunks, Player

`Library` is GLIB, one catalog line per action (`outfile` opens a library and
closes the one before, an assignment appends a timbre in the format its kind
asks for), and the reader `timbre_bank_find` with the import of old banks.
Lines may be in error, at each of the checks in the parser's order.

`Chunks` describes song files: `Converted` is the FORM XDIR and CAT XMID that
MIDIFORM writes around its blocks (MIDIFORM.C 958-1017), `find_seq` the driver's
search for the n-th sequence, `TIMB` and `EVNT` the walk of `register_seq` over
the local chunks.

`Player` is `xmi_play.c` from its arguments to its exit: load a bank and a song
file, count the tracks until `find_seq` fails, allocate state and cache,
install the timbres the song lacks until none does, then either render to a WAV
file in chunks, or open the SDL device and poll. `audio_thread` is SDL's
callback, cut where the main thread can act. `mem` says of each allocation
whether it is live, freed or freed twice. Each allocation and each library call
that can fail may fail; Control-C may strike at any time in the polling loop.
The cache is `TimbreCache`'s reduced to an application that protects nothing:
its entries in the order of their use. A song is the timbres of its TIMB chunk
and its length with at most one loop.

### Converter

MIDIFORM. The MIDI file is read as it is converted: what the next event of a
track is, is chosen when it is read. One action is one round of
`XMIDI_compile`: the track with the least pending delta is chosen
(`MIDI_get_next_event`), `accum_interval` turns the time that passed into
intervals with the DDA, and the event is written. `EVNT` has a cell per byte, so
that a duration of several bytes, written behind its note when the note-off
comes, moves what is behind it (`Lengthen`) with the places that other notes and
branch points remember. `Played` reads the finished block as the driver does.
The history (`score`, `wanted`, `elapsed`, `skew`) is what the file said.

### InputRing, Instrument, Recorder, MidiLog, Echo, Tools

`InputRing` is the ring between the interrupt handler and the main loop that
both programs keep, without a test for a full ring; `Instrument` sends bytes of
legal messages, with or without running status, possibly beginning inside one.
`Recorder` (MIDIREC) is the handler, the timer and `record_byte`, one byte of
the main loop per action. `MidiLog` (MIDILOG) parses rules and goes through a
file's bytes: `replace_event` is one event with the moves of the buffer, the
chunk's length, and the status written out for the event behind. It goes through
as many tracks as the header counts, passing other chunks, and writes nothing of
what follows the last (`at.left`). `Echo`
(MIDIECHO) puts messages together, installs timbres through the driver and
counts partials. `Tools` is their disjoint sum: the program is chosen at the
beginning, and a recording that has stopped may be given to MIDILOG. One run
checks them all.

## 4. The runs

| run | instance | shows |
|---|---|---|
| `tempo` | 4 points to a tick, 3 units of ramp time a service, four tempos (0 included), three ramp times, 5 calls | `RampOnTime`: ramps are prepared and in time; `PaceExact`: 4 services at tempo p run p ticks; `RampConverges` |
| `song` | 1 block, 1 handle, 2 channels, 3 slots, 2 keys | `NoStuckNote`, `CountsExact`, and `NotesEnd`, for a song without locks or end of track |
| `life` | 3 blocks, 2 handles, all events and calls | `HandlesConsistent`, `EventOnLive` under calls from callbacks |
| `locks` | 1 block, 3 channels, 2 slots | `LocksConsistent`, `LockKept` for a song that unlocks what it locked; `CountNeverOver` with the queue overflowing |
| `voices` | 3 slots, 3 voices of which 2 are a pair, 1 channel, 2 keys, the chip attached | the allocator's invariants, `ChipFollows`, `NoVoiceIdle`, `ImplementsPool` |
| `cache` | 3 units of memory, 3 entries (the last beyond the signed index), 2 melodic timbres in two banks, 2 drums, lengths 1 and 2; memory is full before the table | `CacheConsistent`, `ResidentPlays`, `ProtectedStays`, and `InstallEnds` unless protection leaves no room |
| `stream` | seven songs: nested loops with three branch points; three loops where two fit; two loops that are never closed and a third inside them; a branch point behind a pending interval; a FOR of 0 and a break; an exclusive message; meters of quarter, half, whole and eighth notes and tempos in mid-beat; 5 calls | `Aligned`, `PlaysUnrolled`, `MeterExact`, `SongEnds` |
| `controllers` | 2 channels, 3 controllers, volumes 100 and 101, ramps of 0 and 2 | `VolumeFollows`, `VolumeSettles` |
| `controls_restored` | 16 channels, 9 controllers | the finding of section 5 |
| `envelope` | 64 levels, a 3-bit clock, four patches, two key scales | `NoWrap`, `EnvelopeEnds` |
| `player` | catalogs of 5 lines out of a dozen, 2 libraries, 3 song files, memory for 2 timbres | `LibraryReadsBack`, `MemorySound`, `SongPlaysCatalog`, `PlaybackEnds` |
| `tools` | a ring of 3, recordings of 5 bytes, echoes of 6, nine logfiles, two tracks of 4 events | `RecordedAsPlayed`, `EventsTranslated`, `EchoFaithful`, `TimbresAccounted`, `PlaysAsWritten`, `NoDrift`, `TimbresExact` |

**Bounds.** A service of the code is 83 units of ramp time against ticks of 100
points; 3 against 4 keeps the ratio below one with a remainder at every step.
Five calls are register, start, two tempo changes and one more in any place.
Three blocks over two handles make a full table, a freed handle reused by
another block, and two sequences in one service. Three slots in a note queue
give a hole between two notes; two give an overflow with a survivor. Three
channels give a seized one, its owner's and a bystander. Byte widths are shrunk
with the counters they hold (`ByteMod`, `CountMod`, `ActiveMod`) so that they
wrap within a few notes. A pair and a single voice with as many slots let a
two-operator note sit on either half of the pair and make the third note find
nothing; timbres are those whose two connection bits agree (section 5). Timbres
of two lengths in three units make deletions of one and of two timbres for a
new one, in every position.

In `stream`, `FOR_NEST` is 2, so three nested loops overflow the stack; a loop
of three rounds inside one of two has a first, a middle and a last round; the
time of a tick is 5, which no power of 2 divides and no tempo of the songs (6 to
9) is a multiple of, so that shifts drop something and every beat leaves a
remainder. In `controllers`, 2 channels are enough for a volume and a
neighbour's modulation in one cell, and 101 percent moves a value past the cap.
In `envelope`, the band that counts as silent has the code's eight levels, twice
the widest step, and the clock outlasts the slowest rate. In
`player`, `MaxTracks` 4 is one more than the longest file has, and bounds the
endless count of section 5; five lines fill two libraries and leave an error in
any place; `PlayedLines` 3 limits the catalogs that are also played. In
`tools`, a ring of 3 is overrun by a message; recordings of five bytes have two
messages with running status; `TopDelta` 2 makes deltas reach their cut-off;
`VlnBase` and `Radix` 2 make numbers of several bytes out of small ones, which
is what moves bytes about in MIDIFORM and MIDILOG.

No symmetry is used: slots, handles, voices and channels are ordered in the
code.

`CHECK_DEADLOCK FALSE` stands where the system may stop: no sequence is
registered and the calls are used up, a song has ended, a program has exited.

**Fairness.** `Tempo`, `EventStream` and `Controllers` assume that the service
goes on (weak fairness of its steps): the audio thread calls it at a fixed rate.
They assume no call. `Sequencer` assumes weak fairness of starting and walking a
service and of a callback's return, and strong fairness of `delay` and of a tick
at each handle: events of a tick are finite in number, and a tempo above 0 gives
tick after tick, so a handle that is reached again and again gets one again and
again. A song of tempo 0 is outside this assumption. `TimbreCache` assumes that
an installation that was called runs on; `Envelope` that samples are asked for,
since the device plays; `Player` that both of its threads run. Control-C, key
presses and errors are never assumed.

Every property of a passing run has a mutant in its module (the operators
headed "Mutant of"), a plausible slip in the code that the run then catches.

## 5. Where the code and its documents disagree

One run expects a violation: `controls_restored`. `init_driver` fills
`ctrl_hash` with row numbers (`xmidi32_init.c:39`) where `init_globals` had put
row offsets (`xmidi32_globals.c:69`), so that releasing a channel that was only
locked sends it other controllers' defaults.

The others are modelled as the code does, and the properties that pass are
stated for the situations they leave out.

Sequencer and channels:

- Stopping one song zeroes the note counter of another whose notes are still
  queued (`xmidi32_flush.c:21`); they are not expired until it plays another.
- `lock_channel` keeps the channel with the most active notes (`>=`,
  `xmidi32_channel.c:14`), where API.TXT:1528-1535 promises the fewest.
- A stopped song releases channels another song has locked
  (`xmidi32_reset.c:14`; XMIDI.TXT:149-153).
- At the end of a track the queued notes are not turned off; a channel is
  locked while a note another mapping put on it sounds; a song that locks from a
  channel that is itself seized is silent (XMIDI.TXT:118-121 promises
  redirection); a protected channel is locked when no other is left, as in the
  original assembly. `song` and `locks` leave these out of `Events` and `Calls`.
- An exclusive message's size leaves out its status byte (`xmidi32_sysex.c:11`),
  so the event loop goes on inside the message (`strayed`).
- A FOR of 0 plays once (`xmidi32_control.c:65-68`) where XMIDI.TXT:280 says
  indefinitely, as the assembly plays it (XMIDI32.ASM:773-774). A NEXT below 64
  is ignored (`xmidi32_control.c:58`, and XMIDI32.ASM:763-764) where
  XMIDI.TXT:317-318 says it leaves the loop. `PlainLoops` excludes both.
- A branch or start from inside a callback gets three bytes added
  (`xmidi32_serve.c:116`), past the marker.
- A time signature in eighth notes or shorter shifts the fraction right
  (`xmidi32_meta.c:30-36`) where the assembly multiplies (XMIDI32.ASM:948-953):
  an eighth-note beat takes two quarter notes. `MeterExact` excludes it
  (`denom \in 0 .. 2`).
- Before the first time signature the fraction is 0 and the counters stand still
  (`xmidi32_register.c`), where API.TXT:976 promises 4/4.
- A pending indirect prefix is consumed by a resume or by `set_control_val`,
  which replaces the value sent; resuming writes the modulation row over volume
  cells; `init_driver`'s loops stop before the sixteenth channel.

OPL3 driver and chip:

- With all voices in use an incoming note is silent: `update_priority` compares
  with -1 as an unsigned number (`xmidi32_yamaha.c:751`) and never finds the slot
  in need (XMIDI.TXT:216-223 promises reassignment).
- With a full table one timbre is deleted and another, in entry 0, overwritten,
  protected or not (`xmidi32_yamaha.c:304`; API.TXT:915-916).
- Entries of the table from 128 on are kept in an `int8_t`
  (`xmidi32_yamaha.c:167`, 170): a channel or drum whose timbre lies there is
  silent (818), where the assembly compares with -1 only and API.TXT:863-867
  promises the installed timbre. `ResidentPlays` excludes them (`e < Half`).
- `delete_LRU` never releases the slots that play the deleted timbre: its `<=`
  (`xmidi32_yamaha.c:252`) comes before the `==` of 253. YAMAHA32.INC:1328-1334
  releases them. They go on with offsets into other timbres' bytes;
  `CacheConsistent` speaks of the other slots.
- `update_voice` writes the same connection bit to both halves of a pair, though
  the carriers are scaled by both (YAMAHA32.INC:1730-1734): a four-operator
  timbre whose bits differ is heard without its volume. `ChipFollows` therefore
  asks for the volume where the bits agree.
- A pitch bend that raises the attack rate to the highest in mid-attack stalls
  the envelope (`Stalled`); a release rate of 0 never silences it.

Player and library:

- `find_seq` returns a lone FORM XMID for every number, so that the player's
  count of tracks (`xmi_play.c:92-96`) never ends; the assembly
  (XMIDI32.ASM:311-314) does so for number 0 only. A FORM of another type inside
  the CAT uses up a number; a file that begins with another chunk has no tracks.
- Installing timbres never ends when one song's exceed the cache or the table.
- A WAV rendering of a song with a finite FOR stops at its first backward jump,
  although the message says one complete playthrough (`xmi_play.c:184`).
- A library with timbres of bank 255 ends the reader's search there. GLIB keeps
  the pointer of a bank it freed (GLIB.C:1133) and writes past `header` after
  16384 bytes (778); catalogs are assumed to have neither.

Tools:

- MIDIFORM counts the delta before a tempo event at the new tempo (`skew`). Its
  sum of time is 32 bits of 10 ns (MIDIFORM.C:157, 756, 786): a pause of more
  than 42.9 seconds between two events overflows it, and is what `TimeFits`
  excludes in section 6. A duration is written with at most four digits
  (`MIDI_put_vln`), and so are the model's.
- MIDILOG takes a byte too far on when two data bytes are masked
  (MIDILOG.C:655-669), deletes an event with its delta, and compares past the end
  of short events.
- MIDIREC waits for ever when the cable is plugged in inside a message: it looks
  at the first byte of the ring without taking it (MIDIREC.C:347-350); system common messages
  corrupt the file (`broken`); a ring overrun loses bytes (`overrun`).
- MIDIECHO's count of partials drifts when a part changes its timbre while it
  sounds (`uneven`); real-time bytes inside an exclusive message are echoed as
  its data.

## 6. The proofs

Proved with TLAPS, for all values of the constants that satisfy the named
assumptions of each module:

| module | theorems | inductive invariant |
|---|---|---|
| `TempoProofs` | types, `RampReady`, `RampOnTime`, `PaceExact`, `RampMonotone`, `ServeCatchesUp` | the points still to go, times the period, less the remainder, are covered by the time left; `base + served * tempo_percent = Unit * ran + tempo_error` |
| `VoicesProofs` | types, `VoiceOwnership`, `HardwareMatches`, `ChannelsAccounted`, `NoVoiceIdle`, `ImplementsPool`; with the chip `ChipImplementsAllocator` and by it ownership and the pool again, and `ChipFollows`; `NoWrap` of `Envelope` | `IInv`, whose heart is that `V_channel` says of every voice exactly what the slots say, with `VoiceCount` for the byte-wide counts; `ChipInv`: the routing is that of the modes and connection bits, the modes those of the register, the register the driver's shadow of it, the keys those the driver set, and the channels of every sounding slot are written; `LevelOK`: patch, key scale, phase and level in range, and no step is wider than the band of silence, so that the level is tested before a step could carry it past the end |
| `EventStreamProofs` | types, `Aligned`, `PlaysUnrolled`, `MeterExact` | `IInv`: the pointer and every pointer on the stack are at starts of events, and the stack has no gap; `HeardInv`, for plain loops: what was heard, the text at the pointer and the tail of the innermost loop in use make up the unrolled song, where a tail (`Rest`) is the rounds a loop has left, the text behind its NEXT and the tail of the loop around it; `MeterInv`: `MeterExact` with the types of the meter, the fraction that the signature in force makes, and a beat whose length is one of the song's tempos |
| `TimbreCacheProofs` | types, `EntriesIntact`, `ResidentPlays`; `CacheConsistent` and `ProtectedStays` while `TableSuffices`; `FewTimbres` implies that | the entries in use lie behind one another in the block, and each of their bytes is the byte of the timbre they are named for |
| `PlayerProofs` | `MemorySound`, `LibraryReadsBack`; `SongPlaysCatalog` for `SoundFiles` while `NoEndAssigned` | `MemoryInv`: which allocations are live at each place of the program, and that SDL's thread runs only between open and close; `LibraryInv`: what a library has stored (`Stored`) and keeps (`Kept`) of the lines read so far; `CatalogInv` composes it with the bank that was read (`BankRead`), the track found and what the cache holds (`CacheHolds`) |
| `SequencerProofs` | `HandlesConsistent`, `EventOnLive`, `CountNeverOver`; `NoStuckNote` for `PlainSongs`, `CountsExact` for a `SteadySong`, `LocksConsistent` and `LockKept` for `FairLocks` | `RegistryInv`: what the first two say, with `EventPlays` about the block the service stands at, since a callback may stop and free it; `NotesOK`: the counter lags behind the queue by at most the slots, modulo its width; the other three add to them who may sound, count or lock what |
| `ControllersProofs` | `VolumeFollows` | `VolumeInv`: also the *global* log has the scaled volume of every owner, locked or not, since that is what a release sends |
| `ToolsProofs` | `TimbresExact`, `NotesKeepPlace` and `BranchesLead` (of `PlaysAsWritten`), `TimbresAccounted`, `EchoFaithful`, `RecordedAsPlayed`; `NoDrift` while `TimeFits` | `ClockInv`: no pending delta is above one of the file; `ChunkInv`: `Places`, that every note on is followed by its two data bytes and its empty duration, that no two notes on have one place, and that every mark leads; `EchoInv`: what is in the ring and in the parser are bytes (`WireInv`, `ParserInv`), the timbre a part's driver channel plays with is in the cache or was given up (`PatchInv`), and the partials are those of the notes on (`MeterInv`); `StreamInv`: one stream of bytes explains what waits in the ring (`Carries`), what was sent (`OnWire`), what is still to be sent (`Coming`), where the parser stands in it (`Stage`) and what it has passed on (`Echoed`); `RecInv`: nothing has arrived (`Silent`), or the first byte is data and the main loop waits for ever (`Deaf`), or one stream and the times of its bytes (`Sched`) explain ring and wire (`Scored`), the file is its header and one `Piece` for each message read (`Recorded`), the main loop stands in the message reached (`Reached`, `Standing`), and `accum_delta` is the time since that one began, cut off (`Counting`) |

The arguments.

*Messages* of `Voices` fall in two classes, with one lemma each: those that free
slots (`FreeStep`) and a note that starts (`StartStep`). `TurnVisits` and
`SearchComplete` show that a rover that starts anywhere, -1 included, visits
every place in a full turn. `ClockAssumption` only says that the constants are
numbers; `VoicesAssumption` describes the chip's layout: the second half of a
pair is `Span` voices on, and no second half is a first half.

*The chip.* Each kind of register write has a lemma (`WriteC0Good`,
`Set4OpGood`, `UpdateVoice`) that it leaves the routing that of the modes and
bits, and a loop of writes one that it changes no more than the flags say
(`RewrittenKeeps`, `ReleasedKeeps`). From the routing of all channels follows
that no channel reaches the operators of another (`StaysHome`, `Apart`), and
from the bits of one voice how it sounds (`TwoSeparate`, `FourSeparate`).
`TimbresAssumption` is what `BNK_phase` and `OPL_phase` read of a timbre: one
connection bit, or two.

*Streams.* The assumption on songs is that they are whole events from the first
cell to an end of track, and that markers are at events. A NEXT that jumps
back lands behind the FOR it remembers, which is an event of three bytes like
the NEXT itself; that is why the sizes agree. That loops play what they say
(`PlaysUnrolled`) has a lemma on the text for each thing that can happen to the
stack: `TaleBegins`, `TaleGoesOn`, `TaleOpens`, `TaleCloses`, `TaleAgain` and
`TaleEnds`. What makes them true is that a loop in use ends at the same NEXT
seen from its own FOR, from the FOR of the loop inside it and from the pointer
(`Stack`, `Within`). `PlaysUnrolled` needs `PlainLoops` at one place, `TaleOpens`: a FOR of 0 opens
a loop whose text would be empty. For the meter, `Fractions` relates what a
tick adds to the fraction to the time of the tick in quarter notes, `TickOnTime`
keeps the balance through a tick and `CheckBeatExact` through a beat, with one
lemma for the beat that fills a measure and one for any other.

*Handles.* The lowest free handle is found by the code's loop and stated with
`CHOOSE` in the model; that it exists follows from the well-foundedness of `<`
(`LowestMember`). Cardinalities of the table and of a queue change by one, or by
those expired, by the theorems of `FiniteSetTheorems`.

*Songs.* Three theorems of `SequencerProofs` have a hypothesis on the constants
`Events`, `Calls` and the number of blocks, each the negation of a disagreement
of section 5. `PlainSongs` (any number of blocks and handles): no overflow, lock,
end of track or mapping by the application, all of which leave notes behind that
no queue will end. `SteadySong` (one block): no overflow, lock or end of track,
and no mapping or lock by the application; with a second block, stopping one
zeroes the counter of the other. `FairLocks` (one block): the song locks only
free channels and unlocks only what it locked, and the application leaves locks
and mappings alone; overflows and ends of track are allowed; a second song's
stop would release the first one's channels. The instances of the runs `song`
and `locks` satisfy them.

*The cache.* `TableSuffices` says that the table never fills before the memory
does. It is a hypothesis on behaviours, and needed: with the code's sizes, 192
entries and 3584 bytes, 192 timbres of 14 bytes fill the table first, and the
next one overwrites entry 0 (section 5). `FewTimbres`, a condition on the
constants, implies it: as many timbres as entries or fewer, as the 175 programs
and drums of General MIDI in 192 entries. An entry is taken only for a timbre
that is not resident and no timbre has two entries, so a table that is full holds
every timbre there is. The instance of the run has four timbres for three entries
and satisfies `TableSuffices` in another way, since its memory is full first.
`ResidentPlays` needs neither, but says nothing of entries from `Half` on.

*From catalog to notes.* `SongPlaysCatalog` joins the reader, the search for a
track and the cache. `SoundFiles` says that the song files have the form
MIDIFORM writes (`ConvertedCatalogued` proves that they do have it) or none at
all; a lone FORM XMID or two CATs number tracks as section 5 says.
`NoEndAssigned` excludes catalogs with bank 255, where the reader's search ends
early. `LibraryReadsBack` has no hypothesis: it speaks of the search itself.

*The tools.* `NextTrackLeast` says that the scan of the tracks finds one with the
least delta, and `TurnKeepsClock` that one event's time is divided into
intervals and a rest. `TimeFits` is the hypothesis that no delta of the file at
one of its tempos overflows the sum. The places of notes and branch points need
no hypothesis, since they do not depend on how long an interval is. Writing a
duration is `Splice`, one cell that gives way to several: `SoundingMoves` and
`LeadsMoves` say what becomes of a note and of a mark before and behind it (a mark
cannot be reached across it, since what leads to a mark are intervals only), and
`EndedKeeps` follows the loop of `note_off` through the slots. `EchoAssumption`
says what `setup_timbre` reads of the global timbre library, and
`InstrumentAssumption` that the instrument sends legal messages, as the MIDI
standard defines them.

*From the cable to the driver.* The state of MIDIECHO does not hold the bytes
that were read, so `StreamInv` speaks of some stream `w` of all that arrived,
which each arrival makes longer (`RingTakes`, `OneSent`). A message with its
status left out begins one byte earlier than its first byte on the wire:
`Place` counts from its end, and `Runs` names the message whose status stands
for it, with nothing but real-time bytes since. `Inside` says what the parser
holds after q bytes of a message, and `ExclusiveParsed`, `StatusParsed`,
`DataParsed` and `MessageParsed` that each of its actions takes it to q + 1 or
passes the message on. Before the first whole message come bytes that no status
claims (`Harmless`), since the parser starts with none. The hypothesis that the
ring was never full is the property's own: a ring just full looks empty, and a
lap is lost.

*From the cable to the file.* `RecordedAsPlayed` compares the file, read back, with
what was played and when. `RecInv` has three parts with it. What arrives makes
the stream longer and leaves what was read of it as it was (`SilentScored`,
`ScoredTakes`). A turn of the main loop takes one byte further: `HandledBegins` is
the first byte of a message, written or left out, and `HandledGoes` any other;
`TotalIs` says that cutting off at each byte loses no more than cutting off
the whole wait does (`CutsAdd`). Reading back goes the other way: `VlnRead`,
`ChannelPieceRead`, `PieceRead` and `TrackRead` say that the reader finds the pieces that were
written, each with its delta, although a piece that grows byte by byte is
the last one and what it will be is known only from the message
(`LastGrows`, `WriteGoes`, `WriteEnds`). `RecorderAssumption` asks for complete
messages, for room for a delta and a length in three digits, as 65535 and 1025
have in base 128, and for no real-time byte inside another message: the handler
drops those, so that the message would reach the file as if they had not been
there. Between messages they do occur.

*Recursion.* A recursive function of the model is a `CHOOSE`, and that it exists
is proved for each that a theorem needs (`RestoreDefined`, `WritesDefined`,
`PicksDefined`, `FlattenDefined`, `ChosenDefined`, `LoopDefined`, `TextDefined`, `EventsAre`), by a least
counterexample or by `Upwards`: a set that holds 0 and with each number the next
holds all of them. That replaces the induction rules, which take an operator.
The assumption `NCTRLS + NUM_CHANS - 2 < SUSTAIN * NUM_CHANS` of `Controllers`
says that what is logged by the hash never reaches the pedals' row, as 23 < 64 in
the code.

Only model-checked:

- liveness, which is beyond the prover: `RampConverges`, `NotesEnd`,
  `InstallEnds`, `SongEnds`, `VolumeSettles`, `EnvelopeEnds`, `PlaybackEnds`;
- `EventsTranslated`, and of `PlaysAsWritten` what the finished chunk plays. Like
  `RecordedAsPlayed` they compare a text with what a recursive reader makes of it;
  but MIDILOG moves the rest of the file and MIDIFORM writes durations behind
  notes while they work, and the lemmas above are about a text that only grows
  at its end.

## 7. Not modelled

- Sound synthesis in `opl3.c` (phase, waveforms, feedback, mixing, resampling,
  rhythm mode, which the driver never uses) and the driver's computation of
  frequencies and operator levels: they compute numbers from numbers, keep no
  protocol, and no document of the repository says what they should be.
- Generated tables (`fat_opl.c`, `xmidi32_yamaha_tables.c`) and the DRO and WAV
  writers' formats.
- The contents of pitch bends and programs, which are stored and sent by the same
  handlers as controllers but never through the hash; interrupts, ports and
  busy waits of the DOS code; screens, prompts and messages of the tools.
- A second `define_timbre_cache`, calls with a null data pointer, and program
  changes on the drum channel. The driver selects banks with controller 0 and
  ignores controller 114, which XMIDI.TXT:237 defines for it; so does the model.
- Chunk lengths, padding and the byte order of numbers in song files: `Chunks`
  goes from chunk to chunk, and `EventStream` takes sizes as read.
- `MLIST.C` and `TAIL.C`, which print files; the documents and the 1990s
  assembly in `ail32_V105/`, which are not built and serve as references.
- Memory the code writes outside its arrays: where an input would do so, it is
  excluded, as section 5 says.
