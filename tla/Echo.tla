-------------------------------- MODULE Echo --------------------------------
(***************************************************************************)
(* MIDIECHO (glib/MIDIECHO.C): it plays what an instrument sends on an     *)
(* AIL driver.  The interrupt handler queues the bytes; the main loop puts *)
(* messages together, installs the timbres they call for, keeps count of   *)
(* the partials in use and hands the messages to the driver.               *)
(*                                                                         *)
(* The driver and its timbre cache are code this program links to,         *)
(* modelled from the calls it makes.                                       *)
(***************************************************************************)
EXTENDS Instrument, FiniteSets, SequencesExt

CONSTANTS
  EchoMessages, \* what the instrument sends: sequences of bytes
  GTL,          \* the timbres of the library, as <<bank, patch>>
  Partials,     \* the partials of a timbre, and of every preset
  CacheSize,    \* timbres the driver has room for
  driver_vol,
  init_prg,     \* the patches of the parts at first, -1 for none
  SYSEX,        \* 4096, the room for an exclusive message
  EchoBytes     \* bound: bytes that arrive

(* The arrays of the display (dy, dr, do): pmap.part and pmap.base are 1   *)
(* for the parts counted, and for those of a fixed number of partials.     *)
CONSTANTS mode, part, base

Parts == 0 .. 9

(* Channel messages have data.  A Roland synthesiser presets bank 0. *)
ASSUME EchoAssumption ==
  /\ \A m \in EchoMessages :
       m \in Seq(Byte) /\ m # <<>> /\ (m[1] < 240 => Len(m) > 1)
  /\ mode \in {"dy", "dr", "do"}
  /\ CacheSize \in Nat \ {0} /\ SYSEX \in Nat \ {0} /\ driver_vol \in 0 .. 100
  /\ \A c \in Parts : init_prg[c] \in -1 .. 127 /\ base[c] \in Nat
  /\ \A t \in GTL : Partials[t] \in Nat
  /\ mode = "dr" => \A n \in 0 .. 127 : Partials[<<0, n>>] \in Nat

ASSUME InstrumentAssumption == \A m \in EchoMessages : Complete(m)

VARIABLES
  sysex, cv_status, cv_bytecnt, cv_message,    \* the message being put together
  timbre_bank, timbre_patch, chan_partials, partials, OPL_voices,
  installed,                                   \* the timbres in the driver's cache
  sent,                                        \* history: what the driver and the synthesiser got
  driver_bank, driver_timbre,                  \* histories: what the driver plays a part with
  silent,                                      \* history: notes sent whose timbre was never set up
  discarded,                                   \* history: timbres the cache gave up
  sounding, uneven                             \* histories: notes on per part; see PartialsExact

parser  == <<sysex, cv_status, cv_bytecnt, cv_message>>
patches == <<timbre_bank, timbre_patch, installed, discarded>>
meter   == <<chan_partials, partials, OPL_voices, sounding, uneven>>
driver  == <<sent, driver_bank, driver_timbre, silent>>
echovars == <<parser, patches, meter, driver>>

RBS(c) == IF c = 9 THEN 127 ELSE 0

----------------------------------------------------------------------------
(* Timbres and partials. *)

(* Those of bank 0 are preset in a Roland synthesiser.  With a timbre not  *)
(* in the library the OPL3 display reads what is at address 0.             *)
PartialsOf(c, b, n) ==
  IF base[c] # 0 THEN {base[c]}
  ELSE IF part[c] = 0 \/ n = -1 THEN {0}
  ELSE IF mode = "dy" THEN {2}
  ELSE IF <<b, n>> \in GTL \/ (mode = "dr" /\ b = 0) THEN {Partials[<<b, n>>]}
  ELSE IF mode = "do" THEN {2, 4} ELSE {0}

(* AIL_timbre_status and AIL_install_timbre: the cache makes room. *)
setup_timbre(b, n) ==
  IF n = -1 \/ <<b, n>> \in installed \/ <<b, n>> \notin GTL
  THEN UNCHANGED <<installed, discarded>>
  ELSE \E out \in SUBSET installed :
         /\ Cardinality(out) = IF Cardinality(installed) < CacheSize THEN 0 ELSE 1
         /\ installed' = (installed \ out) \cup {<<b, n>>}
         /\ discarded' = (discarded \cup out) \ {<<b, n>>}

----------------------------------------------------------------------------
(* main, up to its loop.  The timbres of the parts are in the library and  *)
(* the cache has room for them.                                            *)
EchoInit ==
  /\ init_queue
  /\ sysex = <<>> /\ cv_status = 0 /\ cv_bytecnt = 0 /\ cv_message = <<0, 0>>
  /\ timbre_bank = [c \in Parts |-> 0]
  /\ timbre_patch = [c \in Parts |-> init_prg[c]]
  /\ installed = {<<0, init_prg[c]>> : c \in {p \in Parts : init_prg[p] # -1}}
  /\ chan_partials = [c \in Parts |-> CHOOSE p \in PartialsOf(c, 0, init_prg[c]) : TRUE]
  /\ partials = 0 /\ OPL_voices = 0
  /\ sent = <<>> /\ discarded = {} /\ silent = FALSE
  /\ driver_bank = [c \in Parts |-> 0]
  /\ driver_timbre = [c \in Parts |-> <<0, init_prg[c]>>]
  /\ sounding = [c \in Parts |-> 0] /\ uneven = FALSE

----------------------------------------------------------------------------
(* It may be plugged in within a message, but not behind one. *)
EchoPlugged == Plugged(EchoMessages) /\ running = 0

(* The instrument and the interrupt handler.  A real-time message within   *)
(* an exclusive one, and an exclusive one longer than the room for it,     *)
(* are not played as they are: broken.                                     *)
MIDIECHO_isr ==
  /\ arrived < EchoBytes
  /\ \E s \in NextBytes(EchoMessages) :
       LET m == s[2] IN
       /\ sending' = Tail(s[1])
       /\ write_queue(s[1][1])
       /\ arrived' = arrived + 1
       /\ running' = IF m = <<>> THEN running
                     ELSE IF m[1] < 240 THEN m[1] ELSE IF m[1] >= 248 THEN running ELSE 0
       /\ played' = IF m = <<>> THEN played
                    ELSE Append(played, [bytes |-> m, upto |-> arrived + Len(s[1])])
       /\ broken' = (broken \/ (m # <<>> /\ m[1] = 240
                       /\ (Len(m) > SYSEX \/ \E i \in DOMAIN m : m[i] >= 248)))
  /\ UNCHANGED <<parser, patches, meter, driver>>

----------------------------------------------------------------------------
(* The main loop. *)

NextByte == check_queue /\ read_queue

(* Bytes of an exclusive message, which go back to the synthesiser at its  *)
(* end.  What becomes of one longer than the room for it is not modelled.  *)
exclusive_byte ==
  /\ NextByte
  /\ watch_queue = 240 \/ sysex # <<>>
  /\ \/ /\ watch_queue = 240
        /\ sysex' = <<240>> /\ UNCHANGED sent
     \/ /\ watch_queue \notin {240, 247}
        /\ Len(sysex) < SYSEX
        /\ sysex' = Append(sysex, watch_queue) /\ UNCHANGED sent
     \/ /\ watch_queue = 247
        /\ sent' = Append(sent, Append(sysex, 247))
        /\ sysex' = <<>>
  /\ UNCHANGED <<device, cv_status, cv_bytecnt, cv_message, patches, meter,
                 driver_bank, driver_timbre, silent>>

(* The part a channel plays: those above 9 begin again at 1. *)
Part(b) == IF b % 16 > 9 THEN (b % 16) - 9 ELSE b % 16

status_byte ==
  /\ NextByte
  /\ watch_queue >= 128 /\ watch_queue # 240 /\ sysex = <<>>
  /\ IF watch_queue < 248
     THEN /\ cv_bytecnt' = 0
          /\ cv_status' = Part(watch_queue)
                          + (IF watch_queue >= 240 THEN 0 ELSE (watch_queue \div 16) * 16)
     ELSE UNCHANGED <<cv_bytecnt, cv_status>>
  /\ UNCHANGED <<device, sysex, cv_message, patches, meter, driver>>

Kind(s) == s \div 16

(* Mutant of Needed: a program change has two data bytes. *)
program_needs_two(s) == IF Kind(s) = 13 THEN 1 ELSE 2

(* The data bytes of a message. *)
Needed(s) == IF Kind(s) \in {12, 13} THEN 1 ELSE 2

(* A data byte before the last one of its message, or of no message. *)
data_byte ==
  /\ NextByte
  /\ watch_queue < 128 /\ sysex = <<>>
  /\ \/ cv_status < 128 /\ UNCHANGED <<cv_bytecnt, cv_message>>
     \/ /\ cv_status >= 128 /\ cv_bytecnt + 1 < Needed(cv_status)
        /\ cv_message' = [cv_message EXCEPT ![cv_bytecnt + 1] = watch_queue]
        /\ cv_bytecnt' = cv_bytecnt + 1
  /\ UNCHANGED <<device, sysex, cv_status, patches, meter, driver>>

(* intercept_timbre_request: the patch and the bank of the part as the     *)
(* message leaves them.                                                    *)
RhythmNote(c, d1, d2) == Kind(cv_status) = 9 /\ d2 # 0 /\ RBS(c) # 0
intercept_timbre_request(c, d1, d2) ==
  \/ /\ Kind(cv_status) = 12 \/ RhythmNote(c, d1, d2)
     /\ LET b == IF Kind(cv_status) = 12 THEN timbre_bank[c] ELSE RBS(c) IN
        /\ timbre_patch' = [timbre_patch EXCEPT ![c] = d1]
        /\ timbre_bank' = [timbre_bank EXCEPT ![c] = b]
        /\ setup_timbre(b, d1)
        /\ \E p \in PartialsOf(c, b, d1) : chan_partials' = [chan_partials EXCEPT ![c] = p]
  \/ /\ Kind(cv_status) = 11 /\ d1 = 114
     /\ timbre_bank' = [timbre_bank EXCEPT ![c] = d2]
     /\ UNCHANGED <<timbre_patch, installed, discarded, chan_partials>>
  \/ /\ ~(Kind(cv_status) = 12 \/ RhythmNote(c, d1, d2) \/ (Kind(cv_status) = 11 /\ d1 = 114))
     /\ UNCHANGED <<timbre_bank, timbre_patch, installed, discarded, chan_partials>>

Value(d1, d2) ==
  IF Kind(cv_status) = 11 /\ d1 = 7 THEN (d2 * driver_vol) \div 100 ELSE d2

IsOn(d2)  == Kind(cv_status) = 9 /\ d2 # 0
IsOff(d2) == Kind(cv_status) = 8 \/ (Kind(cv_status) = 9 /\ d2 = 0)

(* Mutant of count_partial_usage: a note-on that ends a note is none. *)
count_by_status(c, d2) ==
  LET sign == IF Kind(cv_status) = 9 THEN 1 ELSE IF Kind(cv_status) = 8 THEN -1 ELSE 0
      sum  == partials + sign * chan_partials'[c]
      four == OPL_voices + (IF chan_partials'[c] = 4 THEN sign ELSE 0)
  IN /\ partials' = IF sum < 0 THEN 0 ELSE sum
     /\ OPL_voices' = IF sum < 0 THEN 0 ELSE four

(* The display counts with the partials the part has now; below zero it    *)
(* starts again.                                                           *)
count_partial_usage(c, d2) ==
  LET sign == IF IsOn(d2) THEN 1 ELSE IF IsOff(d2) THEN -1 ELSE 0
      sum  == partials + sign * chan_partials'[c]
      four == OPL_voices + (IF chan_partials'[c] = 4 THEN sign ELSE 0)
  IN /\ partials' = IF sum < 0 THEN 0 ELSE sum
     /\ OPL_voices' = IF sum < 0 THEN 0 ELSE four

(* The histories of what is counted: a part whose partials change while    *)
(* it sounds, or a note that ends without having begun, upset the count.   *)
Counted(c, d2) ==
  /\ sounding' = [sounding EXCEPT ![c] = IF IsOn(d2) THEN @ + 1
                    ELSE IF IsOff(d2) /\ @ > 0 THEN @ - 1 ELSE @]
  /\ uneven' = (uneven \/ (sounding[c] > 0 /\ chan_partials'[c] # chan_partials[c])
                  \/ (IsOff(d2) /\ sounding[c] = 0))

(* AIL_send_channel_voice_message: how the driver takes it. *)
Driven(c, d1, d2) ==
  /\ driver_bank' = IF Kind(cv_status) = 11 /\ d1 = 114
                    THEN [driver_bank EXCEPT ![c] = d2] ELSE driver_bank
  /\ driver_timbre' = [driver_timbre EXCEPT ![c] =
       IF Kind(cv_status) = 12 /\ RBS(c) = 0 THEN <<driver_bank[c], d1>>
       ELSE IF RhythmNote(c, d1, d2) THEN <<RBS(c), d1>> ELSE @]
  /\ silent' = (silent \/ (IsOn(d2) /\ driver_timbre'[c][2] # -1
                  /\ driver_timbre'[c] \in GTL \ (installed' \cup discarded')))

(* The last byte of a message. *)
message ==
  /\ NextByte
  /\ watch_queue < 128 /\ sysex = <<>>
  /\ cv_status >= 128 /\ cv_bytecnt + 1 = Needed(cv_status)
  /\ cv_bytecnt' = 0
  /\ LET c  == cv_status % 16
         d1 == IF cv_bytecnt = 0 THEN watch_queue ELSE cv_message[1]
         d2 == IF cv_bytecnt = 1 THEN watch_queue ELSE cv_message[2]
         v  == Value(d1, d2)
     IN /\ cv_message' = <<d1, v>>
        /\ intercept_timbre_request(c, d1, d2)
        /\ count_partial_usage(c, v)
        /\ Counted(c, v)
        /\ Driven(c, d1, v)
        /\ sent' = Append(sent, <<cv_status, d1, v>>)
  /\ UNCHANGED <<device, sysex, cv_status>>

----------------------------------------------------------------------------
(* Properties. *)

(* What the driver should get of a message of the instrument: the volume   *)
(* of a part scaled; a message with one data byte carries along an old     *)
(* second.                                                                 *)
Outcome(m) ==
  IF m[1] = 240 THEN m
  ELSE [i \in DOMAIN m |->
          IF i = 1 THEN m[1] - (m[1] % 16) + Part(m[1])
          ELSE IF i = 3 /\ Kind(m[1]) = 11 /\ m[2] = 7 THEN (m[3] * driver_vol) \div 100
          ELSE m[i]]

(* The messages read from the ring that the driver or the synthesiser      *)
(* should get: all but those of the system that are not exclusive.         *)
Forwarded == {i \in DOMAIN played :
             played[i].upto <= arrived - Len(Pending) /\ played[i].bytes[1] <= 240}

(* They get the messages that were read from the ring, each whole and in   *)
(* order, also those with running status and those around real-time        *)
(* messages, unless the ring was once full (MIDIECHO.C 566-628).           *)
EchoedAsPlayed ==
  ~overrun /\ ~broken =>
    /\ Len(sent) = Cardinality(Forwarded)
    /\ \A i \in Forwarded :
         IsPrefix(Outcome(played[i].bytes), sent[Cardinality({j \in Forwarded : j <= i})])

(* No note reaches the driver before the timbre it is played with was      *)
(* installed, unless the library lacks it or the cache gave it up since    *)
(* (MIDIECHO.C 338-364, 403-441).                                          *)
TimbreBeforeUse == ~silent

(* The sum over the parts. *)
Total(f) == f[0] + f[1] + f[2] + f[3] + f[4] + f[5] + f[6] + f[7] + f[8] + f[9]

(* The display tells the partials of the notes that are on, as long as no  *)
(* part changes its timbre while it sounds (MIDIECHO.C 500-527).           *)
PartialsExact ==
  ~uneven =>
    /\ partials = Total([c \in Parts |-> sounding[c] * chan_partials[c]])
    /\ OPL_voices = Total([c \in Parts |-> IF chan_partials[c] = 4 THEN sounding[c] ELSE 0])

(* What the program keeps of timbres agrees with the notes it passes on.   *)
TimbresAccounted == TimbreBeforeUse /\ PartialsExact
=============================================================================
